------------------------- MODULE PeerSession_proofs -------------------------
(***************************************************************************)
(* Proofs about PeerSession, for every number of runs, every choice of     *)
(* AssemblyScript runs and every environment.                              *)
(***************************************************************************)
EXTENDS PeerSession, RunController_proofs, SequenceTheorems

-----------------------------------------------------------------------------
(* Type correctness: what each method of the controller returns.           *)

LEMMA RunFacts ==
    /\ NoRun \in MaybeRun
    /\ \A r \in Runs : r \in MaybeRun /\ r # NoRun /\ r \in Nat
    /\ \A r \in MaybeRun : r # NoRun => r \in Runs
    /\ NoResults \in Results
    /\ \A r \in Runs : NewJob(r) \in Job
BY RunIds DEF NewJob, Job

TypeInv ==
    /\ page \in [Pages -> CountingOf(Job)]
    /\ linked \in [Pages -> BOOLEAN]
    /\ net \in [Pages -> Seq(Message)]
    /\ asked \in 0..MaxRuns
    /\ hashing \subseteq Runs
    /\ pendingProposal \in MaybeRun
    /\ acceptedPending \in MaybeRun
    /\ compiling \subseteq Runs
    /\ started \subseteq Runs
    /\ withdrawn \subseteq Runs

LEMMA TypeInvOK == TypeInv => TypeOK
BY DEF TypeInv, TypeOK, CountingOf, Controller

LEMMA AttachType ==
    ASSUME NEW c \in CountingOf(Job), NEW r \in Runs
    PROVE  AttachRemoteRun(c, r) \in CountingOf(Job)
BY RunFacts DEF AttachRemoteRun, CountingOf, ControllerOf, Loaded

LEMMA AttachProverType ==
    ASSUME NEW c \in CountingOf(Job)
    PROVE  AttachProver(c) \in CountingOf(Job)
BY RunFacts, AttachType DEF AttachProver, CountingOf, ControllerOf, Loaded

LEMMA OnRemoteProtocolType ==
    ASSUME NEW c \in CountingOf(Job), NEW r \in Runs
    PROVE  OnRemoteProtocol(c, r) \in CountingOf(Job)
<1> DEFINE Feed(j) == [j EXCEPT !.got = IF r = j.run /\ @ # "foreign"
                                        THEN "own" ELSE "foreign"]
           jobs == {IF j.run = c.run THEN Feed(j) ELSE j : j \in c.jobs}
<1>1. \A j \in Job : Feed(j) \in Job
  BY DEF Job
<1>2. jobs \subseteq Job
  BY <1>1 DEF CountingOf, ControllerOf, Loaded
<1>3. [c EXCEPT !.jobs = jobs] \in CountingOf(Job)
  BY <1>2 DEF CountingOf, ControllerOf, Loaded
<1> QED
  BY <1>3 DEF OnRemoteProtocol

LEMMA SendType ==
    ASSUME NEW n \in [Pages -> Seq(Message)], NEW p \in Pages, NEW m \in Message
    PROVE  Send(n, p, m) \in [Pages -> Seq(Message)]
BY DEF Send, Pages, Other

LEMMA MsgType ==
    ASSUME NEW kind \in Kinds, NEW r \in Runs
    PROVE  Msg(kind, r) \in Message
BY DEF Msg, Message

LEMMA TakenType ==
    ASSUME TypeInv, NEW p \in Pages, NEW kind, Arrives(p, kind)
    PROVE  /\ Taken(p) \in [Pages -> Seq(Message)]
           /\ Head(net[p]) \in Message
           /\ Head(net[p]).run \in Runs
<1>1. net[p] \in Seq(Message) /\ net[p] # << >>
  BY DEF TypeInv, Arrives
<1>2. Head(net[p]) \in Message /\ Tail(net[p]) \in Seq(Message)
  BY <1>1, HeadTailProperties
<1> QED
  BY <1>2 DEF TypeInv, Taken, Message

LEMMA TypeInit == Init => TypeInv
<1> SUFFICES ASSUME Init PROVE TypeInv
  OBVIOUS
<1>1. page \in [Pages -> CountingOf(Job)] /\ linked \in [Pages -> BOOLEAN]
  BY FreshType DEF Init
<1>2. net \in [Pages -> Seq(Message)]
  BY EmptySeq DEF Init
<1>3. asked \in 0..MaxRuns
  BY MaxRunsAssumption DEF Init
<1> QED
  BY <1>1, <1>2, <1>3, RunFacts DEF Init, TypeInv

LEMMA StartVerifierRunType ==
    ASSUME TypeInv, NEW r \in Runs, NEW c \in CountingOf(Job), StartVerifierRun(r, c)
    PROVE  page' \in [Pages -> CountingOf(Job)] /\ net' \in [Pages -> Seq(Message)]
             /\ started' \subseteq Runs
<1>1. AttachRemoteRun(NewRun(c, r), r) \in CountingOf(Job)
  BY NewRunType, AttachType
<1>2. Msg("ready", r) \in Message
  BY MsgType DEF Kinds
<1> QED
  BY <1>1, <1>2, SendType DEF StartVerifierRun, TypeInv, Pages

LEMMA ProceedAcceptType ==
    ASSUME TypeInv, NEW r \in Runs, NEW c \in CountingOf(Job), ProceedAccept(r, c)
    PROVE  page' \in [Pages -> CountingOf(Job)] /\ net' \in [Pages -> Seq(Message)]
             /\ started' \subseteq Runs /\ compiling' \subseteq Runs
BY StartVerifierRunType DEF ProceedAccept, TypeInv, Pages

LEMMA ReportErrorType ==
    ASSUME TypeInv, NEW p \in Pages, NEW c \in CountingOf(Job), NEW r,
           c.run # NoRun => r \in Runs, ReportError(p, c, r)
    PROVE  page' \in [Pages -> CountingOf(Job)] /\ net' \in [Pages -> Seq(Message)]
<1>1. page' \in [Pages -> CountingOf(Job)]
  BY WorkerErrorType DEF ReportError, TypeInv
<1>2. CASE c.run = NoRun
  BY <1>1, <1>2 DEF ReportError, TypeInv
<1>3. CASE c.run # NoRun
  <2>1. Msg("error", r) \in Message
    BY <1>3, MsgType DEF Kinds
  <2>2. Send(net, p, Msg("error", r)) \in [Pages -> Seq(Message)]
    BY <2>1, SendType DEF TypeInv
  <2> QED
    BY <1>1, <1>3, <2>2 DEF ReportError
<1> QED
  BY <1>1, <1>2, <1>3

LEMMA ProposeType ==
    ASSUME NEW c \in CountingOf(Job), NEW r \in Runs
    PROVE  Propose(c, r) \in CountingOf(Job)
BY NewRunType, RunFacts DEF Propose, CountingOf, ControllerOf, Loaded

LEMMA TypeNext == TypeInv /\ [Next]_vars => TypeInv'
<1> SUFFICES ASSUME TypeInv, [Next]_vars PROVE TypeInv'
  OBVIOUS
<1> USE RunFacts DEF hostVars, guestVars, history
<1>1. CASE ClickProve
  <2> DEFINE r == asked + 1
  <2>1. r \in Runs /\ asked' = r
    BY <1>1 DEF ClickProve
  <2>2. Propose(page["host"], r) \in CountingOf(Job)
    BY <2>1, ProposeType DEF TypeInv, Pages
  <2>3. [Propose(page["host"], r) EXCEPT !.button = "running"] \in CountingOf(Job)
    BY <2>2 DEF CountingOf, ControllerOf, Loaded, Buttons
  <2>4. [page["host"] EXCEPT !.button = "running"] \in CountingOf(Job)
    BY ZenonT(30) DEF TypeInv, Pages, CountingOf, ControllerOf, Loaded, Buttons
  <2>5. Msg("propose", r) \in Message
    BY <2>1, MsgType DEF Kinds
  <2>6. asked' \in 0..MaxRuns
    BY <2>1, MaxRunsAssumption DEF Runs
  <2>7. Send(net, "host", Msg("propose", r)) \in [Pages -> Seq(Message)]
    BY <2>5, SendType DEF TypeInv, Pages
  <2>8. CASE r \in Sourced
    <3>1. /\ page' = [page EXCEPT !["host"] = [page["host"] EXCEPT !.button = "running"]]
          /\ hashing' = hashing \cup {r}
          /\ UNCHANGED <<linked, net, guestVars, history>>
      BY <1>1, <2>8 DEF ClickProve
    <3>2. page' \in [Pages -> CountingOf(Job)] /\ hashing' \subseteq Runs
      BY <2>1, <2>4, <3>1 DEF TypeInv
    <3> QED
      BY <2>6, <3>1, <3>2 DEF TypeInv
  <2>9. CASE r \notin Sourced
    <3>1. /\ page' = [page EXCEPT !["host"] =
                        [Propose(page["host"], r) EXCEPT !.button = "running"]]
          /\ net' = Send(net, "host", Msg("propose", r))
          /\ UNCHANGED <<linked, hashing, guestVars, history>>
      BY <1>1, <2>9 DEF ClickProve
    <3>2. page' \in [Pages -> CountingOf(Job)]
      BY <2>3, <3>1 DEF TypeInv
    <3> QED
      BY <2>6, <2>7, <3>1, <3>2 DEF TypeInv
  <2> QED
    BY <2>8, <2>9
<1>2. ASSUME NEW r \in hashing, HashDone(r) PROVE TypeInv'
  <2>1. r \in Runs
    BY DEF TypeInv
  <2>2. Propose(page["host"], r) \in CountingOf(Job) /\ Msg("propose", r) \in Message
    BY <2>1, ProposeType, MsgType DEF TypeInv, Pages, Kinds
  <2> QED
    BY <1>2, <2>2, SendType DEF HashDone, TypeInv, Pages
<1>3. CASE ClickAbort
  <2>1. Abort(page["host"]) \in CountingOf(Job)
    BY AbortType DEF TypeInv, Pages
  <2>2. Msg("abort", page["host"].run) \in Message
    BY <1>3, MsgType DEF ClickAbort, TypeInv, Pages, CountingOf, ControllerOf, Loaded, Kinds
  <2> QED
    BY <1>3, <2>1, <2>2, SendType DEF ClickAbort, TypeInv, Pages
<1>4. CASE AcceptRun
  <2>1. pendingProposal \in Runs /\ page["guest"] \in CountingOf(Job)
    BY <1>4 DEF AcceptRun, TypeInv, Pages
  <2> QED
    BY <1>4, <2>1, ProceedAcceptType DEF AcceptRun, TypeInv
<1>5. CASE DeclineRun
  <2>1. Msg("decline", pendingProposal) \in Message
    BY <1>5, MsgType DEF DeclineRun, TypeInv, Kinds
  <2> QED
    BY <1>5, <2>1, SendType DEF DeclineRun, TypeInv, Pages
<1>6. ASSUME NEW r \in compiling, CompileOk(r) \/ CompileRefused(r) PROVE TypeInv'
  <2>1. r \in Runs /\ page["guest"] \in CountingOf(Job)
    BY DEF TypeInv, Pages
  <2>2. Msg("error", r) \in Message
    BY <2>1, MsgType DEF Kinds
  <2>3. CASE CompileOk(r)
    BY <2>1, <2>3, StartVerifierRunType DEF CompileOk, TypeInv
  <2>4. CASE CompileRefused(r)
    BY <2>2, <2>4, SendType DEF CompileRefused, TypeInv, Pages
  <2> QED
    BY <1>6, <2>3, <2>4
<1>7. ASSUME NEW p \in Pages, Receive(p) PROVE TypeInv'
  <2>1. page[p] \in CountingOf(Job) /\ RoleOf(Other(p)) \in Roles
    BY DEF TypeInv, RoleOf, Roles
  <2>2. CASE p = "guest" /\ ReceivePropose
    BY <2>2, TakenType DEF ReceivePropose, TypeInv
  <2>3. CASE p = "guest" /\ ReceiveAbort
    BY <2>1, <2>3, TakenType, AbortType DEF ReceiveAbort, TypeInv
  <2>4. CASE p = "host" /\ ReceiveReady
    BY <2>1, <2>4, TakenType, AttachProverType DEF ReceiveReady, TypeInv
  <2>5. CASE p = "host" /\ ReceiveDecline
    BY <2>1, <2>5, TakenType, FailRunType DEF ReceiveDecline, TypeInv
  <2>6. CASE ReceiveDone(p)
    <3>1. PICK c \in RecordResult(page[p], RoleOf(Other(p)), Head(net[p]).run) :
            page' = [page EXCEPT ![p] = c]
      BY <2>6 DEF ReceiveDone
    <3>2. c \in CountingOf(Job)
      BY <2>1, <2>6, TakenType, RecordResultType DEF ReceiveDone
    <3> QED
      BY <2>6, <3>1, <3>2, TakenType DEF ReceiveDone, TypeInv
  <2>7. CASE ReceiveError(p)
    BY <2>1, <2>7, TakenType, FailRunType DEF ReceiveError, TypeInv
  <2>8. CASE ReceiveBytes(p)
    BY <2>1, <2>8, TakenType, OnRemoteProtocolType DEF ReceiveBytes, TypeInv
  <2> QED
    BY <1>7, <2>2, <2>3, <2>4, <2>5, <2>6, <2>7, <2>8 DEF Receive
<1>8. ASSUME NEW p \in Pages, NEW role \in Roles, WorkerReady(p, role) PROVE TypeInv'
  <2> DEFINE c == WorkerUp(page[p], role, IF linked[p] THEN "idle" ELSE "waiting")
  <2>1. c \in CountingOf(Job)
    BY <1>8, WorkerUpType DEF TypeInv, WorkerReady, Buttons
  <2> HIDE DEF c
  <2>2. CASE ProceedAccept(acceptedPending, c) /\ acceptedPending # NoRun
               /\ acceptedPending' = NoRun
    <3>1. acceptedPending \in Runs
      BY <2>2 DEF TypeInv
    <3> QED
      BY <1>8, <2>1, <2>2, <3>1, ProceedAcceptType DEF WorkerReady, TypeInv
  <2>3. CASE /\ page' = [page EXCEPT ![p] = c]
             /\ UNCHANGED <<net, acceptedPending, compiling, started>>
    BY <1>8, <2>1, <2>3 DEF WorkerReady, TypeInv
  <2> QED
    BY <1>8, <2>2, <2>3 DEF WorkerReady, c
<1>9. ASSUME NEW p \in Pages, NEW role \in Roles, WorkerBroken(p, role) PROVE TypeInv'
  <2> DEFINE c == [page[p] EXCEPT !.worker[role] = "broken"]
  <2>1. c \in CountingOf(Job)
    BY <1>9, WorkerBrokenType DEF TypeInv, WorkerBroken
  <2>2. ReportError(p, c, c.run)
    BY <1>9 DEF WorkerBroken
  <2>3. c.run # NoRun => c.run \in Runs
    BY <2>1 DEF CountingOf, ControllerOf, Loaded
  <2>4. page' \in [Pages -> CountingOf(Job)] /\ net' \in [Pages -> Seq(Message)]
    BY <2>1, <2>2, <2>3, ReportErrorType
  <2> QED
    BY <1>9, <2>4 DEF WorkerBroken, TypeInv
<1>10. ASSUME NEW p \in Pages, NEW j \in page[p].jobs,
              JobSend(p, j) \/ JobDone(p, j) \/ JobError(p, j)
       PROVE  TypeInv'
  <2>1. page[p] \in CountingOf(Job) /\ j \in Job /\ j.run \in Runs /\ RoleOf(p) \in Roles
    BY DEF TypeInv, CountingOf, ControllerOf, Loaded, Job, RoleOf, Roles
  <2>2. Without(p, j) \in CountingOf(Job)
    BY <2>1 DEF Without, CountingOf, ControllerOf, Loaded
  <2>3. Msg("bytes", j.run) \in Message /\ Msg("done", j.run) \in Message
    BY <2>1, MsgType DEF Kinds
  <2>4. CASE JobSend(p, j)
    <3>1. [j EXCEPT !.sent = TRUE] \in Job
      BY <2>1 DEF Job
    <3>2. page' \in [Pages -> CountingOf(Job)]
      BY <2>1, <2>4, <3>1 DEF JobSend, TypeInv, CountingOf, ControllerOf, Loaded
    <3> QED
      BY <2>3, <2>4, <3>2, SendType DEF JobSend, TypeInv
  <2>5. CASE JobDone(p, j)
    <3>1. PICK c \in RecordResult(Without(p, j), RoleOf(p), j.run) :
            page' = [page EXCEPT ![p] = c]
      BY <2>5 DEF JobDone
    <3>2. c \in CountingOf(Job)
      BY <2>1, <2>2, RecordResultType
    <3> QED
      BY <2>3, <2>5, <3>1, <3>2, SendType DEF JobDone, TypeInv
  <2>6. CASE JobError(p, j)
    <3>1. page' \in [Pages -> CountingOf(Job)] /\ net' \in [Pages -> Seq(Message)]
      BY <2>1, <2>2, <2>6, ReportErrorType DEF JobError
    <3> QED
      BY <2>6, <3>1 DEF JobError, TypeInv
  <2> QED
    BY <1>10, <2>4, <2>5, <2>6
<1>11. ASSUME NEW p \in Pages, LinkDown(p) PROVE TypeInv'
  <2>1. page[p] \in CountingOf(Job) /\ Abort(page[p]) \in CountingOf(Job)
    BY AbortType DEF TypeInv
  <2>2. \A b \in Buttons : [page[p] EXCEPT !.button = b] \in CountingOf(Job)
    BY <2>1 DEF CountingOf, ControllerOf, Loaded
  <2>3. page' \in [Pages -> CountingOf(Job)]
    BY <1>11, <2>1, <2>2 DEF LinkDown, TypeInv, Buttons
  <2> QED
    BY <1>11, <2>3 DEF LinkDown, TypeInv
<1>12. CASE UNCHANGED vars
  BY <1>12 DEF vars, TypeInv
<1> QED
  BY <1>1, <1>2, <1>3, <1>4, <1>5, <1>6, <1>7, <1>8, <1>9, <1>10, <1>11, <1>12
     DEF Next, Compiled, WorkerStep

\* The type invariant holds in every environment.
THEOREM TypeCorrect == Spec => []TypeOK
BY TypeInit, TypeNext, TypeInvOK, PTL DEF Spec

-----------------------------------------------------------------------------
(* HeldProver and NoUnlinkedRun.  Most steps can only end a controller's   *)
(* run or leave it as it is, and add no job: they weaken it.  Clicks,      *)
(* hashes, `ready` and the start of a verifier run are the exceptions.     *)

Weakens(c, d) ==
    /\ \/ /\ d.run = c.run /\ d.attached = c.attached
          /\ d.pendingProverReq = c.pendingProverReq
       \/ d.run = NoRun /\ ~d.attached /\ d.pendingProverReq = NoRun
    /\ \A j \in d.jobs : \E k \in c.jobs : k.run = j.run

LEMMA FailWeakens ==
    ASSUME NEW c \in CountingOf(Job)
    PROVE  Weakens(c, FailRun(c))
BY DEF Weakens, FailRun, EndRun, CountingOf, ControllerOf

LEMMA AbortWeakens ==
    ASSUME NEW c \in CountingOf(Job)
    PROVE  Weakens(c, Abort(c))
BY DEF Weakens, Abort, Fresh, CountingOf, ControllerOf

LEMMA RecordWeakens ==
    ASSUME NEW c \in CountingOf(Job), NEW role \in Roles, NEW r \in Runs,
           NEW d \in RecordResult(c, role, r)
    PROVE  Weakens(c, d)
<1> DEFINE res == [c.results EXCEPT ![role] = r]
<1>1. Weakens(c, c) /\ Weakens(c, [c EXCEPT !.results = res])
  BY DEF Weakens, CountingOf, ControllerOf
<1>2. \A ok \in BOOLEAN : Weakens(c, FinishRun(c, res, ok))
  BY DEF Weakens, FinishRun, EndRun, CountingOf, ControllerOf
<1> QED
  BY <1>1, <1>2 DEF RecordResult

LEMMA ProtocolWeakens ==
    ASSUME NEW c \in CountingOf(Job), NEW r \in Runs
    PROVE  Weakens(c, OnRemoteProtocol(c, r))
<1>1. CASE ~c.attached
  BY <1>1 DEF Weakens, OnRemoteProtocol
<1>2. CASE c.attached
  <2> DEFINE Feed(j) == [j EXCEPT !.got = IF r = j.run /\ @ # "foreign"
                                          THEN "own" ELSE "foreign"]
             jobs == {IF j.run = c.run THEN Feed(j) ELSE j : j \in c.jobs}
  <2>1. \A j \in c.jobs : Feed(j).run = j.run
    BY DEF CountingOf, ControllerOf, Job
  <2>2. \A j \in jobs : \E k \in c.jobs : k.run = j.run
    BY <2>1
  <2>3. OnRemoteProtocol(c, r) = [c EXCEPT !.jobs = jobs]
    BY <1>2 DEF OnRemoteProtocol
  <2> QED
    BY <2>2, <2>3 DEF Weakens, CountingOf, ControllerOf
<1> QED
  BY <1>1, <1>2

LEMMA WeakensTransitive ==
    ASSUME NEW c, NEW d, NEW e, Weakens(c, d), Weakens(d, e)
    PROVE  Weakens(c, e)
BY DEF Weakens

LEMMA ReportErrorWeakens ==
    ASSUME TypeInv, NEW p \in Pages, NEW c \in CountingOf(Job), NEW r,
           ReportError(p, c, r)
    PROVE  Weakens(c, page'[p]) /\ page' = [page EXCEPT ![p] = page'[p]]
<1>1. Weakens(c, [c EXCEPT !.button = "error"])
  BY DEF Weakens, CountingOf, ControllerOf
<1>2. Weakens(c, WorkerError(c))
  BY <1>1, FailWeakens DEF WorkerError
<1> QED
  BY <1>2 DEF ReportError, TypeInv

\* The steps of page p, other than those that start something.
WeakStep(p) ==
    \/ p = "host" /\ ClickAbort
    \/ p = "guest" /\ (ReceivePropose \/ ReceiveAbort)
    \/ p = "host" /\ ReceiveDecline
    \/ ReceiveDone(p) \/ ReceiveError(p) \/ ReceiveBytes(p)
    \/ \E role \in Roles : WorkerBroken(p, role)
    \/ \E j \in page[p].jobs : JobSend(p, j) \/ JobDone(p, j) \/ JobError(p, j)
    \/ LinkDown(p)

LEMMA WeakStepWeakens ==
    ASSUME TypeInv, NEW p \in Pages, WeakStep(p)
    PROVE  Weakens(page[p], page'[p]) /\ page' = [page EXCEPT ![p] = page'[p]]
<1> USE DEF TypeInv
<1>0. page[p] \in CountingOf(Job) /\ Weakens(page[p], page[p])
  BY DEF Weakens
<1>1. CASE p = "host" /\ ClickAbort
  BY <1>0, <1>1, AbortWeakens DEF ClickAbort
<1>2. CASE p = "guest" /\ ReceivePropose
  BY <1>0, <1>2 DEF ReceivePropose
<1>3. CASE p = "guest" /\ ReceiveAbort
  BY <1>0, <1>3, AbortWeakens DEF ReceiveAbort
<1>4. CASE p = "host" /\ ReceiveDecline
  BY <1>0, <1>4, FailWeakens DEF ReceiveDecline
<1>5. CASE ReceiveDone(p)
  <2>1. RoleOf(Other(p)) \in Roles /\ Head(net[p]).run \in Runs
    BY <1>5, TakenType DEF ReceiveDone, RoleOf, Roles
  <2> QED
    BY <1>0, <1>5, <2>1, RecordWeakens DEF ReceiveDone
<1>6. CASE ReceiveError(p)
  BY <1>0, <1>6, FailWeakens DEF ReceiveError
<1>7. CASE ReceiveBytes(p)
  BY <1>0, <1>7, TakenType, ProtocolWeakens DEF ReceiveBytes
<1>8. ASSUME NEW role \in Roles, WorkerBroken(p, role)
      PROVE  Weakens(page[p], page'[p]) /\ page' = [page EXCEPT ![p] = page'[p]]
  <2> DEFINE c == [page[p] EXCEPT !.worker[role] = "broken"]
  <2>1. c \in CountingOf(Job) /\ ReportError(p, c, c.run)
    BY <1>8, WorkerBrokenType DEF WorkerBroken
  <2>2. Weakens(page[p], c)
    BY <1>0 DEF Weakens, CountingOf, ControllerOf
  <2> QED
    BY <2>1, <2>2, ReportErrorWeakens, WeakensTransitive
<1>9. ASSUME NEW j \in page[p].jobs,
             JobSend(p, j) \/ JobDone(p, j) \/ JobError(p, j)
      PROVE  Weakens(page[p], page'[p]) /\ page' = [page EXCEPT ![p] = page'[p]]
  <2>1. j \in Job /\ j.run \in Runs /\ RoleOf(p) \in Roles
    BY <1>0 DEF CountingOf, ControllerOf, Job, RoleOf, Roles
  <2>2. Without(p, j) \in CountingOf(Job) /\ Weakens(page[p], Without(p, j))
    BY <1>0 DEF Without, Weakens, CountingOf, ControllerOf, Loaded
  <2>3. CASE JobSend(p, j)
    <3> DEFINE d == [page[p] EXCEPT !.jobs = (@ \ {j}) \cup {[j EXCEPT !.sent = TRUE]}]
    <3>1. [j EXCEPT !.sent = TRUE].run = j.run
      BY <2>1 DEF Job
    <3>2. Weakens(page[p], d)
      BY <1>0, <3>1 DEF Weakens, CountingOf, ControllerOf
    <3> QED
      BY <2>3, <3>2 DEF JobSend
  <2>4. CASE JobDone(p, j)
    <3>1. PICK c \in RecordResult(Without(p, j), RoleOf(p), j.run) :
            page' = [page EXCEPT ![p] = c]
      BY <2>4 DEF JobDone
    <3> QED
      BY <2>1, <2>2, <3>1, RecordWeakens, WeakensTransitive
  <2>5. CASE JobError(p, j)
    BY <2>2, <2>5, ReportErrorWeakens, WeakensTransitive DEF JobError
  <2> QED
    BY <1>9, <2>3, <2>4, <2>5
<1>10. CASE LinkDown(p)
  <2>1. \A b : Weakens(page[p], [page[p] EXCEPT !.button = b])
    BY <1>0 DEF Weakens, CountingOf, ControllerOf
  <2> QED
    BY <1>0, <1>10, <2>1, AbortWeakens DEF LinkDown
<1> QED
  BY <1>1, <1>2, <1>3, <1>4, <1>5, <1>6, <1>7, <1>8, <1>9, <1>10 DEF WeakStep

\* Runs are fresh when the host proposes them: no worker of the host knows the
\* run of a pending hash, and the active run is not one of them.
HostIds ==
    LET c == page["host"]
    IN  /\ c.run <= asked /\ c.run \notin hashing
        /\ \A j \in c.jobs : j.run <= asked /\ j.run \notin hashing
        /\ \A r \in hashing : r <= asked

AttachedRuns == \A p \in Pages : page[p].attached => page[p].run # NoRun

HostInv == HostIds /\ HeldProver
SafeInv == TypeInv /\ HostInv /\ AttachedRuns /\ NoUnlinkedRun

LEMMA SafeInit == Init => SafeInv
<1> SUFFICES ASSUME Init PROVE SafeInv
  OBVIOUS
<1>1. TypeInv
  BY TypeInit
<1>2. \A p \in Pages : page[p] = Fresh
  BY DEF Init
<1>3. \A p \in Pages : /\ page[p].run = NoRun /\ ~page[p].attached
                       /\ page[p].pendingProverReq = NoRun /\ page[p].jobs = {}
  BY <1>2 DEF Fresh
<1>4. HostInv
  BY <1>3 DEF Init, HostInv, HostIds, HeldProver, Pages, NoRun
<1>5. AttachedRuns /\ NoUnlinkedRun
  BY <1>3 DEF AttachedRuns, NoUnlinkedRun, Init, Pages
<1> QED
  BY <1>1, <1>4, <1>5 DEF SafeInv

\* Weakening the host's controller keeps what is known of it.
LEMMA WeakHost ==
    ASSUME SafeInv, Weakens(page["host"], page'["host"]), UNCHANGED hostVars
    PROVE  HostInv'
<1> DEFINE c == page["host"]
           d == page'["host"]
<1>1. HostIds'
  <2>1. d.run = c.run \/ d.run = NoRun
    BY DEF Weakens
  <2>2. NoRun <= asked /\ NoRun \notin hashing
    BY MaxRunsAssumption DEF SafeInv, TypeInv, NoRun, Runs
  <2>3. \A j \in d.jobs : j.run <= asked /\ j.run \notin hashing
    BY DEF Weakens, SafeInv, HostInv, HostIds
  <2> QED
    BY <2>1, <2>2, <2>3 DEF SafeInv, HostInv, HostIds, hostVars
<1>2. HeldProver'
  BY DEF Weakens, SafeInv, HostInv, HeldProver
<1> QED
  BY <1>1, <1>2 DEF HostInv

LEMMA WeakAttached ==
    ASSUME SafeInv, NEW p \in Pages, page' = [page EXCEPT ![p] = page'[p]],
           Weakens(page[p], page'[p])
    PROVE  AttachedRuns'
BY DEF SafeInv, TypeInv, Weakens, AttachedRuns

\* The rest of the state, in a step that weakens page p.
LEMMA WeakLinks ==
    ASSUME SafeInv, NEW p \in Pages, WeakStep(p)
    PROVE  NoUnlinkedRun'
<1> USE DEF hostVars, guestVars, history
<1>1. Weakens(page[p], page'[p]) /\ page' = [page EXCEPT ![p] = page'[p]]
  BY WeakStepWeakens DEF SafeInv
<1>2. CASE LinkDown(p)
  <2>1. ~page'[p].attached /\ page'[p].run = NoRun
    BY <1>2 DEF LinkDown, SafeInv, TypeInv, AttachedRuns, Abort, Fresh, CountingOf, ControllerOf
  <2> QED
    BY <1>1, <1>2, <2>1 DEF LinkDown, SafeInv, TypeInv, NoUnlinkedRun, Pages
<1>3. CASE p = "guest" /\ (ReceivePropose \/ ReceiveAbort)
  BY <1>1, <1>3 DEF ReceivePropose, ReceiveAbort, Arrives, SafeInv, TypeInv, NoUnlinkedRun,
                    Pages, Weakens
<1>4. CASE UNCHANGED <<linked, pendingProposal, acceptedPending>>
  BY <1>1, <1>4 DEF SafeInv, TypeInv, NoUnlinkedRun, Pages, Weakens
<1>5. \/ LinkDown(p)
      \/ p = "guest" /\ (ReceivePropose \/ ReceiveAbort)
      \/ UNCHANGED <<linked, pendingProposal, acceptedPending>>
  <2>1. ASSUME NEW role \in Roles, WorkerBroken(p, role)
        PROVE  UNCHANGED <<linked, pendingProposal, acceptedPending>>
    BY <2>1 DEF WorkerBroken
  <2>2. ASSUME NEW j \in page[p].jobs, JobSend(p, j) \/ JobDone(p, j) \/ JobError(p, j)
        PROVE  UNCHANGED <<linked, pendingProposal, acceptedPending>>
    BY <2>2 DEF JobSend, JobDone, JobError
  <2>3. ClickAbort \/ ReceiveDecline \/ ReceiveDone(p) \/ ReceiveError(p) \/ ReceiveBytes(p)
          => UNCHANGED <<linked, pendingProposal, acceptedPending>>
    BY DEF ClickAbort, ReceiveDecline, ReceiveDone, ReceiveError, ReceiveBytes
  <2> QED
    BY <2>1, <2>2, <2>3 DEF WeakStep
<1> QED
  BY <1>2, <1>3, <1>4, <1>5

LEMMA WeakSafe ==
    ASSUME SafeInv, NEW p \in Pages, WeakStep(p)
    PROVE  HostInv' /\ AttachedRuns' /\ NoUnlinkedRun'
<1>1. Weakens(page[p], page'[p]) /\ page' = [page EXCEPT ![p] = page'[p]]
  BY WeakStepWeakens DEF SafeInv
<1>2. UNCHANGED hostVars
  BY DEF WeakStep, ClickAbort, ReceivePropose, ReceiveAbort, ReceiveDecline, ReceiveDone,
         ReceiveError, ReceiveBytes, WorkerBroken, JobSend, JobDone, JobError, LinkDown
<1>3. Weakens(page["host"], page'["host"])
  BY <1>1 DEF SafeInv, TypeInv, Weakens, Pages
<1> QED
  BY <1>1, <1>2, <1>3, WeakHost, WeakAttached, WeakLinks

\* The start of a verifier run touches the guest alone, and its link is up.
LEMMA StartSafe ==
    ASSUME SafeInv, NEW r \in Runs, NEW c \in CountingOf(Job), StartVerifierRun(r, c),
           linked["guest"], UNCHANGED <<linked, hostVars>>
    PROVE  HostInv' /\ AttachedRuns' /\ NoUnlinkedRun'
<1>1. page'["host"] = page["host"]
  BY DEF StartVerifierRun, SafeInv, TypeInv, Pages
<1>2. page'["guest"].run = r
  BY DEF StartVerifierRun, SafeInv, TypeInv, Pages, AttachRemoteRun, NewRun, CountingOf, ControllerOf
<1>3. HostInv'
  BY <1>1 DEF SafeInv, HostInv, HostIds, HeldProver, hostVars
<1>4. AttachedRuns' /\ NoUnlinkedRun'
  BY <1>1, <1>2, RunFacts DEF SafeInv, AttachedRuns, NoUnlinkedRun, Pages
<1> QED
  BY <1>3, <1>4

\* A step that leaves the controllers and the links alone.
LEMMA QuietSafe ==
    ASSUME SafeInv, UNCHANGED <<page, linked, hostVars>>,
           linked["guest"] \/ UNCHANGED <<pendingProposal, acceptedPending>>
    PROVE  HostInv' /\ AttachedRuns' /\ NoUnlinkedRun'
BY DEF SafeInv, HostInv, HostIds, HeldProver, AttachedRuns, NoUnlinkedRun, hostVars

\* The starting steps of the host.
LEMMA ClickSafe ==
    ASSUME SafeInv, ClickProve
    PROVE  HostInv' /\ AttachedRuns' /\ NoUnlinkedRun'
<1> DEFINE r == asked + 1
           c == page["host"]
           d == page'["host"]
<1>1. /\ asked' = r /\ r \in Runs /\ r \notin hashing /\ asked \in Nat
      /\ c.run = NoRun /\ \A x \in hashing : x <= asked
      /\ page' = [page EXCEPT !["host"] = d]
      /\ UNCHANGED <<linked, guestVars, history>>
  BY MaxRunsAssumption DEF ClickProve, SafeInv, TypeInv, HostInv, HostIds, Runs
<1>4. \A j \in c.jobs : j.run <= asked /\ j.run \notin hashing /\ j.run \in Nat
  BY DEF SafeInv, TypeInv, HostInv, HostIds, Pages, CountingOf, ControllerOf, Job, Runs
<1>2. CASE r \in Sourced
  <2>1. d = [c EXCEPT !.button = "running"] /\ hashing' = hashing \cup {r}
    BY <1>2 DEF ClickProve, SafeInv, TypeInv, Pages
  <2>2. /\ d.run = c.run /\ d.attached = c.attached /\ d.jobs = c.jobs
        /\ d.pendingProverReq = c.pendingProverReq
    BY <2>1 DEF SafeInv, TypeInv, Pages, CountingOf, ControllerOf
  <2>3. HostIds'
    BY <1>1, <1>4, <2>1, <2>2 DEF HostIds, NoRun, Runs, SafeInv, TypeInv
  <2>4. HeldProver'
    BY <2>2 DEF SafeInv, HostInv, HeldProver
  <2>5. AttachedRuns' /\ NoUnlinkedRun'
    BY <1>1, <2>2 DEF SafeInv, TypeInv, AttachedRuns, NoUnlinkedRun, Pages, guestVars
  <2> QED
    BY <2>3, <2>4, <2>5 DEF HostInv
<1>3. CASE r \notin Sourced
  <2>1. d = [Propose(c, r) EXCEPT !.button = "running"] /\ hashing' = hashing
    BY <1>3 DEF ClickProve, SafeInv, TypeInv, Pages
  <2>2. /\ d.run = r /\ ~d.attached /\ d.jobs = c.jobs /\ d.pendingProverReq = r
    BY <2>1 DEF Propose, NewRun, SafeInv, TypeInv, Pages, CountingOf, ControllerOf
  <2>4. HostIds'
    BY <1>1, <1>4, <2>1, <2>2 DEF HostIds, Runs, SafeInv, TypeInv
  <2>5. HeldProver'
    BY <1>1, <1>4, <2>2 DEF HeldProver
  <2>6. AttachedRuns' /\ NoUnlinkedRun'
    BY <1>1, <2>2 DEF SafeInv, TypeInv, AttachedRuns, NoUnlinkedRun, Pages, guestVars
  <2> QED
    BY <2>4, <2>5, <2>6 DEF HostInv
<1> QED
  BY <1>2, <1>3

LEMMA HashSafe ==
    ASSUME SafeInv, NEW r \in hashing, HashDone(r)
    PROVE  HostInv' /\ AttachedRuns' /\ NoUnlinkedRun'
<1> DEFINE c == page["host"]
           d == page'["host"]
<1>1. /\ r \in Runs /\ r <= asked /\ hashing' = hashing \ {r}
      /\ page' = [page EXCEPT !["host"] = d]
      /\ UNCHANGED <<asked, linked, guestVars, history>>
  BY DEF HashDone, SafeInv, TypeInv, HostInv, HostIds
<1>2. /\ d.run = r /\ ~d.attached /\ d.jobs = c.jobs /\ d.pendingProverReq = r
  BY DEF HashDone, Propose, NewRun, SafeInv, TypeInv, Pages, CountingOf, ControllerOf
<1>3. \A j \in c.jobs : j.run <= asked /\ j.run \notin hashing
  BY DEF SafeInv, HostInv, HostIds
<1>4. HostIds'
  BY <1>1, <1>2, <1>3 DEF HostIds, SafeInv, HostInv
<1>5. HeldProver'
  BY <1>2, <1>3 DEF HeldProver
<1>6. AttachedRuns' /\ NoUnlinkedRun'
  BY <1>1, <1>2 DEF SafeInv, TypeInv, AttachedRuns, NoUnlinkedRun, Pages, guestVars
<1> QED
  BY <1>4, <1>5, <1>6 DEF HostInv

LEMMA ReadySafe ==
    ASSUME SafeInv, ReceiveReady
    PROVE  HostInv' /\ AttachedRuns' /\ NoUnlinkedRun'
<1> DEFINE c == page["host"]
           d == page'["host"]
<1>1. /\ page' = [page EXCEPT !["host"] = d] /\ d = AttachProver(c)
      /\ linked["host"] /\ UNCHANGED <<linked, hostVars, guestVars, history>>
  BY DEF ReceiveReady, Arrives, SafeInv, TypeInv, Pages
<1>2. CASE d = c
  <2>1. page' = page
    BY <1>1, <1>2 DEF SafeInv, TypeInv
  <2> QED
    BY <1>1, <2>1, QuietSafe DEF guestVars
<1>3. CASE d # c
  <2>1. c.run # NoRun /\ c.pendingProverReq = c.run
    BY <1>1, <1>3 DEF AttachProver, SafeInv, HostInv, HeldProver
  <2>2. /\ d.run = c.run /\ d.jobs = c.jobs \cup {NewJob(c.run)}
        /\ d.pendingProverReq = NoRun
    BY <1>1, <2>1 DEF AttachProver, AttachRemoteRun, SafeInv, TypeInv, Pages,
                      CountingOf, ControllerOf
  <2>3. HostIds' /\ HeldProver'
    BY <1>1, <2>2 DEF SafeInv, HostInv, HostIds, HeldProver, hostVars, NewJob
  <2>4. AttachedRuns' /\ NoUnlinkedRun'
    BY <1>1, <2>1, <2>2 DEF SafeInv, TypeInv, AttachedRuns, NoUnlinkedRun, Pages, guestVars
  <2> QED
    BY <2>3, <2>4 DEF HostInv
<1> QED
  BY <1>2, <1>3

\* proceedAccept either starts the verifier or leaves the page with c.
LEMMA ProceedSafe ==
    ASSUME SafeInv, NEW r \in Runs, NEW p \in Pages, p = "guest",
           NEW c \in CountingOf(Job), Weakens(page[p], c), ProceedAccept(r, c),
           UNCHANGED <<linked, hostVars>>,
           linked["guest"] \/ UNCHANGED <<pendingProposal, acceptedPending>>
    PROVE  HostInv' /\ AttachedRuns' /\ NoUnlinkedRun'
<1>1. CASE linked["guest"] /\ StartVerifierRun(r, c)
  BY <1>1, StartSafe
<1>2. CASE page' = [page EXCEPT !["guest"] = c]
  <2>1. page'["host"] = page["host"] /\ page'[p] = c
    BY <1>2 DEF SafeInv, TypeInv, Pages
  <2>2. HostInv'
    BY <2>1 DEF SafeInv, HostInv, HostIds, HeldProver, hostVars
  <2>3. AttachedRuns'
    BY <1>2, <2>1, WeakAttached
  <2>4. NoUnlinkedRun'
    BY <1>2, <2>1 DEF SafeInv, NoUnlinkedRun, Weakens, Pages
  <2> QED
    BY <2>2, <2>3, <2>4
<1> QED
  BY <1>1, <1>2 DEF ProceedAccept

LEMMA WorkerReadySafe ==
    ASSUME SafeInv, NEW p \in Pages, NEW role \in Roles, WorkerReady(p, role)
    PROVE  HostInv' /\ AttachedRuns' /\ NoUnlinkedRun'
<1> DEFINE c == WorkerUp(page[p], role, IF linked[p] THEN "idle" ELSE "waiting")
<1>1. page[p] \in CountingOf(Job) /\ c \in CountingOf(Job)
  BY WorkerUpType DEF SafeInv, TypeInv, WorkerReady, Buttons
<1>2. Weakens(page[p], c)
  BY <1>1 DEF WorkerUp, Weakens, CountingOf, ControllerOf
<1>3. UNCHANGED <<linked, hostVars, pendingProposal>>
  BY DEF WorkerReady
<1> HIDE DEF c
<1>4. CASE p = "guest" /\ acceptedPending # NoRun /\ ProceedAccept(acceptedPending, c)
  <2>1. acceptedPending \in Runs /\ linked["guest"]
    BY <1>4 DEF SafeInv, TypeInv, NoUnlinkedRun, MaybeRun
  <2> QED
    BY <1>1, <1>2, <1>3, <1>4, <2>1, ProceedSafe
<1>5. CASE page' = [page EXCEPT ![p] = c] /\ UNCHANGED acceptedPending
  <2>1. Weakens(page[p], page'[p]) /\ page' = [page EXCEPT ![p] = page'[p]]
    BY <1>2, <1>5 DEF SafeInv, TypeInv
  <2>2. Weakens(page["host"], page'["host"])
    BY <1>5, <2>1 DEF SafeInv, TypeInv, Weakens, Pages
  <2>3. NoUnlinkedRun'
    BY <1>3, <1>5, <2>1 DEF SafeInv, TypeInv, NoUnlinkedRun, Weakens, Pages
  <2> QED
    BY <1>3, <2>1, <2>2, <2>3, WeakHost, WeakAttached
<1> QED
  BY <1>4, <1>5 DEF WorkerReady, c

LEMMA SafeNext == SafeInv /\ [Next]_vars => SafeInv'
<1> SUFFICES ASSUME SafeInv, [Next]_vars PROVE SafeInv'
  OBVIOUS
<1> DEFINE Goal == HostInv' /\ AttachedRuns' /\ NoUnlinkedRun'
<1>0. TypeInv'
  BY TypeNext DEF SafeInv
<1> SUFFICES Goal
  BY <1>0 DEF SafeInv
<1>1. CASE ClickProve
  BY <1>1, ClickSafe
<1>2. ASSUME NEW r \in hashing, HashDone(r) PROVE Goal
  BY <1>2, HashSafe
<1>3. CASE AcceptRun
  <2>1. /\ pendingProposal \in Runs /\ linked["guest"] /\ page["guest"] \in CountingOf(Job)
        /\ Weakens(page["guest"], page["guest"]) /\ "guest" \in Pages
        /\ UNCHANGED <<linked, hostVars>>
    BY <1>3 DEF AcceptRun, SafeInv, TypeInv, MaybeRun, Pages, Weakens
  <2>2. CASE ProceedAccept(pendingProposal, page["guest"])
    BY <2>1, <2>2, ProceedSafe
  <2>3. CASE UNCHANGED page
    BY <2>1, <2>3, QuietSafe
  <2> QED
    BY <1>3, <2>2, <2>3 DEF AcceptRun
<1>4. CASE DeclineRun
  BY <1>4, QuietSafe DEF DeclineRun
<1>5. ASSUME NEW r \in compiling, CompileOk(r) PROVE Goal
  <2>1. r \in Runs /\ page["guest"] \in CountingOf(Job)
    BY DEF SafeInv, TypeInv, Pages
  <2>2. CASE linked["guest"] /\ StartVerifierRun(r, page["guest"])
    BY <1>5, <2>1, <2>2, StartSafe DEF CompileOk
  <2>3. CASE UNCHANGED page
    BY <1>5, <2>3, QuietSafe DEF CompileOk
  <2> QED
    BY <1>5, <2>2, <2>3 DEF CompileOk
<1>6. ASSUME NEW r \in compiling, CompileRefused(r) PROVE Goal
  BY <1>6, QuietSafe DEF CompileRefused
<1>7. CASE ReceiveReady
  BY <1>7, ReadySafe
<1>8. ASSUME NEW p \in Pages, NEW role \in Roles, WorkerReady(p, role) PROVE Goal
  BY <1>8, WorkerReadySafe
<1>9. ASSUME NEW p \in Pages, WeakStep(p) PROVE Goal
  BY <1>9, WeakSafe
<1>10. CASE UNCHANGED vars
  BY <1>10, QuietSafe DEF vars, hostVars, guestVars
<1>11. ASSUME NEW p \in Pages, Receive(p) PROVE WeakStep(p) \/ ReceiveReady
  BY <1>11 DEF Receive, WeakStep
<1>12. ClickAbort => WeakStep("host")
  BY DEF WeakStep
<1> QED
  BY <1>1, <1>2, <1>3, <1>4, <1>5, <1>6, <1>7, <1>8, <1>9, <1>10, <1>11, <1>12
     DEF Next, Compiled, WorkerStep, WeakStep, Pages

\* In every environment a held prover request belongs to the active,
\* unattached run, so `ready` attaches at most one prover, to that run.
THEOREM HeldProverHolds == Spec => []HeldProver
<1>1. SafeInv => HeldProver
  BY DEF SafeInv, HostInv
<1> QED
  BY <1>1, SafeInit, SafeNext, PTL DEF Spec

\* In every environment no party is left attached to a link that is gone.
THEOREM NoUnlinkedRunHolds == Spec => []NoUnlinkedRun
<1>1. SafeInv => NoUnlinkedRun
  BY DEF SafeInv
<1> QED
  BY <1>1, SafeInit, SafeNext, PTL DEF Spec
-----------------------------------------------------------------------------
(* Where a proposal is, on its way from the host's click to its verifier:  *)
(* in one place at a time, and never back in one that it has left.         *)

ProposedIn(n) == {r \in Runs : \E i \in DOMAIN n : n[i] = Msg("propose", r)}
ProposedOnce(n) ==
    \A i, k \in DOMAIN n : n[i].kind = "propose" /\ n[k] = n[i] => i = k

\* An abort overtakes nothing: the proposal it withdraws went out before it.
AbortedAfter(n) ==
    \A i, k \in DOMAIN n : n[i].kind = "abort" /\ i < k => n[k] # Msg("propose", n[i].run)

Unsent   == {r \in Runs : r > asked} \cup hashing
OnWire   == ProposedIn(net["guest"])
OnScreen == {pendingProposal} \ {NoRun}
Kept     == {acceptedPending} \ {NoRun}

OnePlace ==
    /\ Unsent \cap (OnWire \cup OnScreen \cup Kept \cup compiling \cup started) = {}
    /\ OnWire \cap (OnScreen \cup Kept \cup compiling \cup started) = {}
    /\ OnScreen \cap (Kept \cup compiling \cup started) = {}
    /\ Kept \cap (compiling \cup started) = {}
    /\ compiling \cap started = {}

\* What has been withdrawn is in none of the places that the guest answers from.
Withdrawn ==
    /\ withdrawn \cap (Unsent \cup OnWire \cup OnScreen \cup Kept) = {}
    /\ AbortedAfter(net["guest"])
    /\ \A i \in DOMAIN net["guest"] :
         net["guest"][i].kind = "abort" => net["guest"][i].run \notin Unsent

PlacesInv ==
    /\ ProposedOnce(net["guest"])
    /\ OnePlace
    /\ Withdrawn
    /\ compiling \subseteq Sourced

\* A message more at the end of a channel.
LEMMA AppendKinds ==
    ASSUME NEW n \in Seq(Message), NEW m \in Message
    PROVE  /\ m.kind = "propose" => ProposedIn(Append(n, m)) = ProposedIn(n) \cup {m.run}
           /\ m.kind # "propose" => ProposedIn(Append(n, m)) = ProposedIn(n)
           /\ ProposedOnce(n) /\ (m.kind = "propose" => m.run \notin ProposedIn(n))
                => ProposedOnce(Append(n, m))
           /\ /\ AbortedAfter(n)
              /\ m.kind = "propose" =>
                   \A i \in DOMAIN n : n[i].kind = "abort" => n[i].run # m.run
              => AbortedAfter(Append(n, m))
<1> DEFINE a == Append(n, m)
<1>1. /\ Len(a) = Len(n) + 1 /\ Len(n) \in Nat /\ a[Len(a)] = m
      /\ \A i \in 1..Len(n) : a[i] = n[i] /\ n[i] \in Message
      /\ DOMAIN a = 1..Len(a) /\ DOMAIN n = 1..Len(n)
  OBVIOUS
<1>2. \A x \in Message : /\ x.run \in Runs /\ x = Msg(x.kind, x.run)
                         /\ \A k, r : x = Msg(k, r) <=> x.kind = k /\ x.run = r
  BY DEF Message, Msg
<1> HIDE DEF a
<1>3. \A r \in Runs : r \in ProposedIn(a) <=> r \in ProposedIn(n) \/ (m.kind = "propose" /\ m.run = r)
  <2> TAKE r \in Runs
  <2>1. r \in ProposedIn(n) => r \in ProposedIn(a)
    BY <1>1 DEF ProposedIn
  <2>2. m.kind = "propose" /\ m.run = r => r \in ProposedIn(a)
    BY <1>1, <1>2 DEF ProposedIn
  <2>3. r \in ProposedIn(a) => r \in ProposedIn(n) \/ (m.kind = "propose" /\ m.run = r)
    BY <1>1, <1>2 DEF ProposedIn
  <2> QED
    BY <2>1, <2>2, <2>3
<1>4. ProposedIn(a) \subseteq Runs /\ ProposedIn(n) \subseteq Runs
  BY DEF ProposedIn
<1>5. ProposedOnce(n) /\ (m.kind = "propose" => m.run \notin ProposedIn(n)) => ProposedOnce(a)
  <2> SUFFICES ASSUME ProposedOnce(n), m.kind = "propose" => m.run \notin ProposedIn(n),
                      NEW i \in DOMAIN a, NEW k \in DOMAIN a, a[i].kind = "propose", a[k] = a[i]
               PROVE  i = k
    BY DEF ProposedOnce
  <2>1. CASE i \in DOMAIN n /\ k \in DOMAIN n
    BY <1>1, <2>1 DEF ProposedOnce
  <2>2. ASSUME NEW x \in DOMAIN n, n[x] = m, m.kind = "propose" PROVE FALSE
    BY <1>1, <1>2, <2>2 DEF ProposedIn
  <2> QED
    BY <1>1, <2>1, <2>2
<1>6. /\ AbortedAfter(n)
      /\ m.kind = "propose" => \A i \in DOMAIN n : n[i].kind = "abort" => n[i].run # m.run
      => AbortedAfter(a)
  BY <1>1, <1>2 DEF AbortedAfter
<1> QED
  BY <1>2, <1>3, <1>4, <1>5, <1>6 DEF a

\* The first message of a channel delivered.
LEMMA TailKinds ==
    ASSUME NEW n \in Seq(Message), n # << >>
    PROVE  /\ ProposedIn(Tail(n)) \subseteq ProposedIn(n)
           /\ ProposedOnce(n) =>
                /\ ProposedOnce(Tail(n))
                /\ Head(n).kind = "propose" => Head(n).run \in ProposedIn(n) \ ProposedIn(Tail(n))
           /\ AbortedAfter(n) =>
                /\ AbortedAfter(Tail(n))
                /\ Head(n).kind = "abort" => Head(n).run \notin ProposedIn(Tail(n))
<1> DEFINE t == Tail(n)
<1>1. /\ Len(n) \in Nat \ {0} /\ Len(t) = Len(n) - 1 /\ Head(n) = n[1] /\ n[1] \in Message
      /\ \A i \in 1..Len(t) : t[i] = n[i + 1] /\ i + 1 \in 1..Len(n)
      /\ DOMAIN t = 1..Len(t) /\ DOMAIN n = 1..Len(n)
  OBVIOUS
<1>2. n[1].run \in Runs /\ n[1] = Msg(n[1].kind, n[1].run)
      /\ \A k, r : Msg(k, r).kind = k
  BY <1>1 DEF Message, Msg
<1> HIDE DEF t
<1>3. ProposedIn(t) \subseteq ProposedIn(n)
  BY <1>1 DEF ProposedIn
<1>4. ASSUME ProposedOnce(n)
      PROVE  /\ ProposedOnce(t)
             /\ Head(n).kind = "propose" => Head(n).run \in ProposedIn(n) \ ProposedIn(t)
  <2>1. ProposedOnce(t)
    <3> SUFFICES ASSUME NEW i \in DOMAIN t, NEW k \in DOMAIN t, t[i].kind = "propose", t[k] = t[i]
                 PROVE  i = k
      BY DEF ProposedOnce
    <3>1. i + 1 \in DOMAIN n /\ k + 1 \in DOMAIN n /\ t[i] = n[i + 1] /\ t[k] = n[k + 1]
      BY <1>1
    <3>2. i + 1 = k + 1
      BY <1>4, <3>1 DEF ProposedOnce
    <3> QED
      BY <1>1, <3>2
  <2>2. ASSUME Head(n).kind = "propose" PROVE Head(n).run \in ProposedIn(n)
    BY <1>1, <1>2, <2>2 DEF ProposedIn
  <2>3. ASSUME Head(n).kind = "propose", Head(n).run \in ProposedIn(t) PROVE FALSE
    <3>1. PICK i \in DOMAIN t : t[i] = n[1]
      BY <1>1, <1>2, <2>3 DEF ProposedIn
    <3>2. i + 1 \in DOMAIN n /\ n[i + 1] = n[1] /\ 1 \in DOMAIN n /\ n[1].kind = "propose"
      BY <1>1, <2>3, <3>1
    <3>3. i + 1 = 1
      BY <1>4, <3>2 DEF ProposedOnce
    <3> QED
      BY <1>1, <3>3
  <2> QED
    BY <2>1, <2>2, <2>3
<1>5. ASSUME AbortedAfter(n)
      PROVE  AbortedAfter(t) /\ (Head(n).kind = "abort" => Head(n).run \notin ProposedIn(t))
  <2>1. \A i, k \in DOMAIN t : i < k => i + 1 < k + 1
    BY <1>1
  <2>2. AbortedAfter(t)
    BY <1>1, <1>5, <2>1 DEF AbortedAfter
  <2>3. ASSUME NEW i \in DOMAIN t, Head(n).kind = "abort"
        PROVE  t[i] # Msg("propose", Head(n).run)
    <3>1. /\ 1 \in DOMAIN n /\ i + 1 \in DOMAIN n /\ 1 < i + 1
          /\ t[i] = n[i + 1] /\ Head(n) = n[1]
      BY <1>1
    <3> QED
      BY <1>5, <2>3, <3>1 DEF AbortedAfter
  <2> QED
    BY <2>2, <2>3 DEF ProposedIn
<1> QED
  BY <1>3, <1>4, <1>5 DEF t

\* The messages that say which run the host is about.
NewsKinds == {"propose", "abort"}

\* What a step does to the guest's channel that neither sends nor delivers one.
Forwards(n, m) ==
    \/ m = n \/ m = << >>
    \/ n # << >> /\ Head(n).kind \notin NewsKinds /\ m = Tail(n)
    \/ \E x \in Message : x.kind \notin NewsKinds /\ m = Append(n, x)

\* What one does that sends none.
Passes(n, m) == Forwards(n, m) \/ (n # << >> /\ m = Tail(n))

\* A step that brings no proposal further.
Passing ==
    /\ UNCHANGED <<asked, hashing, started, withdrawn>>
    /\ pendingProposal' \in {pendingProposal, NoRun}
    /\ acceptedPending' \in {acceptedPending, NoRun}
    /\ compiling' \subseteq compiling
    /\ Forwards(net["guest"], net'["guest"])

LEMMA PassesKeeps ==
    ASSUME NEW n \in Seq(Message), NEW m, Passes(n, m)
    PROVE  /\ ProposedIn(m) \subseteq ProposedIn(n)
           /\ ProposedOnce(n) => ProposedOnce(m)
           /\ AbortedAfter(n) => AbortedAfter(m)
           /\ \A i \in DOMAIN m : m[i].kind = "abort" =>
                \E k \in DOMAIN n : n[k] = m[i]
<1>1. CASE m = n
  BY <1>1
<1>2. CASE m = << >>
  BY <1>2 DEF ProposedIn, ProposedOnce, AbortedAfter
<1>3. CASE n # << >> /\ m = Tail(n)
  <2>1. \A i \in DOMAIN m : i + 1 \in DOMAIN n /\ n[i + 1] = m[i]
    BY <1>3
  <2> QED
    BY <1>3, <2>1, TailKinds
<1>4. ASSUME NEW x \in Message, x.kind \notin NewsKinds, m = Append(n, x)
      PROVE  /\ ProposedIn(m) = ProposedIn(n)
             /\ ProposedOnce(n) => ProposedOnce(m)
             /\ AbortedAfter(n) => AbortedAfter(m)
             /\ \A i \in DOMAIN m : m[i].kind = "abort" =>
                  \E k \in DOMAIN n : n[k] = m[i]
  BY <1>4, AppendKinds DEF NewsKinds
<1> QED
  BY <1>1, <1>2, <1>3, <1>4 DEF Passes, Forwards

LEMMA PassingPlaces ==
    ASSUME TypeInv, PlacesInv, Passing
    PROVE  PlacesInv'
<1>1. net["guest"] \in Seq(Message) /\ Passes(net["guest"], net'["guest"])
  BY DEF TypeInv, Pages, Passing, Passes
<1>2. /\ Unsent' = Unsent /\ OnWire' \subseteq OnWire /\ OnScreen' \subseteq OnScreen
      /\ Kept' \subseteq Kept /\ compiling' \subseteq compiling /\ started' = started
      /\ withdrawn' = withdrawn
  BY <1>1, PassesKeeps DEF Passing, Unsent, OnWire, OnScreen, Kept
<1>3. OnePlace'
  BY <1>2 DEF PlacesInv, OnePlace
<1>4. ProposedOnce(net'["guest"]) /\ AbortedAfter(net'["guest"])
  BY <1>1, PassesKeeps DEF Passing, PlacesInv, Withdrawn
<1>5. \A i \in DOMAIN net'["guest"] : net'["guest"][i].kind = "abort"
        => net'["guest"][i].run \notin Unsent'
  BY <1>1, <1>2, PassesKeeps DEF Passing, PlacesInv, Withdrawn
<1> QED
  BY <1>2, <1>3, <1>4, <1>5 DEF PlacesInv, Withdrawn

LEMMA SendForwards ==
    ASSUME TypeInv, NEW p \in Pages, NEW m \in Message, p = "guest" \/ m.kind \notin NewsKinds
    PROVE  Forwards(net["guest"], Send(net, p, m)["guest"])
BY DEF Send, Forwards, Other, Pages, TypeInv

LEMMA TakenForwards ==
    ASSUME TypeInv, NEW p \in Pages, NEW kind, Arrives(p, kind),
           p = "host" \/ kind \notin NewsKinds
    PROVE  Forwards(net["guest"], Taken(p)["guest"])
BY DEF Arrives, Taken, Forwards, Pages, TypeInv

\* The steps that bring no proposal further.
LEMMA PassingSteps ==
    ASSUME TypeInv
    PROVE  /\ DeclineRun => Passing
           /\ \A r \in compiling : CompileRefused(r) => Passing
           /\ ReceiveReady \/ ReceiveDecline => Passing
           /\ \A p \in Pages : ReceiveDone(p) \/ ReceiveError(p) \/ ReceiveBytes(p) => Passing
           /\ \A p \in Pages, role \in Roles : WorkerBroken(p, role) => Passing
           /\ \A p \in Pages : \A j \in page[p].jobs :
                JobSend(p, j) \/ JobDone(p, j) \/ JobError(p, j) => Passing
           /\ \A p \in Pages : LinkDown(p) => Passing
           /\ UNCHANGED vars => Passing
<1> USE DEF hostVars, guestVars, history
<1>0. Forwards(net["guest"], net["guest"]) /\ "guest" \in Pages /\ "host" \in Pages
  BY DEF Forwards, Pages
<1>1. DeclineRun => Passing
  <2> SUFFICES ASSUME DeclineRun PROVE Passing
    OBVIOUS
  <2>1. Msg("decline", pendingProposal) \in Message
    BY MsgType DEF DeclineRun, TypeInv, MaybeRun, Kinds
  <2> QED
    BY <1>0, <2>1, SendForwards DEF DeclineRun, Passing
<1>2. ASSUME NEW r \in compiling, CompileRefused(r) PROVE Passing
  <2>1. Msg("error", r) \in Message
    BY MsgType DEF TypeInv, Kinds
  <2> QED
    BY <1>0, <1>2, <2>1, SendForwards DEF CompileRefused, Passing
<1>3. ReceiveReady \/ ReceiveDecline => Passing
  BY <1>0, TakenForwards DEF ReceiveReady, ReceiveDecline, Passing
<1>4. ASSUME NEW p \in Pages, ReceiveDone(p) \/ ReceiveError(p) \/ ReceiveBytes(p) PROVE Passing
  BY <1>4, TakenForwards DEF ReceiveDone, ReceiveError, ReceiveBytes, Passing, NewsKinds
<1>5. ASSUME NEW p \in Pages, NEW c \in CountingOf(Job), NEW r, c.run # NoRun => r \in Runs,
             ReportError(p, c, r)
      PROVE  Forwards(net["guest"], net'["guest"])
  <2>1. CASE c.run = NoRun
    BY <1>0, <1>5, <2>1 DEF ReportError
  <2>2. CASE c.run # NoRun
    <3>1. Msg("error", r) \in Message /\ Msg("error", r).kind = "error"
      BY <1>5, <2>2, MsgType DEF Kinds, Msg
    <3> QED
      BY <1>5, <2>2, <3>1, SendForwards DEF ReportError, NewsKinds
  <2> QED
    BY <2>1, <2>2
<1>6. ASSUME NEW p \in Pages, NEW role \in Roles, WorkerBroken(p, role) PROVE Passing
  <2> DEFINE c == [page[p] EXCEPT !.worker[role] = "broken"]
  <2>1. c \in CountingOf(Job) /\ ReportError(p, c, c.run)
    BY <1>6, WorkerBrokenType DEF WorkerBroken, TypeInv
  <2>2. c.run # NoRun => c.run \in Runs
    BY <2>1 DEF CountingOf, ControllerOf, MaybeRun
  <2>3. Forwards(net["guest"], net'["guest"])
    BY <1>5, <2>1, <2>2
  <2> QED
    BY <1>6, <2>3 DEF WorkerBroken, Passing
<1>7. ASSUME NEW p \in Pages, NEW j \in page[p].jobs,
             JobSend(p, j) \/ JobDone(p, j) \/ JobError(p, j)
      PROVE  Passing
  <2>0. page[p] \in CountingOf(Job)
    BY DEF TypeInv
  <2>1. j.run \in Runs /\ Without(p, j) \in CountingOf(Job)
    BY <2>0 DEF Without, CountingOf, ControllerOf, Loaded, Job
  <2>2. /\ Msg("bytes", j.run) \in Message /\ Msg("bytes", j.run).kind = "bytes"
        /\ Msg("done", j.run) \in Message /\ Msg("done", j.run).kind = "done"
    BY <2>1, MsgType DEF Kinds, Msg
  <2>3. Forwards(net["guest"], net'["guest"])
    <3>1. CASE JobSend(p, j)
      BY <1>0, <2>2, <3>1, SendForwards DEF JobSend, NewsKinds
    <3>2. CASE JobDone(p, j)
      BY <1>0, <2>2, <3>2, SendForwards DEF JobDone, NewsKinds
    <3>3. CASE JobError(p, j)
      BY <1>5, <2>1, <3>3 DEF JobError
    <3> QED
      BY <1>7, <3>1, <3>2, <3>3
  <2> QED
    BY <1>7, <2>3 DEF JobSend, JobDone, JobError, Passing
<1>8. ASSUME NEW p \in Pages, LinkDown(p) PROVE Passing
  <2>1. Forwards(net["guest"], net'["guest"])
    BY <1>8 DEF LinkDown, Forwards, TypeInv, Pages
  <2> QED
    BY <1>8, <2>1 DEF LinkDown, Passing
<1>9. UNCHANGED vars => Passing
  BY <1>0 DEF vars, Passing
<1> QED
  BY <1>1, <1>2, <1>3, <1>4, <1>6, <1>7, <1>8, <1>9

\* Each place takes proposals only from the places before it, which lose them.
Onward ==
    /\ Unsent' \subseteq Unsent
    /\ OnWire' \subseteq OnWire \cup (Unsent \ Unsent')
    /\ OnScreen' \subseteq OnScreen \cup (OnWire \ OnWire')
    /\ Kept' \subseteq Kept \cup (OnScreen \ OnScreen')
    /\ compiling' \subseteq compiling \cup ((OnScreen \cup Kept) \ (OnScreen' \cup Kept'))
    /\ started' \subseteq started \cup ((OnScreen \cup Kept \cup compiling)
                                       \ (OnScreen' \cup Kept' \cup compiling'))

LEMMA OnwardPlaces ==
    ASSUME OnePlace, Onward
    PROVE  OnePlace'
<1>1. Unsent' \cap (OnWire' \cup OnScreen' \cup Kept' \cup compiling' \cup started') = {}
  BY DEF OnePlace, Onward
<1>2. OnWire' \cap (OnScreen' \cup Kept' \cup compiling' \cup started') = {}
  BY DEF OnePlace, Onward
<1>3. OnScreen' \cap (Kept' \cup compiling' \cup started') = {}
  BY DEF OnePlace, Onward
<1>4. Kept' \cap (compiling' \cup started') = {}
  BY DEF OnePlace, Onward
<1>5. compiling' \cap started' = {}
  BY DEF OnePlace, Onward
<1> QED
  BY <1>1, <1>2, <1>3, <1>4, <1>5 DEF OnePlace

\* A step that leaves the channel as it is, or delivers its first message, and
\* withdraws nothing.
LEMMA OnwardPlacesInv ==
    ASSUME TypeInv, PlacesInv, Onward, Passes(net["guest"], net'["guest"]),
           UNCHANGED withdrawn, compiling' \subseteq Sourced
    PROVE  PlacesInv'
<1>1. net["guest"] \in Seq(Message)
  BY DEF TypeInv, Pages
<1>2. OnePlace'
  BY OnwardPlaces DEF PlacesInv
<1>3. OnWire' \subseteq OnWire
  BY <1>1, PassesKeeps DEF OnWire
<1>4. ProposedOnce(net'["guest"]) /\ AbortedAfter(net'["guest"])
  BY <1>1, PassesKeeps DEF PlacesInv, Withdrawn
<1>5. \A i \in DOMAIN net'["guest"] : net'["guest"][i].kind = "abort"
        => net'["guest"][i].run \notin Unsent'
  BY <1>1, PassesKeeps DEF PlacesInv, Withdrawn, Onward
<1>6. withdrawn' \cap (Unsent' \cup OnWire' \cup OnScreen' \cup Kept') = {}
  BY <1>3 DEF PlacesInv, Withdrawn, Onward
<1> QED
  BY <1>2, <1>4, <1>5, <1>6 DEF PlacesInv, Withdrawn

\* What ends in the hands of the verifier or of the compiler.
LEMMA ProceedOnward ==
    ASSUME TypeInv, PlacesInv, NEW r \in Runs, NEW c, ProceedAccept(r, c)
    PROVE  /\ compiling' \subseteq compiling \cup {r} /\ compiling' \subseteq Sourced
           /\ started' \subseteq started \cup {r}
           /\ started' = started \/ compiling' = compiling
           /\ Forwards(net["guest"], net'["guest"])
<1>1. Forwards(net["guest"], net["guest"])
  BY DEF Forwards
<1>2. Msg("ready", r) \in Message /\ Msg("ready", r).kind = "ready" /\ "guest" \in Pages
  BY MsgType DEF Kinds, Msg, Pages
<1>3. Forwards(net["guest"], Send(net, "guest", Msg("ready", r))["guest"])
  BY <1>2, SendForwards
<1> QED
  BY <1>1, <1>3 DEF ProceedAccept, StartVerifierRun, PlacesInv

LEMMA AcceptPlaces ==
    ASSUME TypeInv, PlacesInv, AcceptRun
    PROVE  PlacesInv'
<1> DEFINE r == pendingProposal
<1>1. /\ r \in Runs /\ r # NoRun /\ OnScreen = {r} /\ OnScreen' = {}
      /\ Unsent' = Unsent /\ UNCHANGED withdrawn
  BY DEF AcceptRun, TypeInv, MaybeRun, OnScreen, Unsent, hostVars
<1>2. CASE page["guest"].nReady < 2
  <2>1. /\ acceptedPending' = r /\ UNCHANGED <<net, compiling, started>>
    BY <1>2 DEF AcceptRun
  <2>2. Onward
    BY <1>1, <2>1 DEF Onward, Kept, OnWire, PlacesInv, OnePlace
  <2> QED
    BY <1>1, <2>1, <2>2, OnwardPlacesInv DEF Passes, Forwards, PlacesInv
<1>3. CASE ~(page["guest"].nReady < 2)
  <2>1. ProceedAccept(r, page["guest"]) /\ UNCHANGED acceptedPending
    BY <1>3 DEF AcceptRun
  <2>2. /\ compiling' \subseteq compiling \cup {r} /\ compiling' \subseteq Sourced
        /\ started' \subseteq started \cup {r} /\ Passes(net["guest"], net'["guest"])
        /\ started' = started \/ compiling' = compiling
    BY <1>1, <2>1, ProceedOnward DEF Passes
  <2>3. OnWire' \subseteq OnWire
    BY <2>2, PassesKeeps DEF OnWire, TypeInv, Pages
  <2>4. Onward
    BY <1>1, <2>1, <2>2, <2>3 DEF Onward, Kept, PlacesInv, OnePlace
  <2> QED
    BY <1>1, <2>2, <2>4, OnwardPlacesInv
<1> QED
  BY <1>2, <1>3

LEMMA CompilePlaces ==
    ASSUME TypeInv, PlacesInv, NEW r \in compiling, CompileOk(r)
    PROVE  PlacesInv'
<1>1. /\ Unsent' = Unsent /\ OnScreen' = OnScreen /\ Kept' = Kept /\ UNCHANGED withdrawn
      /\ compiling' = compiling \ {r} /\ started' \subseteq started \cup {r}
  BY DEF CompileOk, StartVerifierRun, Unsent, OnScreen, Kept, hostVars
<1>2. Passes(net["guest"], net'["guest"])
  <2>1. r \in Runs /\ "guest" \in Pages
    BY DEF TypeInv, Pages
  <2>2. Msg("ready", r) \in Message /\ Msg("ready", r).kind = "ready"
    BY <2>1, MsgType DEF Kinds, Msg
  <2>3. Forwards(net["guest"], Send(net, "guest", Msg("ready", r))["guest"])
    BY <2>1, <2>2, SendForwards
  <2> QED
    BY <2>3 DEF CompileOk, StartVerifierRun, Passes, Forwards
<1>3. OnWire' \subseteq OnWire
  BY <1>2, PassesKeeps DEF OnWire, TypeInv, Pages
<1>4. Onward
  BY <1>1, <1>3 DEF Onward, PlacesInv, OnePlace
<1> QED
  BY <1>1, <1>2, <1>4, OnwardPlacesInv DEF PlacesInv

LEMMA WorkerReadyPlaces ==
    ASSUME TypeInv, PlacesInv, NEW p \in Pages, NEW role \in Roles, WorkerReady(p, role)
    PROVE  PlacesInv'
<1> DEFINE c == WorkerUp(page[p], role, IF linked[p] THEN "idle" ELSE "waiting")
           r == acceptedPending
<1>1. UNCHANGED <<hostVars, pendingProposal, withdrawn>>
  BY DEF WorkerReady
<1>2. CASE ProceedAccept(r, c) /\ r # NoRun /\ acceptedPending' = NoRun
  <2>1. r \in Runs /\ Kept = {r} /\ Kept' = {} /\ Unsent' = Unsent /\ OnScreen' = OnScreen
    BY <1>1, <1>2 DEF TypeInv, MaybeRun, Kept, Unsent, OnScreen, hostVars
  <2>2. /\ compiling' \subseteq compiling \cup {r} /\ compiling' \subseteq Sourced
        /\ started' \subseteq started \cup {r} /\ Passes(net["guest"], net'["guest"])
        /\ started' = started \/ compiling' = compiling
    BY <1>2, <2>1, ProceedOnward DEF Passes
  <2>3. OnWire' \subseteq OnWire
    BY <2>2, PassesKeeps DEF OnWire, TypeInv, Pages
  <2>4. Onward
    BY <2>1, <2>2, <2>3 DEF Onward, PlacesInv, OnePlace
  <2> QED
    BY <1>1, <2>2, <2>4, OnwardPlacesInv
<1>3. CASE UNCHANGED <<net, acceptedPending, compiling, started>>
  BY <1>1, <1>3, PassingPlaces DEF Passing, Forwards, hostVars
<1> QED
  BY <1>2, <1>3 DEF WorkerReady

LEMMA ReceiveProposePlaces ==
    ASSUME TypeInv, PlacesInv, ReceivePropose
    PROVE  PlacesInv'
<1> DEFINE n == net["guest"]
           r == Head(net["guest"]).run
<1>1. n \in Seq(Message) /\ n # << >> /\ Head(n).kind = "propose" /\ "guest" \in Pages
  BY DEF ReceivePropose, Arrives, TypeInv, Pages
<1>2. net'["guest"] = Tail(n)
  BY <1>1 DEF ReceivePropose, Taken, TypeInv
<1>3. r \in OnWire /\ r \notin OnWire' /\ OnWire' \subseteq OnWire
  BY <1>1, <1>2, TailKinds DEF OnWire, PlacesInv
<1>4. /\ Unsent' = Unsent /\ OnScreen' \subseteq OnScreen \cup {r} /\ Kept' = Kept
      /\ UNCHANGED <<compiling, started, withdrawn>>
  BY DEF ReceivePropose, Unsent, OnScreen, Kept, hostVars, history
<1>5. Onward
  BY <1>3, <1>4 DEF Onward
<1>6. Passes(n, net'["guest"])
  BY <1>1, <1>2 DEF Passes
<1> QED
  BY <1>4, <1>5, <1>6, OnwardPlacesInv DEF PlacesInv

\* The proposal an abort withdraws has left the channel before it, and the abort
\* clears the places that the guest answers from.
LEMMA ReceiveAbortPlaces ==
    ASSUME TypeInv, PlacesInv, ReceiveAbort
    PROVE  PlacesInv'
<1> DEFINE n == net["guest"]
           r == Head(net["guest"]).run
<1>1. n \in Seq(Message) /\ n # << >> /\ Head(n).kind = "abort" /\ "guest" \in Pages
  BY DEF ReceiveAbort, Arrives, TypeInv, Pages
<1>2. net'["guest"] = Tail(n)
  BY <1>1 DEF ReceiveAbort, Taken, TypeInv
<1>3. /\ Unsent' = Unsent /\ OnScreen' = {} /\ Kept' = {}
      /\ UNCHANGED <<compiling, started>> /\ withdrawn' = withdrawn \cup {r}
  BY DEF ReceiveAbort, Unsent, OnScreen, Kept, hostVars, history
<1>4. AbortedAfter(n) /\ ProposedOnce(n)
  BY DEF PlacesInv, Withdrawn
<1>5. /\ OnWire' \subseteq OnWire /\ r \notin OnWire'
      /\ ProposedOnce(net'["guest"]) /\ AbortedAfter(net'["guest"])
  BY <1>1, <1>2, <1>4, TailKinds DEF OnWire
<1>6. n[1] = Head(n) /\ 1 \in DOMAIN n
  BY <1>1
<1>7. r \notin Unsent
  BY <1>1, <1>6 DEF PlacesInv, Withdrawn
<1>8. OnePlace'
  BY <1>3, <1>5 DEF PlacesInv, OnePlace
<1>9. Passes(n, net'["guest"])
  BY <1>1, <1>2 DEF Passes
<1>10. \A i \in DOMAIN net'["guest"] : net'["guest"][i].kind = "abort"
         => net'["guest"][i].run \notin Unsent'
  BY <1>1, <1>3, <1>9, PassesKeeps DEF PlacesInv, Withdrawn
<1>11. withdrawn' \cap (Unsent' \cup OnWire' \cup OnScreen' \cup Kept') = {}
  BY <1>3, <1>5, <1>7 DEF PlacesInv, Withdrawn
<1> QED
  BY <1>3, <1>5, <1>8, <1>10, <1>11 DEF PlacesInv, Withdrawn

LEMMA ProposePlaces ==
    ASSUME TypeInv, PlacesInv, NEW r \in Runs, r \in Unsent, r \notin Unsent',
           Unsent' \subseteq Unsent, net' = Send(net, "host", Msg("propose", r)),
           UNCHANGED <<guestVars, history>>
    PROVE  PlacesInv'
<1> DEFINE n == net["guest"]
           m == Msg("propose", r)
<1> USE DEF guestVars, history
<1>1. n \in Seq(Message) /\ m \in Message /\ m.kind = "propose" /\ m.run = r
  BY MsgType DEF TypeInv, Pages, Kinds, Msg
<1>2. r \notin OnWire \cup OnScreen \cup Kept \cup compiling \cup started
  BY DEF PlacesInv, OnePlace
<1>3. net'["guest"] = n \/ net'["guest"] = Append(n, m)
  BY DEF Send, Other, TypeInv, Pages
<1>4. \A i \in DOMAIN n : n[i].kind = "abort" => n[i].run # r
  BY DEF PlacesInv, Withdrawn
<1>5. OnWire' \subseteq OnWire \cup {r}
  BY <1>1, <1>3, AppendKinds, ZenonT(30) DEF OnWire
<1>6. ProposedOnce(net'["guest"]) /\ AbortedAfter(net'["guest"])
  BY <1>1, <1>2, <1>3, <1>4, AppendKinds, ZenonT(30) DEF PlacesInv, Withdrawn, OnWire
<1>7. OnScreen' = OnScreen /\ Kept' = Kept
  BY DEF OnScreen, Kept
<1>8. Onward
  BY <1>5, <1>7 DEF Onward
<1>9. OnePlace'
  BY <1>8, OnwardPlaces DEF PlacesInv
<1>10. \A i \in DOMAIN net'["guest"] : net'["guest"][i].kind = "abort" =>
          \E k \in DOMAIN n : n[k] = net'["guest"][i]
  BY <1>1, <1>3
<1>11. \A i \in DOMAIN net'["guest"] : net'["guest"][i].kind = "abort"
         => net'["guest"][i].run \notin Unsent'
  BY <1>10 DEF PlacesInv, Withdrawn
<1>12. withdrawn' \cap (Unsent' \cup OnWire' \cup OnScreen' \cup Kept') = {}
  BY <1>5, <1>7 DEF PlacesInv, Withdrawn
<1> QED
  BY <1>6, <1>9, <1>11, <1>12 DEF PlacesInv, Withdrawn

LEMMA ClickPlaces ==
    ASSUME SafeInv, PlacesInv, ClickProve
    PROVE  PlacesInv'
<1> DEFINE r == asked + 1
<1>1. /\ r \in Runs /\ asked' = r /\ r > asked /\ asked \in Nat /\ \A x \in hashing : x <= asked
      /\ \A x \in Runs : x \in Nat
      /\ UNCHANGED <<guestVars, history>> /\ hashing \subseteq Runs
  BY MaxRunsAssumption DEF ClickProve, SafeInv, TypeInv, HostInv, HostIds, Runs
<1>2. CASE r \in Sourced
  <2>1. hashing' = hashing \cup {r} /\ net' = net
    BY <1>2 DEF ClickProve
  <2>2. Unsent' \subseteq Unsent
    BY <1>1, <2>1 DEF Unsent
  <2>3. Onward
    BY <1>1, <2>1, <2>2 DEF Onward, OnWire, OnScreen, Kept, guestVars, history
  <2> QED
    BY <1>1, <2>1, <2>3, OnwardPlacesInv DEF SafeInv, Passes, Forwards, PlacesInv, guestVars, history
<1>3. CASE r \notin Sourced
  <2>1. hashing' = hashing /\ net' = Send(net, "host", Msg("propose", r))
    BY <1>3 DEF ClickProve
  <2>2. r \in Unsent /\ r \notin Unsent' /\ Unsent' \subseteq Unsent
    BY <1>1, <2>1 DEF Unsent
  <2> QED
    BY <1>1, <2>1, <2>2, ProposePlaces DEF SafeInv
<1> QED
  BY <1>2, <1>3

LEMMA HashPlaces ==
    ASSUME SafeInv, PlacesInv, NEW r \in hashing, HashDone(r)
    PROVE  PlacesInv'
<1>1. /\ r \in Runs /\ r <= asked /\ asked \in Nat /\ \A x \in Runs : x \in Nat
      /\ hashing' = hashing \ {r} /\ asked' = asked
      /\ net' = Send(net, "host", Msg("propose", r)) /\ UNCHANGED <<guestVars, history>>
  BY MaxRunsAssumption DEF HashDone, SafeInv, TypeInv, HostInv, HostIds, Runs
<1>2. r \in Unsent /\ r \notin Unsent' /\ Unsent' \subseteq Unsent
  BY <1>1 DEF Unsent
<1> QED
  BY <1>1, <1>2, ProposePlaces DEF SafeInv

LEMMA ClickAbortPlaces ==
    ASSUME SafeInv, PlacesInv, ClickAbort
    PROVE  PlacesInv'
<1> DEFINE n == net["guest"]
           m == Msg("abort", page["host"].run)
<1>1. page["host"].run \in Runs /\ page["host"].run \notin Unsent
  BY DEF ClickAbort, SafeInv, TypeInv, HostInv, HostIds, Unsent, CountingOf, ControllerOf,
         MaybeRun, Pages, Runs
<1>2. n \in Seq(Message) /\ m \in Message /\ m.kind = "abort" /\ m.run = page["host"].run
  BY <1>1, MsgType DEF SafeInv, TypeInv, Pages, Kinds, Msg
<1>3. net'["guest"] = n \/ net'["guest"] = Append(n, m)
  BY DEF ClickAbort, Send, Other, SafeInv, TypeInv, Pages
<1>4. UNCHANGED <<asked, hashing, pendingProposal, acceptedPending, compiling, started, withdrawn>>
  BY DEF ClickAbort, hostVars, guestVars, history
<1>5. OnWire' = OnWire /\ Unsent' = Unsent /\ OnScreen' = OnScreen /\ Kept' = Kept
  BY <1>2, <1>3, <1>4, AppendKinds DEF OnWire, Unsent, OnScreen, Kept
<1>6. ProposedOnce(net'["guest"]) /\ AbortedAfter(net'["guest"])
  BY <1>2, <1>3, AppendKinds DEF PlacesInv, Withdrawn
<1>7. \A i \in DOMAIN net'["guest"] : net'["guest"][i].kind = "abort"
        => net'["guest"][i].run \notin Unsent'
  BY <1>1, <1>2, <1>3, <1>5 DEF PlacesInv, Withdrawn
<1> QED
  BY <1>4, <1>5, <1>6, <1>7 DEF PlacesInv, OnePlace, Withdrawn

LEMMA PlacesInit == Init => PlacesInv
BY DEF Init, PlacesInv, ProposedOnce, OnePlace, Withdrawn, AbortedAfter, OnWire, ProposedIn,
       OnScreen, Kept, Unsent, Pages

LEMMA PlacesNext == SafeInv /\ PlacesInv /\ [Next]_vars => PlacesInv'
<1> SUFFICES ASSUME SafeInv, PlacesInv, [Next]_vars PROVE PlacesInv'
  OBVIOUS
<1>0. TypeInv
  BY DEF SafeInv
<1>1. CASE Passing
  BY <1>0, <1>1, PassingPlaces
<1>2. CASE ClickProve
  BY <1>2, ClickPlaces
<1>3. ASSUME NEW r \in hashing, HashDone(r) PROVE PlacesInv'
  BY <1>3, HashPlaces
<1>4. CASE ClickAbort
  BY <1>4, ClickAbortPlaces
<1>5. CASE AcceptRun
  BY <1>0, <1>5, AcceptPlaces
<1>6. ASSUME NEW r \in compiling, CompileOk(r) PROVE PlacesInv'
  BY <1>0, <1>6, CompilePlaces
<1>7. CASE ReceivePropose
  BY <1>0, <1>7, ReceiveProposePlaces
<1>8. CASE ReceiveAbort
  BY <1>0, <1>8, ReceiveAbortPlaces
<1>9. ASSUME NEW p \in Pages, NEW role \in Roles, WorkerReady(p, role) PROVE PlacesInv'
  BY <1>0, <1>9, WorkerReadyPlaces
<1> QED
  BY <1>0, <1>1, <1>2, <1>3, <1>4, <1>5, <1>6, <1>7, <1>8, <1>9, PassingSteps
     DEF Next, Compiled, Receive, WorkerStep

\* Either the guest goes on as it was, or it starts a run that waited in one of
\* the places it answers from.
VerifierStep ==
    \/ started' = started /\ page'["guest"].run \in {NoRun, page["guest"].run}
    \/ \E r \in OnScreen \cup Kept \cup compiling :
         started' = started \cup {r} /\ page'["guest"].run = r

LEMMA StartRuns ==
    ASSUME TypeInv, NEW r \in Runs, NEW c \in CountingOf(Job), StartVerifierRun(r, c)
    PROVE  started' = started \cup {r} /\ page'["guest"].run = r
BY DEF StartVerifierRun, TypeInv, Pages, AttachRemoteRun, NewRun, CountingOf, ControllerOf

\* page' is page but for the controller of p.
LEMMA OnePage ==
    ASSUME TypeInv, NEW p \in Pages, NEW d, page' = [page EXCEPT ![p] = d]
    PROVE  page'[p] = d /\ \A q \in Pages \ {p} : page'[q] = page[q]
BY DEF TypeInv

LEMMA VerifierSteps == TypeInv /\ [Next]_vars => VerifierStep
<1> SUFFICES ASSUME TypeInv, [Next]_vars PROVE VerifierStep
  OBVIOUS
<1> USE DEF hostVars, guestVars, history
<1>0. /\ "guest" \in Pages /\ "host" \in Pages /\ "host" # "guest"
      /\ page["guest"] \in CountingOf(Job)
  BY DEF Pages, TypeInv
<1>1. ASSUME NEW p \in Pages, WeakStep(p) PROVE VerifierStep
  <2>1. page'["guest"].run \in {NoRun, page["guest"].run}
    <3>1. Weakens(page[p], page'[p]) /\ page' = [page EXCEPT ![p] = page'[p]]
      BY <1>1, WeakStepWeakens
    <3>2. p = "guest" \/ page'["guest"] = page["guest"]
      BY <1>0, <3>1, OnePage
    <3> QED
      BY <3>1, <3>2 DEF Weakens
  <2>2. started' = started
    BY <1>1, PassingSteps
       DEF WeakStep, Passing, ReceivePropose, ReceiveAbort, ClickAbort
  <2> QED
    BY <2>1, <2>2 DEF VerifierStep
<1>2. CASE UNCHANGED page["guest"] /\ UNCHANGED started
  BY <1>2 DEF VerifierStep
<1>3. CASE ClickProve
  BY <1>2, <1>3 DEF ClickProve, TypeInv, Pages
<1>4. ASSUME NEW r \in hashing, HashDone(r) PROVE VerifierStep
  BY <1>2, <1>4 DEF HashDone, TypeInv, Pages
<1>5. CASE ReceiveReady
  BY <1>2, <1>5 DEF ReceiveReady, TypeInv, Pages
<1>6. CASE DeclineRun
  BY <1>2, <1>6 DEF DeclineRun
<1>7. ASSUME NEW r \in compiling, CompileRefused(r) PROVE VerifierStep
  BY <1>2, <1>7 DEF CompileRefused
<1>8. ASSUME NEW r \in compiling, CompileOk(r) PROVE VerifierStep
  <2>1. r \in Runs
    BY DEF TypeInv
  <2>2. CASE StartVerifierRun(r, page["guest"])
    BY <1>0, <2>1, <2>2, StartRuns DEF VerifierStep
  <2> QED
    BY <1>2, <1>8, <2>2 DEF CompileOk
<1>9. ASSUME NEW r \in Runs, r \in OnScreen \cup Kept, NEW c \in CountingOf(Job),
             c.run = page["guest"].run, ProceedAccept(r, c)
      PROVE  VerifierStep
  <2>1. CASE StartVerifierRun(r, c)
    BY <1>9, <2>1, StartRuns DEF VerifierStep
  <2>2. CASE page' = [page EXCEPT !["guest"] = c] /\ UNCHANGED started
    BY <1>0, <1>9, <2>2 DEF VerifierStep, TypeInv
  <2> QED
    BY <1>9, <2>1, <2>2 DEF ProceedAccept
<1>10. CASE AcceptRun
  <2>1. pendingProposal \in Runs /\ pendingProposal \in OnScreen
    BY <1>10 DEF AcceptRun, TypeInv, MaybeRun, OnScreen
  <2>2. CASE ProceedAccept(pendingProposal, page["guest"])
    BY <1>0, <1>9, <2>1, <2>2
  <2> QED
    BY <1>2, <1>10, <2>2 DEF AcceptRun
<1>11. ASSUME NEW p \in Pages, NEW role \in Roles, WorkerReady(p, role) PROVE VerifierStep
  <2> DEFINE c == WorkerUp(page[p], role, IF linked[p] THEN "idle" ELSE "waiting")
  <2>1. c \in CountingOf(Job) /\ c.run = page[p].run
    <3>1. c \in CountingOf(Job)
      BY <1>11, WorkerUpType DEF TypeInv, WorkerReady, Buttons
    <3>2. c.run = page[p].run
      BY DEF WorkerUp, TypeInv, CountingOf, ControllerOf
    <3> QED
      BY <3>1, <3>2
  <2>2. CASE p = "guest" /\ acceptedPending # NoRun /\ ProceedAccept(acceptedPending, c)
    <3>1. acceptedPending \in Runs /\ acceptedPending \in Kept
      BY <2>2 DEF TypeInv, MaybeRun, Kept
    <3> QED
      BY <1>9, <2>1, <2>2, <3>1
  <2>3. CASE page' = [page EXCEPT ![p] = c] /\ UNCHANGED started
    <3> HIDE DEF c
    <3>1. page'["guest"].run = page["guest"].run
      BY <1>0, <2>1, <2>3, OnePage
    <3> QED
      BY <2>3, <3>1 DEF VerifierStep
  <2> QED
    BY <1>11, <2>2, <2>3 DEF WorkerReady
<1>12. CASE UNCHANGED vars
  BY <1>2, <1>12 DEF vars
<1>13. ASSUME NEW p \in Pages, Receive(p) PROVE WeakStep(p) \/ ReceiveReady
  BY <1>13 DEF Receive, WeakStep
<1> QED
  BY <1>0, <1>1, <1>3, <1>4, <1>5, <1>6, <1>7, <1>8, <1>10, <1>11, <1>12, <1>13
     DEF Next, Compiled, WorkerStep, WeakStep

\* In every environment a proposal is verified at most once: each step of a
\* proposal's way takes it from the place where it was.
THEOREM NeverVerifiedTwiceHolds == Spec => NeverVerifiedTwice
<1>1. TypeInv /\ PlacesInv /\ [Next]_vars =>
        [\A r \in started : page["guest"].run' = r => page["guest"].run = r]_vars
  <2> SUFFICES ASSUME TypeInv, PlacesInv, [Next]_vars,
                      NEW r \in started, page'["guest"].run = r
               PROVE  page["guest"].run = r
    OBVIOUS
  <2>1. r # NoRun
    BY RunFacts DEF TypeInv
  <2>2. r \notin OnScreen \cup Kept \cup compiling
    BY DEF PlacesInv, OnePlace
  <2> QED
    BY <2>1, <2>2, VerifierSteps DEF VerifierStep
<1>2. SafeInv => TypeInv
  BY DEF SafeInv
<1> QED
  BY <1>1, <1>2, SafeInit, SafeNext, PlacesInit, PlacesNext, PTL DEF Spec, NeverVerifiedTwice

\* In every environment what the prover has withdrawn is never started, but for
\* a source inside its compile: the abort comes after the proposal it withdraws
\* and clears whatever the guest could still start it from.
THEOREM WithdrawnNotStartedHolds == Spec => WithdrawnNotStarted
<1>1. TypeInv /\ PlacesInv /\ [Next]_vars =>
        [\A r \in withdrawn \ Sourced : r \in started' => r \in started]_vars
  <2> SUFFICES ASSUME TypeInv, PlacesInv, [Next]_vars,
                      NEW r \in withdrawn \ Sourced, r \in started'
               PROVE  r \in started
    OBVIOUS
  <2>1. r \notin OnScreen \cup Kept \cup compiling
    BY DEF PlacesInv, Withdrawn
  <2> QED
    BY <2>1, VerifierSteps DEF VerifierStep
<1>2. SafeInv => TypeInv
  BY DEF SafeInv
<1> QED
  BY <1>1, <1>2, SafeInit, SafeNext, PlacesInit, PlacesNext, PTL DEF Spec, WithdrawnNotStarted

-----------------------------------------------------------------------------
(* `ready` is ordered before every protocol byte.                          *)

\* A `ready` is on its way that comes before all bytes of run r.
ReadyAhead(n, r) ==
    \E k \in DOMAIN n : n[k].kind = "ready" /\ \A i \in 1..k : n[i] # Msg("bytes", r)

\* Only what has been started sends bytes.
BytesOfStarted(n) == \A i \in DOMAIN n : n[i].kind = "bytes" => n[i].run \in started

GuestRuns ==
    LET g == page["guest"]
    IN  /\ g.run # NoRun => g.attached /\ g.run \in started
        /\ \A j \in g.jobs : j.run \in started

\* A run of the host that has no prover yet holds the request for it, and once
\* the verifier is there its `ready` comes first.
HostWaits ==
    LET c == page["host"]
    IN  c.run # NoRun /\ ~c.attached =>
          /\ c.pendingProverReq = c.run
          /\ linked["host"] /\ c.run \in started => ReadyAhead(net["host"], c.run)

ReadyInv == GuestRuns /\ BytesOfStarted(net["host"]) /\ HostWaits

\* What a step does to the host's channel that starts no run and takes no `ready`.
Orderly(n, m) ==
    \/ m = n
    \/ n # << >> /\ Head(n).kind # "ready" /\ m = Tail(n)
    \/ \E x \in Message : (x.kind = "bytes" => x.run \in started) /\ m = Append(n, x)

LEMMA OrderlyKeeps ==
    ASSUME NEW n \in Seq(Message), NEW m, Orderly(n, m), BytesOfStarted(n)
    PROVE  /\ BytesOfStarted(m)
           /\ \A r : ReadyAhead(n, r) => ReadyAhead(m, r)
<1>1. CASE m = n
  BY <1>1
<1>2. CASE n # << >> /\ Head(n).kind # "ready" /\ m = Tail(n)
  <2>1. /\ Len(n) \in Nat \ {0} /\ Len(m) = Len(n) - 1 /\ Head(n) = n[1]
        /\ \A i \in 1..Len(m) : m[i] = n[i + 1] /\ i + 1 \in 1..Len(n)
        /\ DOMAIN m = 1..Len(m) /\ DOMAIN n = 1..Len(n)
    BY <1>2
  <2>2. BytesOfStarted(m)
    BY <2>1 DEF BytesOfStarted
  <2>3. ASSUME NEW r, ReadyAhead(n, r) PROVE ReadyAhead(m, r)
    <3>1. PICK k \in DOMAIN n : n[k].kind = "ready" /\ \A i \in 1..k : n[i] # Msg("bytes", r)
      BY <2>3 DEF ReadyAhead
    <3>2. k # 1 /\ k - 1 \in DOMAIN m /\ m[k - 1] = n[k]
      BY <1>2, <2>1, <3>1
    <3>3. \A i \in 1..(k - 1) : i \in DOMAIN m /\ m[i] = n[i + 1] /\ i + 1 \in 1..k
      BY <2>1, <3>2
    <3> QED
      BY <3>1, <3>2, <3>3 DEF ReadyAhead
  <2> QED
    BY <2>2, <2>3
<1>3. ASSUME NEW x \in Message, x.kind = "bytes" => x.run \in started, m = Append(n, x)
      PROVE  BytesOfStarted(m) /\ \A r : ReadyAhead(n, r) => ReadyAhead(m, r)
  <2>1. /\ Len(n) \in Nat /\ Len(m) = Len(n) + 1 /\ m[Len(m)] = x
        /\ \A i \in 1..Len(n) : m[i] = n[i]
        /\ DOMAIN m = 1..Len(m) /\ DOMAIN n = 1..Len(n)
    BY <1>3
  <2>2. BytesOfStarted(m)
    BY <1>3, <2>1 DEF BytesOfStarted
  <2>3. ASSUME NEW r, ReadyAhead(n, r) PROVE ReadyAhead(m, r)
    <3>1. PICK k \in DOMAIN n : n[k].kind = "ready" /\ \A i \in 1..k : n[i] # Msg("bytes", r)
      BY <2>3 DEF ReadyAhead
    <3>2. k \in DOMAIN m /\ m[k] = n[k] /\ \A i \in 1..k : m[i] = n[i]
      BY <2>1, <3>1
    <3> QED
      BY <3>1, <3>2 DEF ReadyAhead
  <2> QED
    BY <2>2, <2>3
<1> QED
  BY <1>1, <1>2, <1>3 DEF Orderly

\* The `ready` that the start of a run sends comes before its bytes.
LEMMA ReadySent ==
    ASSUME NEW n \in Seq(Message), NEW x \in Message, x.kind = "ready", NEW r \in Runs,
           BytesOfStarted(n), r \notin started
    PROVE  ReadyAhead(Append(n, x), r)
<1> DEFINE m == Append(n, x)
           k == Len(n) + 1
<1>1. /\ k \in DOMAIN m /\ m[k] = x /\ DOMAIN n = 1..Len(n) /\ Len(n) \in Nat
      /\ \A i \in 1..Len(n) : m[i] = n[i]
  OBVIOUS
<1>2. Msg("bytes", r).kind = "bytes" /\ Msg("bytes", r).run = r
  BY DEF Msg
<1>3. \A i \in 1..k : m[i] # Msg("bytes", r)
  BY <1>1, <1>2 DEF BytesOfStarted
<1> QED
  BY <1>1, <1>3 DEF ReadyAhead

LEMMA SendOrderly ==
    ASSUME TypeInv, NEW p \in Pages, NEW m \in Message,
           p = "host" \/ (m.kind = "bytes" => m.run \in started)
    PROVE  Orderly(net["host"], Send(net, p, m)["host"])
BY DEF Send, Orderly, Other, Pages, TypeInv

LEMMA TakenOrderly ==
    ASSUME TypeInv, NEW p \in Pages, NEW kind, Arrives(p, kind), p = "guest" \/ kind # "ready"
    PROVE  Orderly(net["host"], Taken(p)["host"])
BY DEF Arrives, Taken, Orderly, Pages, TypeInv

LEMMA ReportOrderly ==
    ASSUME TypeInv, NEW p \in Pages, NEW c \in CountingOf(Job), NEW r,
           c.run # NoRun => r \in Runs, ReportError(p, c, r)
    PROVE  Orderly(net["host"], net'["host"])
<1>1. CASE c.run = NoRun
  BY <1>1 DEF ReportError, Orderly
<1>2. CASE c.run # NoRun
  <2>1. Msg("error", r) \in Message /\ Msg("error", r).kind = "error"
    BY <1>2, MsgType DEF Kinds, Msg
  <2> QED
    BY <1>2, <2>1, SendOrderly DEF ReportError
<1> QED
  BY <1>1, <1>2

LEMMA WeakOrderly ==
    ASSUME TypeInv, GuestRuns, NEW p \in Pages, WeakStep(p)
    PROVE  \/ Orderly(net["host"], net'["host"])
           \/ ~linked'["host"] /\ net'["host"] = << >>
<1>0. /\ "guest" \in Pages /\ "host" \in Pages /\ Orderly(net["host"], net["host"])
      /\ page[p] \in CountingOf(Job)
  BY DEF Pages, Orderly, TypeInv
<1>1. CASE p = "host" /\ ClickAbort
  <2>1. Msg("abort", page["host"].run) \in Message
    BY <1>1, MsgType DEF ClickAbort, TypeInv, Pages, CountingOf, ControllerOf, MaybeRun, Kinds
  <2> QED
    BY <1>0, <1>1, <2>1, SendOrderly DEF ClickAbort
<1>2. CASE p = "guest" /\ (ReceivePropose \/ ReceiveAbort)
  BY <1>0, <1>2, TakenOrderly DEF ReceivePropose, ReceiveAbort
<1>3. CASE p = "host" /\ ReceiveDecline
  BY <1>0, <1>3, TakenOrderly DEF ReceiveDecline
<1>4. CASE ReceiveDone(p) \/ ReceiveError(p) \/ ReceiveBytes(p)
  BY <1>0, <1>4, TakenOrderly DEF ReceiveDone, ReceiveError, ReceiveBytes
<1>5. ASSUME NEW role \in Roles, WorkerBroken(p, role)
      PROVE  Orderly(net["host"], net'["host"])
  <2> DEFINE c == [page[p] EXCEPT !.worker[role] = "broken"]
  <2>1. c \in CountingOf(Job) /\ ReportError(p, c, c.run)
    BY <1>0, <1>5, WorkerBrokenType DEF WorkerBroken
  <2>2. c.run # NoRun => c.run \in Runs
    BY <2>1 DEF CountingOf, ControllerOf, MaybeRun
  <2> QED
    BY <2>1, <2>2, ReportOrderly
<1>6. ASSUME NEW j \in page[p].jobs, JobSend(p, j) \/ JobDone(p, j) \/ JobError(p, j)
      PROVE  Orderly(net["host"], net'["host"])
  <2>1. j.run \in Runs /\ Without(p, j) \in CountingOf(Job)
    BY <1>0 DEF Without, CountingOf, ControllerOf, Loaded, Job
  <2>2. /\ Msg("bytes", j.run) \in Message /\ Msg("bytes", j.run).run = j.run
        /\ Msg("done", j.run) \in Message /\ Msg("done", j.run).kind = "done"
    BY <2>1, MsgType DEF Kinds, Msg
  <2>3. p = "host" \/ j.run \in started
    BY DEF GuestRuns, Pages
  <2>4. CASE JobSend(p, j)
    BY <1>0, <2>2, <2>3, <2>4, SendOrderly DEF JobSend
  <2>5. CASE JobDone(p, j)
    BY <1>0, <2>2, <2>5, SendOrderly DEF JobDone
  <2>6. CASE JobError(p, j)
    BY <2>1, <2>6, ReportOrderly DEF JobError
  <2> QED
    BY <1>6, <2>4, <2>5, <2>6
<1>7. CASE LinkDown(p)
  BY <1>0, <1>7 DEF LinkDown, TypeInv, Pages
<1> QED
  BY <1>1, <1>2, <1>3, <1>4, <1>5, <1>6, <1>7 DEF WeakStep

\* A step that starts no run and attaches no prover.
LEMMA ReadyKept ==
    ASSUME TypeInv, ReadyInv, started' = started, linked'["host"] => linked["host"],
           \/ Orderly(net["host"], net'["host"])
           \/ ~linked'["host"] /\ net'["host"] = << >>,
           \A p \in Pages : Weakens(page[p], page'[p])
    PROVE  ReadyInv'
<1>1. net["host"] \in Seq(Message)
  BY DEF TypeInv, Pages
<1>2. BytesOfStarted(net["host"])'
  <2>1. CASE Orderly(net["host"], net'["host"])
    BY <1>1, <2>1, OrderlyKeeps DEF ReadyInv, BytesOfStarted
  <2>2. CASE net'["host"] = << >>
    BY <2>2 DEF BytesOfStarted
  <2> QED
    BY <2>1, <2>2
<1>3. GuestRuns'
  <2>1. Weakens(page["guest"], page'["guest"])
    BY DEF Pages
  <2> QED
    BY <2>1 DEF ReadyInv, GuestRuns, Weakens
<1>4. HostWaits'
  <2>1. Weakens(page["host"], page'["host"])
    BY DEF Pages
  <2>2. \A r : linked'["host"] /\ ReadyAhead(net["host"], r) => ReadyAhead(net'["host"], r)
    BY <1>1, OrderlyKeeps DEF ReadyInv
  <2> QED
    BY <2>1, <2>2 DEF ReadyInv, HostWaits, Weakens
<1> QED
  BY <1>2, <1>3, <1>4 DEF ReadyInv

LEMMA ReadyStart ==
    ASSUME TypeInv, ReadyInv, NEW r \in Runs, r \notin started, NEW c \in CountingOf(Job),
           Weakens(page["guest"], c), StartVerifierRun(r, c), linked["guest"],
           UNCHANGED linked
    PROVE  ReadyInv'
<1> DEFINE x == Msg("ready", r)
           n == net["host"]
<1>1. n \in Seq(Message) /\ x \in Message /\ x.kind = "ready"
  BY MsgType DEF TypeInv, Pages, Kinds, Msg
<1>2. net'["host"] = IF linked["host"] THEN Append(n, x) ELSE n
  BY DEF StartVerifierRun, Send, Other, TypeInv, Pages
<1>3. /\ started' = started \cup {r} /\ page'["host"] = page["host"]
      /\ page'["guest"] = AttachRemoteRun(NewRun(c, r), r)
  BY DEF StartVerifierRun, TypeInv, Pages
<1>4. GuestRuns'
  <2>1. /\ page'["guest"].run = r /\ page'["guest"].attached
        /\ page'["guest"].jobs = c.jobs \cup {NewJob(r)}
    BY <1>3 DEF AttachRemoteRun, NewRun, CountingOf, ControllerOf
  <2>2. NewJob(r).run = r
    BY DEF NewJob
  <2> QED
    BY <1>3, <2>1, <2>2 DEF ReadyInv, GuestRuns, Weakens
<1>5. Orderly(n, net'["host"])
  BY <1>1, <1>2 DEF Orderly
<1>6. BytesOfStarted(net["host"])'
  BY <1>1, <1>3, <1>5, OrderlyKeeps DEF ReadyInv, BytesOfStarted
<1>7. HostWaits'
  <2> SUFFICES ASSUME page["host"].run # NoRun, ~page["host"].attached
               PROVE  /\ page["host"].pendingProverReq = page["host"].run
                      /\ linked["host"] /\ page["host"].run \in started'
                           => ReadyAhead(net'["host"], page["host"].run)
    BY <1>3 DEF HostWaits
  <2>1. CASE page["host"].run = r
    BY <1>1, <1>2, <2>1, ReadySent DEF ReadyInv, HostWaits
  <2>2. CASE page["host"].run # r
    BY <1>1, <1>3, <1>5, <2>2, OrderlyKeeps DEF ReadyInv, HostWaits
  <2> QED
    BY <2>1, <2>2
<1> QED
  BY <1>4, <1>6, <1>7 DEF ReadyInv

\* A run that the host proposes has not been started.
LEMMA ReadyPropose ==
    ASSUME TypeInv, ReadyInv, NEW r \in Runs, r \notin started, NEW m \in Message, NEW d,
           page' = [page EXCEPT !["host"] = d], d.run = r, d.pendingProverReq = r,
           net' = Send(net, "host", m), UNCHANGED started
    PROVE  ReadyInv'
<1>1. page'["guest"] = page["guest"] /\ page'["host"] = d /\ net'["host"] = net["host"]
  BY DEF TypeInv, Pages, Send, Other
<1>2. GuestRuns' /\ BytesOfStarted(net["host"])'
  BY <1>1 DEF ReadyInv, GuestRuns, BytesOfStarted
<1>3. HostWaits'
  BY <1>1 DEF HostWaits
<1> QED
  BY <1>2, <1>3 DEF ReadyInv

LEMMA ReadyTaken ==
    ASSUME SafeInv, ReadyInv, ReceiveReady
    PROVE  ReadyInv'
<1> DEFINE n == net["host"]
           c == page["host"]
           d == page'["host"]
<1>1. n \in Seq(Message) /\ n # << >> /\ net'["host"] = Tail(n)
  BY DEF ReceiveReady, Arrives, Taken, SafeInv, TypeInv, Pages
<1>2. page'["guest"] = page["guest"] /\ d = AttachProver(c) /\ started' = started
  BY DEF ReceiveReady, SafeInv, TypeInv, Pages, history
<1>3. BytesOfStarted(net["host"])'
  <2>1. \A i \in DOMAIN Tail(n) : i + 1 \in DOMAIN n /\ Tail(n)[i] = n[i + 1]
    BY <1>1
  <2> QED
    BY <1>1, <1>2, <2>1 DEF ReadyInv, BytesOfStarted
<1>4. HostWaits'
  <2>1. d.run # NoRun => d.attached
    <3>1. CASE c.run # NoRun /\ c.pendingProverReq # NoRun
      BY <1>2, <3>1 DEF AttachProver, AttachRemoteRun, SafeInv, TypeInv, Pages,
                        CountingOf, ControllerOf
    <3>2. CASE ~(c.run # NoRun /\ c.pendingProverReq # NoRun)
      BY <1>2, <3>2 DEF AttachProver, ReadyInv, HostWaits
    <3> QED
      BY <3>1, <3>2
  <2> QED
    BY <2>1 DEF HostWaits
<1> QED
  BY <1>2, <1>3, <1>4 DEF ReadyInv, GuestRuns

LEMMA ReadyInit == Init => ReadyInv
BY DEF Init, Fresh, ReadyInv, GuestRuns, BytesOfStarted, HostWaits, Pages

LEMMA ReadyNext == SafeInv /\ PlacesInv /\ ReadyInv /\ [Next]_vars => ReadyInv'
<1> SUFFICES ASSUME SafeInv, PlacesInv, ReadyInv, [Next]_vars PROVE ReadyInv'
  OBVIOUS
<1> USE DEF hostVars, guestVars, history
<1>0. /\ TypeInv /\ \A p \in Pages : page[p] \in CountingOf(Job) /\ Weakens(page[p], page[p])
      /\ "guest" \in Pages /\ "host" \in Pages /\ Orderly(net["host"], net["host"])
  BY DEF SafeInv, TypeInv, Pages, Weakens, Orderly
<1>1. ASSUME NEW p \in Pages, WeakStep(p) PROVE ReadyInv'
  <2>1. \A q \in Pages : Weakens(page[q], page'[q])
    BY <1>0, <1>1, WeakStepWeakens, OnePage
  <2>2. started' = started
    BY <1>0, <1>1, PassingSteps DEF WeakStep, Passing, ReceivePropose, ReceiveAbort, ClickAbort
  <2>3. linked'["host"] => linked["host"]
    BY <1>1 DEF WeakStep, ClickAbort, ReceivePropose, ReceiveAbort, ReceiveDecline, ReceiveDone,
               ReceiveError, ReceiveBytes, WorkerBroken, JobSend, JobDone, JobError, LinkDown,
               SafeInv, TypeInv, Pages
  <2>4. \/ Orderly(net["host"], net'["host"])
        \/ ~linked'["host"] /\ net'["host"] = << >>
    BY <1>0, <1>1, WeakOrderly DEF ReadyInv
  <2> QED
    BY <1>0, <2>1, <2>2, <2>3, <2>4, ReadyKept
<1>2. CASE UNCHANGED <<page, linked, started>> /\ Orderly(net["host"], net'["host"])
  BY <1>0, <1>2, ReadyKept
<1>3. CASE ClickProve
  <2> DEFINE r == asked + 1
  <2>1. /\ r \in Runs /\ r \in Unsent /\ UNCHANGED <<linked, started>>
    BY <1>3 DEF ClickProve, Unsent, SafeInv, TypeInv
  <2>2. r \notin started
    BY <2>1 DEF PlacesInv, OnePlace
  <2>3. CASE r \in Sourced
    <3>1. net' = net /\ page' = [page EXCEPT !["host"].button = "running"]
      BY <1>3, <2>3 DEF ClickProve
    <3>2. \A p \in Pages : Weakens(page[p], page'[p])
      BY <1>0, <3>1 DEF Weakens, TypeInv, Pages, CountingOf, ControllerOf
    <3> QED
      BY <1>0, <2>1, <3>1, <3>2, ReadyKept
  <2>4. CASE r \notin Sourced
    <3> DEFINE d == [Propose(page["host"], r) EXCEPT !.button = "running"]
    <3>1. page' = [page EXCEPT !["host"] = d] /\ net' = Send(net, "host", Msg("propose", r))
      BY <1>3, <2>4 DEF ClickProve
    <3>2. d.run = r /\ d.pendingProverReq = r
      BY <1>0 DEF Propose, NewRun, CountingOf, ControllerOf
    <3>3. Msg("propose", r) \in Message
      BY <2>1, MsgType DEF Kinds
    <3> QED
      BY <1>0, <2>1, <2>2, <3>1, <3>2, <3>3, ReadyPropose
  <2> QED
    BY <2>3, <2>4
<1>4. ASSUME NEW r \in hashing, HashDone(r) PROVE ReadyInv'
  <2> DEFINE d == Propose(page["host"], r)
  <2>1. r \in Runs /\ r \notin started /\ Msg("propose", r) \in Message
    BY MsgType DEF SafeInv, TypeInv, PlacesInv, OnePlace, Unsent, Kinds
  <2>2. d.run = r /\ d.pendingProverReq = r
    BY <1>0 DEF Propose, NewRun, CountingOf, ControllerOf
  <2> QED
    BY <1>0, <1>4, <2>1, <2>2, ReadyPropose DEF HashDone
<1>5. CASE ReceiveReady
  BY <1>5, ReadyTaken
<1>6. CASE DeclineRun
  <2>1. Msg("decline", pendingProposal) \in Message /\ Msg("decline", pendingProposal).kind = "decline"
    BY <1>6, MsgType DEF DeclineRun, SafeInv, TypeInv, MaybeRun, Kinds, Msg
  <2> QED
    BY <1>0, <1>2, <1>6, <2>1, SendOrderly DEF DeclineRun
<1>7. ASSUME NEW r \in compiling, CompileRefused(r) PROVE ReadyInv'
  <2>1. Msg("error", r) \in Message /\ Msg("error", r).kind = "error"
    BY MsgType DEF SafeInv, TypeInv, Kinds, Msg
  <2> QED
    BY <1>0, <1>2, <1>7, <2>1, SendOrderly DEF CompileRefused
<1>8. ASSUME NEW r \in compiling, CompileOk(r) PROVE ReadyInv'
  <2>1. r \in Runs /\ r \notin started
    BY DEF SafeInv, TypeInv, PlacesInv, OnePlace
  <2> QED
    BY <1>0, <1>2, <1>8, <2>1, ReadyStart DEF CompileOk
<1>9. ASSUME NEW r \in Runs, r \in OnScreen \cup Kept, linked["guest"], NEW c \in CountingOf(Job),
             Weakens(page["guest"], c), ProceedAccept(r, c), UNCHANGED linked
      PROVE  ReadyInv'
  <2>1. r \notin started
    BY <1>9 DEF PlacesInv, OnePlace
  <2>2. CASE StartVerifierRun(r, c)
    BY <1>0, <1>9, <2>1, <2>2, ReadyStart
  <2>3. CASE page' = [page EXCEPT !["guest"] = c] /\ UNCHANGED <<net, started>>
    <3>1. \A p \in Pages : Weakens(page[p], page'[p])
      BY <1>0, <1>9, <2>3, OnePage
    <3> QED
      BY <1>0, <1>9, <2>3, <3>1, ReadyKept
  <2> QED
    BY <1>9, <2>2, <2>3 DEF ProceedAccept
<1>10. CASE AcceptRun
  <2>1. /\ pendingProposal \in Runs /\ pendingProposal \in OnScreen /\ linked["guest"]
        /\ UNCHANGED linked
    BY <1>10 DEF AcceptRun, SafeInv, TypeInv, MaybeRun, OnScreen
  <2>2. CASE ProceedAccept(pendingProposal, page["guest"])
    BY <1>0, <1>9, <2>1, <2>2
  <2>3. CASE UNCHANGED <<page, net, started>>
    BY <1>0, <1>2, <2>1, <2>3
  <2> QED
    BY <1>10, <2>2, <2>3 DEF AcceptRun
<1>11. ASSUME NEW p \in Pages, NEW role \in Roles, WorkerReady(p, role) PROVE ReadyInv'
  <2> DEFINE c == WorkerUp(page[p], role, IF linked[p] THEN "idle" ELSE "waiting")
  <2>1. c \in CountingOf(Job) /\ Weakens(page[p], c)
    <3>1. c \in CountingOf(Job)
      BY <1>0, <1>11, WorkerUpType DEF WorkerReady, Buttons
    <3>2. Weakens(page[p], c)
      BY <1>0 DEF WorkerUp, Weakens, CountingOf, ControllerOf
    <3> QED
      BY <3>1, <3>2
  <2>2. UNCHANGED linked
    BY <1>11 DEF WorkerReady
  <2> HIDE DEF c
  <2>3. CASE p = "guest" /\ acceptedPending # NoRun /\ ProceedAccept(acceptedPending, c)
    <3>1. acceptedPending \in Runs /\ acceptedPending \in Kept /\ linked["guest"]
      BY <2>3 DEF SafeInv, TypeInv, MaybeRun, Kept, NoUnlinkedRun
    <3> QED
      BY <1>9, <2>1, <2>2, <2>3, <3>1
  <2>4. CASE page' = [page EXCEPT ![p] = c] /\ UNCHANGED <<net, started>>
    <3>1. \A q \in Pages : Weakens(page[q], page'[q])
      BY <1>0, <2>1, <2>4, OnePage
    <3> QED
      BY <1>0, <2>2, <2>4, <3>1, ReadyKept
  <2> QED
    BY <1>11, <2>3, <2>4 DEF WorkerReady, c
<1>12. CASE UNCHANGED vars
  BY <1>0, <1>2, <1>12 DEF vars
<1>13. ASSUME NEW p \in Pages, Receive(p) PROVE WeakStep(p) \/ ReceiveReady
  BY <1>13 DEF Receive, WeakStep
<1> QED
  BY <1>0, <1>1, <1>3, <1>4, <1>5, <1>6, <1>7, <1>8, <1>10, <1>11, <1>12, <1>13
     DEF Next, Compiled, WorkerStep, WeakStep

\* In every environment a page is attached before bytes of its run reach it: the
\* verifier is from its start, and the `ready` that attaches the prover is sent
\* before any byte.
THEOREM NoEarlyBytesHolds == Spec => []NoEarlyBytes
<1>1. TypeInv /\ ReadyInv => NoEarlyBytes
  <2> SUFFICES ASSUME TypeInv, ReadyInv, NEW p \in Pages, Arrives(p, "bytes"),
                      Head(net[p]).run = page[p].run
               PROVE  page[p].attached
    BY DEF NoEarlyBytes
  <2>1. /\ net[p] \in Seq(Message) /\ net[p] # << >> /\ net[p][1] = Head(net[p])
        /\ 1 \in DOMAIN net[p] /\ Head(net[p]).kind = "bytes" /\ linked[p]
    BY DEF Arrives, TypeInv
  <2>2. Head(net[p]) = Msg("bytes", page[p].run) /\ page[p].run # NoRun
    <3>1. Head(net[p]) \in Message
      BY <2>1
    <3>2. Head(net[p]).run \in Runs
      BY <3>1 DEF Message
    <3> QED
      BY <2>1, <3>1, <3>2, RunFacts DEF Message, Msg
  <2>3. CASE p = "guest"
    BY <2>2, <2>3 DEF ReadyInv, GuestRuns
  <2>4. CASE p = "host"
    <3>1. page["host"].run \in started
      BY <2>1, <2>4 DEF ReadyInv, BytesOfStarted
    <3> SUFFICES ASSUME ~page["host"].attached PROVE FALSE
      BY <2>4
    <3>2. ReadyAhead(net["host"], page["host"].run)
      BY <2>1, <2>2, <2>4, <3>1 DEF ReadyInv, HostWaits
    <3>3. PICK k \in DOMAIN net["host"] :
            \A i \in 1..k : net["host"][i] # Msg("bytes", page["host"].run)
      BY <3>2 DEF ReadyAhead
    <3>4. 1 \in 1..k
      BY <2>1, <2>4, <3>3
    <3> QED
      BY <2>1, <2>2, <2>4, <3>3, <3>4
  <2> QED
    BY <2>3, <2>4 DEF Pages
<1>2. SafeInv => TypeInv
  BY DEF SafeInv
<1> QED
  BY <1>1, <1>2, SafeInit, SafeNext, PlacesInit, PlacesNext, ReadyInit, ReadyNext, PTL DEF Spec

-----------------------------------------------------------------------------
(* Workers that are up, and the Prove button.                              *)

HasBroken(c) == \E role \in Roles : c.worker[role] = "broken"

\* A click may start a run, one is on, or one is being computed.
Active(c) == c.button \notin Disabled \/ c.run # NoRun \/ c.jobs # {}

\* The verifier is only set up with both workers up, and while the host is active
\* both of its workers are up.
WorkersInv ==
    /\ \A j \in page["guest"].jobs : j.run \notin Sourced => page["guest"].nReady = 2
    /\ NoSourceSent /\ ~HasBroken(page["host"]) /\ Active(page["host"])
         => page["host"].nReady = 2

\* A run that is not of a source lives as long as the link at most, and its
\* button is enabled.
ButtonInv ==
    LET c == page["host"]
    IN  c.run # NoRun /\ c.run \notin Sourced => linked["host"] /\ c.button \notin Disabled

\* With a link and both of its workers the host's button is enabled.
EnabledInv ==
    LET c == page["host"]
    IN  linked["host"] /\ c.nReady = 2 => c.button \notin Disabled

\* What the steps do that start nothing: they reset the page, or end its run, or
\* leave its run, button and workers as they are.
Settles(c, d) ==
    /\ d.run # NoRun => d.run = c.run /\ d.button = c.button
    /\ \/ d.jobs = {} /\ ~Active(d)
       \/ /\ d.nReady = c.nReady /\ (HasBroken(c) => HasBroken(d))
          /\ \A j \in d.jobs : \E k \in c.jobs : k.run = j.run
          /\ Active(d) => Active(c) \/ HasBroken(d)

LEMMA FailSettles ==
    ASSUME NEW c \in CountingOf(Job)
    PROVE  Settles(c, FailRun(c))
BY DEF Settles, FailRun, EndRun, Active, HasBroken, CountingOf, ControllerOf

LEMMA AbortSettles ==
    ASSUME NEW c \in CountingOf(Job)
    PROVE  Settles(c, Abort(c))
BY DEF Settles, Abort, Fresh, Active, HasBroken, CountingOf, ControllerOf, Disabled

LEMMA RecordSettles ==
    ASSUME NEW c \in CountingOf(Job), NEW role \in Roles, NEW r \in Runs,
           NEW d \in RecordResult(c, role, r)
    PROVE  Settles(c, d)
<1> DEFINE res == [c.results EXCEPT ![role] = r]
<1>1. Settles(c, c) /\ Settles(c, [c EXCEPT !.results = res])
  BY DEF Settles, Active, HasBroken, CountingOf, ControllerOf
<1>2. c.run # NoRun => \A ok \in BOOLEAN : Settles(c, FinishRun(c, res, ok))
  BY DEF Settles, Active, HasBroken, FinishRun, EndRun, CountingOf, ControllerOf
<1> QED
  BY <1>1, <1>2 DEF RecordResult

LEMMA ProtocolSettles ==
    ASSUME NEW c \in CountingOf(Job), NEW r \in Runs
    PROVE  Settles(c, OnRemoteProtocol(c, r))
<1>1. CASE ~c.attached
  BY <1>1 DEF Settles, OnRemoteProtocol
<1>2. CASE c.attached
  <2> DEFINE Feed(j) == [j EXCEPT !.got = IF r = j.run /\ @ # "foreign"
                                          THEN "own" ELSE "foreign"]
             jobs == {IF j.run = c.run THEN Feed(j) ELSE j : j \in c.jobs}
             d == [c EXCEPT !.jobs = jobs]
  <2>1. \A j \in c.jobs : Feed(j).run = j.run
    BY DEF CountingOf, ControllerOf, Job
  <2>2. \A j \in jobs : \E k \in c.jobs : k.run = j.run
    BY <2>1
  <2>3. OnRemoteProtocol(c, r) = d
    BY <1>2 DEF OnRemoteProtocol
  <2>4. /\ d.run = c.run /\ d.button = c.button /\ d.nReady = c.nReady
        /\ d.worker = c.worker /\ d.jobs = jobs
    BY DEF CountingOf, ControllerOf
  <2>5. jobs # {} => c.jobs # {}
    OBVIOUS
  <2> QED
    BY <2>2, <2>3, <2>4, <2>5 DEF Settles, Active, HasBroken
<1> QED
  BY <1>1, <1>2

\* A worker's error, where it is that of a job or that of a broken worker.
LEMMA ErrorSettles ==
    ASSUME NEW c \in CountingOf(Job), NEW d \in CountingOf(Job),
           d.run = c.run, d.nReady = c.nReady, HasBroken(c) => HasBroken(d),
           d.jobs \subseteq c.jobs, Active(c) \/ HasBroken(d)
    PROVE  Settles(c, WorkerError(d))
<1>1. CASE d.run = NoRun
  BY <1>1 DEF WorkerError, Settles, HasBroken, CountingOf, ControllerOf
<1>2. CASE d.run # NoRun
  BY <1>2 DEF WorkerError, FailRun, EndRun, Settles, HasBroken, CountingOf, ControllerOf
<1> QED
  BY <1>1, <1>2

LEMMA WeakStepSettles ==
    ASSUME TypeInv, NEW p \in Pages, WeakStep(p)
    PROVE  Settles(page[p], page'[p])
<1> USE DEF TypeInv
<1>0. page[p] \in CountingOf(Job) /\ Settles(page[p], page[p])
  BY DEF Settles
<1>1. CASE p = "host" /\ ClickAbort
  BY <1>0, <1>1, AbortSettles DEF ClickAbort
<1>2. CASE p = "guest" /\ ReceivePropose
  BY <1>0, <1>2 DEF ReceivePropose
<1>3. CASE p = "guest" /\ ReceiveAbort
  BY <1>0, <1>3, AbortSettles DEF ReceiveAbort
<1>4. CASE p = "host" /\ ReceiveDecline
  BY <1>0, <1>4, FailSettles DEF ReceiveDecline
<1>5. CASE ReceiveDone(p)
  <2>1. RoleOf(Other(p)) \in Roles /\ Head(net[p]).run \in Runs
    BY <1>5, TakenType DEF ReceiveDone, RoleOf, Roles
  <2> QED
    BY <1>0, <1>5, <2>1, RecordSettles DEF ReceiveDone
<1>6. CASE ReceiveError(p)
  BY <1>0, <1>6, FailSettles DEF ReceiveError
<1>7. CASE ReceiveBytes(p)
  BY <1>0, <1>7, TakenType, ProtocolSettles DEF ReceiveBytes
<1>8. ASSUME NEW role \in Roles, WorkerBroken(p, role)
      PROVE  Settles(page[p], page'[p])
  <2> DEFINE d == [page[p] EXCEPT !.worker[role] = "broken"]
  <2>1. d \in CountingOf(Job) /\ page'[p] = WorkerError(d)
    BY <1>0, <1>8, WorkerBrokenType DEF WorkerBroken, ReportError
  <2>2. /\ d.run = page[p].run /\ d.nReady = page[p].nReady /\ d.jobs = page[p].jobs
        /\ HasBroken(d)
    BY <1>0 DEF HasBroken, CountingOf, ControllerOf
  <2> QED
    BY <1>0, <2>1, <2>2, ErrorSettles
<1>9. ASSUME NEW j \in page[p].jobs,
             JobSend(p, j) \/ JobDone(p, j) \/ JobError(p, j)
      PROVE  Settles(page[p], page'[p])
  <2> DEFINE d == Without(p, j)
  <2>1. j \in Job /\ j.run \in Runs /\ RoleOf(p) \in Roles /\ Active(page[p])
    BY <1>0 DEF CountingOf, ControllerOf, Job, RoleOf, Roles, Active
  <2>2. /\ d \in CountingOf(Job) /\ d.run = page[p].run /\ d.nReady = page[p].nReady
        /\ d.jobs \subseteq page[p].jobs /\ d.worker = page[p].worker
        /\ d.button = page[p].button
    BY <1>0 DEF Without, CountingOf, ControllerOf, Loaded
  <2> HIDE DEF d
  <2>3. CASE JobSend(p, j)
    <3> DEFINE e == [page[p] EXCEPT !.jobs = (@ \ {j}) \cup {[j EXCEPT !.sent = TRUE]}]
    <3>1. [j EXCEPT !.sent = TRUE].run = j.run
      BY <2>1 DEF Job
    <3>2. Settles(page[p], e)
      BY <1>0, <2>1, <3>1 DEF Settles, HasBroken, CountingOf, ControllerOf
    <3> QED
      BY <2>3, <3>2 DEF JobSend
  <2>4. CASE JobDone(p, j)
    <3>1. PICK c \in RecordResult(d, RoleOf(p), j.run) : page' = [page EXCEPT ![p] = c]
      BY <2>4 DEF JobDone, d
    <3>2. Settles(d, c)
      BY <2>1, <2>2, <3>1, RecordSettles
    <3>3. Settles(page[p], c)
      BY <2>1, <2>2, <3>2 DEF Settles, HasBroken
    <3> QED
      BY <3>1, <3>3
  <2>5. CASE JobError(p, j)
    <3>1. page'[p] = WorkerError(d)
      BY <2>5 DEF JobError, ReportError, d
    <3>2. HasBroken(page[p]) => HasBroken(d)
      BY <2>2 DEF HasBroken
    <3> QED
      BY <1>0, <2>1, <2>2, <3>1, <3>2, ErrorSettles
  <2> QED
    BY <1>9, <2>3, <2>4, <2>5
<1>10. CASE LinkDown(p)
  <2>1. page[p].run = NoRun => \A b \in Disabled : Settles(page[p], [page[p] EXCEPT !.button = b])
    BY <1>0 DEF Settles, Active, HasBroken, CountingOf, ControllerOf
  <2> QED
    BY <1>0, <1>10, <2>1, AbortSettles DEF LinkDown, Disabled
<1> QED
  BY <1>1, <1>2, <1>3, <1>4, <1>5, <1>6, <1>7, <1>8, <1>9, <1>10 DEF WeakStep

\* A source is hashed first: only sources are.
HashedSources == hashing \subseteq Sourced

\* Once the proposal of a source is out, it stays out.
LEMMA SourceStaysSent ==
    ASSUME SafeInv, HashedSources, [Next]_vars
    PROVE  /\ HashedSources'
           /\ NoSourceSent' => NoSourceSent
           /\ \A r \in hashing : HashDone(r) => ~NoSourceSent'
<1> USE DEF hostVars, guestVars, history
<1>0. asked \in Nat /\ \A r \in hashing : r \in 1..asked
  BY MaxRunsAssumption DEF SafeInv, TypeInv, HostInv, HostIds, Runs
<1>1. CASE ClickProve
  <2>1. asked' = asked + 1 /\ hashing' = IF asked + 1 \in Sourced THEN hashing \cup {asked + 1}
                                         ELSE hashing
    BY <1>1 DEF ClickProve
  <2>2. HashedSources' /\ (NoSourceSent' => NoSourceSent)
    BY <1>0, <2>1 DEF HashedSources, NoSourceSent
  <2>3. \A r \in hashing : ~HashDone(r)
    BY <1>0, <2>1 DEF HashDone
  <2> QED
    BY <2>2, <2>3
<1>2. ASSUME NEW r \in hashing, HashDone(r)
      PROVE  HashedSources' /\ ~NoSourceSent'
  BY <1>0, <1>2 DEF HashDone, HashedSources, NoSourceSent
<1>3. CASE UNCHANGED <<asked, hashing>>
  BY <1>3, <1>2 DEF HashedSources, NoSourceSent
<1>4. ASSUME NEW p \in Pages, Receive(p) \/ WorkerStep(p) \/ LinkDown(p)
      PROVE  UNCHANGED <<asked, hashing>>
  BY <1>4 DEF Receive, ReceivePropose, ReceiveAbort, ReceiveReady, ReceiveDecline, ReceiveDone,
              ReceiveError, ReceiveBytes, WorkerStep, WorkerReady, WorkerBroken, JobSend, JobDone,
              JobError, LinkDown
<1>5. ClickAbort \/ AcceptRun \/ DeclineRun \/ Compiled \/ UNCHANGED vars
        => UNCHANGED <<asked, hashing>>
  BY DEF ClickAbort, AcceptRun, DeclineRun, Compiled, CompileOk, CompileRefused, vars
<1> QED
  BY <1>1, <1>2, <1>3, <1>4, <1>5 DEF Next

\* A worker that comes up makes a page active only with the other one up.
LEMMA UpWorkers ==
    ASSUME NEW c \in CountingOf(Job), NEW role \in Roles, c.worker[role] = "loading",
           NEW look \in Buttons
    PROVE  LET d == WorkerUp(c, role, look)
           IN  /\ c.nReady # 2 /\ d.run = c.run /\ d.jobs = c.jobs
               /\ HasBroken(c) => HasBroken(d)
               /\ d.nReady = 2 \/ (Active(d) => Active(c))
               /\ d.button \in {c.button, look}
<1> DEFINE d == WorkerUp(c, role, look)
<1>1. /\ d.run = c.run /\ d.jobs = c.jobs /\ d.nReady = c.nReady + 1
      /\ d.worker = [c.worker EXCEPT ![role] = "up"]
      /\ d.button = IF c.nReady = 1 THEN look ELSE c.button
  BY DEF WorkerUp, CountingOf, ControllerOf
<1>2. c.nReady # 2 /\ c.nReady \in 0..2
  BY DEF CountingOf, ControllerOf, Loaded, Roles
<1>3. HasBroken(c) => HasBroken(d)
  BY <1>1 DEF HasBroken, CountingOf, ControllerOf
<1> QED
  BY <1>1, <1>2, <1>3 DEF Active

\* What the guest is left with when proceedAccept has both workers up, or a source.
LEMMA ProceedWorkers ==
    ASSUME TypeInv, NEW r \in Runs, NEW c \in CountingOf(Job), r \in Sourced \/ c.nReady = 2,
           \A j \in c.jobs : j.run \notin Sourced => c.nReady = 2,
           \/ StartVerifierRun(r, c)
           \/ page' = [page EXCEPT !["guest"] = c]
    PROVE  /\ page'["host"] = page["host"]
           /\ \A j \in page'["guest"].jobs : j.run \notin Sourced => page'["guest"].nReady = 2
<1>1. CASE StartVerifierRun(r, c)
  <2> DEFINE d == AttachRemoteRun(NewRun(c, r), r)
  <2>1. d.jobs = c.jobs \cup {NewJob(r)} /\ d.nReady = c.nReady /\ NewJob(r).run = r
    BY DEF AttachRemoteRun, NewRun, NewJob, CountingOf, ControllerOf
  <2>2. page'["guest"] = d /\ page'["host"] = page["host"]
    BY <1>1 DEF StartVerifierRun, TypeInv, Pages
  <2> QED
    BY <2>1, <2>2
<1>2. CASE page' = [page EXCEPT !["guest"] = c]
  BY <1>2 DEF TypeInv, Pages
<1> QED
  BY <1>1, <1>2

LEMMA WorkersInit == Init => WorkersInv /\ HashedSources
BY DEF Init, Fresh, WorkersInv, HashedSources, Active, Disabled, Pages

\* A worker that comes up; the verifier may start with it.
LEMMA WorkerReadyWorkers ==
    ASSUME TypeInv, WorkersInv, NoSourceSent' => NoSourceSent,
           NEW p \in Pages, NEW role \in Roles, WorkerReady(p, role)
    PROVE  WorkersInv'
<1> DEFINE look == IF linked[p] THEN "idle" ELSE "waiting"
           d == WorkerUp(page[p], role, look)
<1>1. /\ page[p] \in CountingOf(Job) /\ page[p].worker[role] = "loading" /\ look \in Buttons
      /\ d \in CountingOf(Job)
  BY WorkerUpType DEF TypeInv, WorkerReady, Buttons
<1>2. /\ page[p].nReady # 2 /\ d.run = page[p].run /\ d.jobs = page[p].jobs
      /\ HasBroken(page[p]) => HasBroken(d)
      /\ d.nReady = 2 \/ (Active(d) => Active(page[p]))
  BY <1>1, UpWorkers
<1> HIDE DEF d
<1>3. CASE p = "guest"
  <2>1. \A j \in d.jobs : j.run \notin Sourced => d.nReady = 2
    BY <1>2, <1>3 DEF WorkersInv
  <2>2. CASE d.nReady = 2 /\ acceptedPending # NoRun /\ ProceedAccept(acceptedPending, d)
    <3>1. acceptedPending \in Runs
      BY <2>2 DEF TypeInv, MaybeRun
    <3>2. /\ page'["host"] = page["host"]
          /\ \A j \in page'["guest"].jobs : j.run \notin Sourced => page'["guest"].nReady = 2
      BY <1>1, <2>1, <2>2, <3>1, ProceedWorkers DEF ProceedAccept
    <3> QED
      BY <3>2 DEF WorkersInv
  <2>3. CASE page' = [page EXCEPT ![p] = d]
    <3>1. page'["host"] = page["host"] /\ page'["guest"] = d
      BY <1>3, <2>3 DEF TypeInv, Pages
    <3> QED
      BY <2>1, <3>1 DEF WorkersInv
  <2> QED
    BY <1>3, <2>2, <2>3 DEF WorkerReady, d
<1>4. CASE p = "host"
  <2>1. page'["host"] = d /\ page'["guest"] = page["guest"]
    BY <1>4 DEF WorkerReady, TypeInv, Pages, d
  <2> QED
    BY <1>2, <1>4, <2>1 DEF WorkersInv
<1> QED
  BY <1>3, <1>4 DEF Pages

LEMMA WorkersNext ==
    SafeInv /\ PlacesInv /\ WorkersInv /\ HashedSources /\ [Next]_vars
      => WorkersInv' /\ HashedSources'
<1> SUFFICES ASSUME SafeInv, PlacesInv, WorkersInv, HashedSources, [Next]_vars
             PROVE  WorkersInv'
  BY SourceStaysSent
<1> USE DEF hostVars, guestVars, history
<1>0. /\ TypeInv /\ \A p \in Pages : page[p] \in CountingOf(Job)
      /\ "guest" \in Pages /\ "host" \in Pages
      /\ NoSourceSent' => NoSourceSent
  BY SourceStaysSent DEF SafeInv, TypeInv, Pages
<1>1. ASSUME NEW p \in Pages, WeakStep(p) PROVE WorkersInv'
  <2>1. Settles(page[p], page'[p]) /\ \A q \in Pages \ {p} : page'[q] = page[q]
    BY <1>0, <1>1, WeakStepSettles, WeakStepWeakens, OnePage
  <2>2. CASE p = "host"
    <3>1. page'["guest"] = page["guest"]
      BY <1>0, <2>1, <2>2
    <3> QED
      BY <1>0, <2>1, <2>2, <3>1 DEF WorkersInv, Settles
  <2>3. CASE p = "guest"
    <3>1. page'["host"] = page["host"]
      BY <1>0, <2>1, <2>3
    <3>2. \A j \in page'["guest"].jobs : j.run \notin Sourced => page'["guest"].nReady = 2
      BY <2>1, <2>3 DEF WorkersInv, Settles
    <3> QED
      BY <1>0, <3>1, <3>2 DEF WorkersInv
  <2> QED
    BY <2>2, <2>3 DEF Pages
<1>2. CASE UNCHANGED page
  BY <1>0, <1>2 DEF WorkersInv
<1>3. ASSUME NEW d, page' = [page EXCEPT !["host"] = d], d.nReady = page["host"].nReady,
             d.worker = page["host"].worker, Active(page["host"]) \/ ~NoSourceSent'
      PROVE  WorkersInv'
  <2>1. page'["host"] = d /\ page'["guest"] = page["guest"]
    BY <1>0, <1>3 DEF TypeInv
  <2> QED
    BY <1>0, <1>3, <2>1 DEF WorkersInv, HasBroken
<1>4. CASE ClickProve
  <2> DEFINE r == asked + 1
             d == IF r \in Sourced THEN [page["host"] EXCEPT !.button = "running"]
                  ELSE [Propose(page["host"], r) EXCEPT !.button = "running"]
  <2>1. page' = [page EXCEPT !["host"] = d]
    BY <1>4 DEF ClickProve
  <2>2. d.nReady = page["host"].nReady /\ d.worker = page["host"].worker
    BY <1>0 DEF Propose, NewRun, CountingOf, ControllerOf
  <2>3. Active(page["host"])
    BY <1>4 DEF ClickProve, Active
  <2> QED
    BY <1>3, <2>1, <2>2, <2>3
<1>5. ASSUME NEW r \in hashing, HashDone(r) PROVE WorkersInv'
  <2> DEFINE d == Propose(page["host"], r)
  <2>1. d.nReady = page["host"].nReady /\ d.worker = page["host"].worker
    BY <1>0 DEF Propose, NewRun, CountingOf, ControllerOf
  <2>2. ~NoSourceSent'
    BY <1>5, SourceStaysSent
  <2> QED
    BY <1>3, <1>5, <2>1, <2>2 DEF HashDone
<1>6. CASE ReceiveReady
  <2> DEFINE c == page["host"]
             d == AttachProver(c)
  <2>1. page' = [page EXCEPT !["host"] = d]
    BY <1>6 DEF ReceiveReady
  <2>2. CASE c.run # NoRun /\ c.pendingProverReq # NoRun
    <3>1. d.nReady = c.nReady /\ d.worker = c.worker
      BY <1>0, <2>2 DEF AttachProver, AttachRemoteRun, CountingOf, ControllerOf
    <3> QED
      BY <1>3, <2>1, <2>2, <3>1 DEF Active
  <2>3. CASE ~(c.run # NoRun /\ c.pendingProverReq # NoRun)
    BY <1>0, <1>2, <2>1, <2>3 DEF AttachProver, TypeInv
  <2> QED
    BY <2>2, <2>3
<1>7. ASSUME NEW r \in Runs, r \in Sourced \/ page["guest"].nReady = 2,
             \/ StartVerifierRun(r, page["guest"])
             \/ page' = [page EXCEPT !["guest"] = page["guest"]]
      PROVE  WorkersInv'
  BY <1>0, <1>7, ProceedWorkers DEF WorkersInv
<1>8. CASE AcceptRun
  <2>1. pendingProposal \in Runs
    BY <1>0, <1>8 DEF AcceptRun, TypeInv, MaybeRun
  <2>2. CASE page["guest"].nReady < 2
    BY <1>2, <1>8, <2>2 DEF AcceptRun
  <2>3. CASE ~(page["guest"].nReady < 2)
    <3>1. page["guest"].nReady = 2
      BY <1>0, <2>3 DEF CountingOf, ControllerOf
    <3> QED
      BY <1>7, <1>8, <2>1, <2>3, <3>1 DEF AcceptRun, ProceedAccept
  <2> QED
    BY <2>2, <2>3
<1>9. ASSUME NEW r \in compiling, CompileOk(r) PROVE WorkersInv'
  BY <1>0, <1>2, <1>7, <1>9 DEF CompileOk, PlacesInv, TypeInv
<1>10. ASSUME NEW p \in Pages, NEW role \in Roles, WorkerReady(p, role) PROVE WorkersInv'
  BY <1>0, <1>10, WorkerReadyWorkers
<1>11. DeclineRun \/ (\E r \in compiling : CompileRefused(r)) \/ UNCHANGED vars => UNCHANGED page
  BY DEF DeclineRun, CompileRefused, vars
<1>12. ASSUME NEW p \in Pages, Receive(p) PROVE WeakStep(p) \/ ReceiveReady
  BY <1>12 DEF Receive, WeakStep
<1> QED
  BY <1>0, <1>1, <1>2, <1>4, <1>5, <1>6, <1>8, <1>9, <1>10, <1>11, <1>12
     DEF Next, Compiled, WorkerStep, WeakStep

\* In every environment the verifier is handed runs only when both workers are
\* up, but for the run of a source; and so is the prover, until the proposal of a
\* source is sent.
THEOREM RequestsWaitForWorkersHolds == Spec => []RequestsWaitForWorkers
<1>1. TypeInv /\ WorkersInv => RequestsWaitForWorkers
  <2> SUFFICES ASSUME TypeInv, WorkersInv PROVE RequestsWaitForWorkers
    OBVIOUS
  <2>1. \A p \in Pages : page[p].nReady = 2 => \A role \in Roles : page[p].worker[role] = "up"
    BY DEF TypeInv, CountingOf, ControllerOf, Loaded, Roles
  <2>2. "host" \in Pages /\ "guest" \in Pages
    BY DEF Pages
  <2>3. page["host"].jobs # {} => Active(page["host"])
    BY DEF Active
  <2> QED
    BY <2>1, <2>2, <2>3 DEF WorkersInv, RequestsWaitForWorkers, Broken, HasBroken
<1>2. SafeInv => TypeInv
  BY DEF SafeInv
<1> QED
  BY <1>1, <1>2, SafeInit, SafeNext, PlacesInit, PlacesNext, WorkersInit, WorkersNext, PTL DEF Spec

LEMMA ButtonInit == Init => ButtonInv
BY DEF Init, Fresh, ButtonInv, Pages

LEMMA ButtonNext == SafeInv /\ HashedSources /\ ButtonInv /\ [Next]_vars => ButtonInv'
<1> SUFFICES ASSUME SafeInv, HashedSources, ButtonInv, [Next]_vars PROVE ButtonInv'
  OBVIOUS
<1> USE DEF hostVars, guestVars, history
<1>0. /\ TypeInv /\ \A p \in Pages : page[p] \in CountingOf(Job)
      /\ "guest" \in Pages /\ "host" \in Pages /\ "guest" # "host"
  BY DEF SafeInv, TypeInv, Pages
<1>1. CASE /\ page'["host"].run = page["host"].run
           /\ page'["host"].button = page["host"].button
           /\ linked'["host"] = linked["host"]
  BY <1>1 DEF ButtonInv
<1>2. ASSUME NEW p \in Pages, WeakStep(p) PROVE ButtonInv'
  <2>1. Settles(page[p], page'[p]) /\ \A q \in Pages \ {p} : page'[q] = page[q]
    BY <1>0, <1>2, WeakStepSettles, WeakStepWeakens, OnePage
  <2>2. CASE p = "guest"
    <3>1. linked'["host"] = linked["host"]
      BY <1>0, <1>2, <2>2 DEF WeakStep, ReceivePropose, ReceiveAbort, ReceiveDone, ReceiveError,
         ReceiveBytes, WorkerBroken, JobSend, JobDone, JobError, LinkDown, TypeInv
    <3> QED
      BY <1>0, <1>1, <2>1, <2>2, <3>1
  <2>3. CASE p = "host"
    <3> SUFFICES ASSUME page'["host"].run # NoRun, page'["host"].run \notin Sourced
                 PROVE  linked'["host"] /\ page'["host"].button \notin Disabled
      BY DEF ButtonInv
    <3>1. page'["host"].run = page["host"].run /\ page'["host"].button = page["host"].button
      BY <2>1, <2>3 DEF Settles
    <3>2. ~LinkDown("host")
      <4>1. Abort(page["host"]).run = NoRun \/ page["host"].run = NoRun
        BY DEF Abort, Fresh
      <4> QED
        BY <1>0, <3>1, <4>1 DEF LinkDown, TypeInv
    <3>3. linked' = linked
      BY <1>2, <2>3, <3>2 DEF WeakStep, ClickAbort, ReceiveDecline, ReceiveDone, ReceiveError,
         ReceiveBytes, WorkerBroken, JobSend, JobDone, JobError
    <3> QED
      BY <3>1, <3>3 DEF ButtonInv
  <2> QED
    BY <2>2, <2>3 DEF Pages
<1>3. CASE ClickProve
  <2> DEFINE r == asked + 1
             d == IF r \in Sourced THEN [page["host"] EXCEPT !.button = "running"]
                  ELSE [Propose(page["host"], r) EXCEPT !.button = "running"]
  <2>1. page' = [page EXCEPT !["host"] = d] /\ linked["host"] /\ linked' = linked
    BY <1>3 DEF ClickProve
  <2>2. d.button = "running"
    BY <1>0 DEF Propose, NewRun, CountingOf, ControllerOf
  <2> QED
    BY <1>0, <2>1, <2>2, OnePage DEF ButtonInv, Disabled
<1>4. ASSUME NEW r \in hashing, HashDone(r) PROVE ButtonInv'
  <2>1. page'["host"].run = r
    BY <1>0, <1>4 DEF HashDone, Propose, NewRun, TypeInv, CountingOf, ControllerOf
  <2> QED
    BY <2>1 DEF HashedSources, ButtonInv
<1>5. CASE ReceiveReady
  <2>1. page'["host"] = AttachProver(page["host"]) /\ linked' = linked
    BY <1>0, <1>5 DEF ReceiveReady, TypeInv
  <2>2. /\ AttachProver(page["host"]).run = page["host"].run
        /\ AttachProver(page["host"]).button = page["host"].button
    BY <1>0 DEF AttachProver, AttachRemoteRun, CountingOf, ControllerOf
  <2> QED
    BY <1>1, <2>1, <2>2
<1>6. ASSUME NEW role \in Roles, WorkerReady("host", role) PROVE ButtonInv'
  <2> DEFINE look == IF linked["host"] THEN "idle" ELSE "waiting"
             d == WorkerUp(page["host"], role, look)
  <2>1. page'["host"] = d /\ linked' = linked
    BY <1>0, <1>6 DEF WorkerReady, TypeInv
  <2>2. d.run = page["host"].run /\ d.button \in {page["host"].button, look}
    BY <1>0, <1>6, UpWorkers DEF WorkerReady, Buttons
  <2> QED
    BY <2>1, <2>2 DEF ButtonInv, Disabled
<1>7. ASSUME NEW d, page' = [page EXCEPT !["guest"] = d], UNCHANGED linked PROVE ButtonInv'
  <2>1. page'["host"] = page["host"]
    BY <1>0, <1>7 DEF TypeInv
  <2> QED
    BY <1>1, <1>7, <2>1
<1>8. ASSUME NEW role \in Roles, WorkerReady("guest", role) PROVE ButtonInv'
  BY <1>7, <1>8 DEF WorkerReady, ProceedAccept, StartVerifierRun
<1>9. CASE UNCHANGED page /\ UNCHANGED linked
  BY <1>1, <1>9
<1>10. CASE AcceptRun
  BY <1>7, <1>9, <1>10 DEF AcceptRun, ProceedAccept, StartVerifierRun
<1>11. ASSUME NEW r \in compiling, CompileOk(r) PROVE ButtonInv'
  BY <1>7, <1>9, <1>11 DEF CompileOk, StartVerifierRun
<1>12. DeclineRun \/ (\E r \in compiling : CompileRefused(r)) \/ UNCHANGED vars
         => UNCHANGED page /\ UNCHANGED linked
  BY DEF DeclineRun, CompileRefused, vars
<1>13. ASSUME NEW p \in Pages, Receive(p) PROVE WeakStep(p) \/ ReceiveReady
  BY <1>13 DEF Receive, WeakStep
<1> QED
  BY <1>0, <1>2, <1>3, <1>4, <1>5, <1>6, <1>8, <1>9, <1>10, <1>11, <1>12, <1>13
     DEF Next, Compiled, WorkerStep, WeakStep, Pages

\* A page whose button is disabled with both workers up was so before.
StaysEnabled(c, d) ==
    d.nReady = 2 /\ d.button \in Disabled => c.nReady = 2 /\ c.button \in Disabled

LEMMA ControllerEnabled ==
    ASSUME NEW c \in CountingOf(Job)
    PROVE  /\ StaysEnabled(c, FailRun(c)) /\ StaysEnabled(c, Abort(c))
           /\ StaysEnabled(c, WorkerError(c))
           /\ \A r \in Runs : StaysEnabled(c, OnRemoteProtocol(c, r))
           /\ \A role \in Roles, r \in Runs :
                 \A d \in RecordResult(c, role, r) : StaysEnabled(c, d)
<1>1. StaysEnabled(c, FailRun(c))
  BY DEF StaysEnabled, FailRun, EndRun, CountingOf, ControllerOf, Disabled
<1>2. StaysEnabled(c, Abort(c))
  BY DEF StaysEnabled, Abort, Fresh, CountingOf, ControllerOf
<1>3. StaysEnabled(c, WorkerError(c))
  BY <1>1 DEF StaysEnabled, WorkerError, CountingOf, ControllerOf, Disabled
<1>4. ASSUME NEW r \in Runs PROVE StaysEnabled(c, OnRemoteProtocol(c, r))
  <2>1. \A jobs : LET d == [c EXCEPT !.jobs = jobs]
                  IN  d.nReady = c.nReady /\ d.button = c.button
    BY DEF CountingOf, ControllerOf
  <2> QED
    BY <2>1 DEF StaysEnabled, OnRemoteProtocol
<1>5. ASSUME NEW role \in Roles, NEW r \in Runs, NEW d \in RecordResult(c, role, r)
      PROVE  StaysEnabled(c, d)
  <2> DEFINE res == [c.results EXCEPT ![role] = r]
  <2>1. StaysEnabled(c, c) /\ StaysEnabled(c, [c EXCEPT !.results = res])
    BY DEF StaysEnabled, CountingOf, ControllerOf
  <2>2. \A ok \in BOOLEAN : StaysEnabled(c, FinishRun(c, res, ok))
    BY DEF StaysEnabled, FinishRun, EndRun, CountingOf, ControllerOf, Disabled
  <2> QED
    BY <1>5, <2>1, <2>2 DEF RecordResult
<1> QED
  BY <1>1, <1>2, <1>3, <1>4, <1>5

LEMMA EnabledInit == Init => EnabledInv
BY DEF Init, Fresh, EnabledInv, Pages

\* The host's end of the link goes, or its button stays enabled.
LEMMA WeakStepEnabled ==
    ASSUME TypeInv, WeakStep("host")
    PROVE  /\ linked'["host"] => linked["host"]
           /\ linked'["host"] => StaysEnabled(page["host"], page'["host"])
<1> USE DEF TypeInv
<1>0. page["host"] \in CountingOf(Job) /\ "host" \in Pages /\ "host" # "guest"
  BY DEF Pages
<1>1. CASE ClickAbort
  BY <1>0, <1>1, ControllerEnabled DEF ClickAbort
<1>2. CASE ReceiveDecline
  BY <1>0, <1>2, ControllerEnabled DEF ReceiveDecline
<1>3. CASE ReceiveDone("host")
  <2>1. RoleOf(Other("host")) \in Roles /\ Head(net["host"]).run \in Runs
    BY <1>0, <1>3, TakenType DEF ReceiveDone, RoleOf, Roles
  <2> QED
    BY <1>0, <1>3, <2>1, ControllerEnabled DEF ReceiveDone
<1>4. CASE ReceiveError("host")
  BY <1>0, <1>4, ControllerEnabled DEF ReceiveError
<1>5. CASE ReceiveBytes("host")
  BY <1>0, <1>5, TakenType, ControllerEnabled DEF ReceiveBytes
<1>6. ASSUME NEW role \in Roles, WorkerBroken("host", role)
      PROVE  linked' = linked /\ StaysEnabled(page["host"], page'["host"])
  <2> DEFINE d == [page["host"] EXCEPT !.worker[role] = "broken"]
  <2>1. d \in CountingOf(Job) /\ page'["host"] = WorkerError(d) /\ linked' = linked
    BY <1>0, <1>6, WorkerBrokenType DEF WorkerBroken, ReportError
  <2>2. d.nReady = page["host"].nReady /\ d.button = page["host"].button
    BY <1>0 DEF CountingOf, ControllerOf
  <2> HIDE DEF d
  <2>3. StaysEnabled(d, WorkerError(d))
    BY <2>1, ControllerEnabled
  <2> QED
    BY <2>1, <2>2, <2>3 DEF StaysEnabled
<1>7. ASSUME NEW j \in page["host"].jobs,
             JobSend("host", j) \/ JobDone("host", j) \/ JobError("host", j)
      PROVE  linked' = linked /\ StaysEnabled(page["host"], page'["host"])
  <2> DEFINE d == Without("host", j)
  <2>1. j.run \in Runs /\ RoleOf("host") \in Roles
    BY <1>0 DEF CountingOf, ControllerOf, Job, RoleOf, Roles
  <2>2. /\ d \in CountingOf(Job) /\ d.nReady = page["host"].nReady
        /\ d.button = page["host"].button
    BY <1>0 DEF Without, CountingOf, ControllerOf, Loaded
  <2> HIDE DEF d
  <2>3. CASE JobSend("host", j)
    <3>1. \A jobs : LET e == [page["host"] EXCEPT !.jobs = jobs]
                    IN  e.nReady = page["host"].nReady /\ e.button = page["host"].button
      BY <1>0 DEF CountingOf, ControllerOf
    <3> QED
      BY <1>0, <2>3, <3>1 DEF JobSend, StaysEnabled
  <2>4. CASE JobDone("host", j)
    BY <1>0, <2>1, <2>2, <2>4, ControllerEnabled DEF JobDone, StaysEnabled, d
  <2>5. CASE JobError("host", j)
    BY <1>0, <2>2, <2>5, ControllerEnabled DEF JobError, ReportError, StaysEnabled, d
  <2> QED
    BY <1>7, <2>3, <2>4, <2>5
<1>8. CASE LinkDown("host")
  BY <1>0, <1>8 DEF LinkDown
<1>9. ClickAbort \/ ReceiveDecline \/ ReceiveDone("host") \/ ReceiveError("host")
         \/ ReceiveBytes("host") => linked' = linked
  BY DEF ClickAbort, ReceiveDecline, ReceiveDone, ReceiveError, ReceiveBytes
<1> QED
  BY <1>0, <1>1, <1>2, <1>3, <1>4, <1>5, <1>6, <1>7, <1>8, <1>9 DEF WeakStep

LEMMA EnabledNext == SafeInv /\ EnabledInv /\ [Next]_vars => EnabledInv'
<1> SUFFICES ASSUME SafeInv, EnabledInv, [Next]_vars PROVE EnabledInv'
  OBVIOUS
<1> USE DEF hostVars, guestVars, history
<1>0. /\ TypeInv /\ \A p \in Pages : page[p] \in CountingOf(Job)
      /\ "guest" \in Pages /\ "host" \in Pages /\ "guest" # "host"
  BY DEF SafeInv, TypeInv, Pages
<1>1. CASE /\ page'["host"].nReady = page["host"].nReady
           /\ page'["host"].button = page["host"].button
           /\ linked'["host"] = linked["host"]
  BY <1>1 DEF EnabledInv
<1>2. ASSUME NEW p \in Pages, WeakStep(p) PROVE EnabledInv'
  <2>1. CASE p = "guest"
    <3>1. page'["host"] = page["host"]
      BY <1>0, <1>2, <2>1, WeakStepWeakens, OnePage
    <3>2. linked'["host"] = linked["host"]
      BY <1>0, <1>2, <2>1 DEF WeakStep, ReceivePropose, ReceiveAbort, ReceiveDone, ReceiveError,
         ReceiveBytes, WorkerBroken, JobSend, JobDone, JobError, LinkDown, TypeInv
    <3> QED
      BY <1>1, <3>1, <3>2
  <2>2. CASE p = "host"
    BY <1>0, <1>2, <2>2, WeakStepEnabled DEF EnabledInv, StaysEnabled
  <2> QED
    BY <2>1, <2>2 DEF Pages
<1>3. CASE ClickProve \/ (\E r \in hashing : HashDone(r)) \/ ReceiveReady
  <2> DEFINE c == page["host"]
  <2>1. PICK d : /\ page' = [page EXCEPT !["host"] = d] /\ linked' = linked
                 /\ \/ d = [c EXCEPT !.button = "running"]
                    \/ \E r \in Runs : d = [Propose(c, r) EXCEPT !.button = "running"]
                    \/ \E r \in hashing : d = Propose(c, r)
                    \/ d = AttachProver(c)
    BY <1>3 DEF ClickProve, HashDone, ReceiveReady
  <2>2. page'["host"] = d
    BY <1>0, <2>1, OnePage
  <2>3. d.nReady = c.nReady /\ d.button \in {c.button, "running"}
    BY <1>0, <2>1 DEF Propose, NewRun, AttachProver, AttachRemoteRun, CountingOf, ControllerOf
  <2> QED
    BY <2>1, <2>2, <2>3 DEF EnabledInv, Disabled
<1>4. ASSUME NEW role \in Roles, WorkerReady("host", role) PROVE EnabledInv'
  <2> DEFINE look == IF linked["host"] THEN "idle" ELSE "waiting"
  <2>1. page'["host"] = WorkerUp(page["host"], role, look) /\ linked' = linked
    BY <1>0, <1>4 DEF WorkerReady, TypeInv
  <2>2. page["host"].nReady # 2 /\ page["host"].nReady \in 0..2
    BY <1>0, <1>4, UpWorkers DEF WorkerReady, CountingOf, ControllerOf, Buttons
  <2>3. page'["host"].nReady = 2 => page'["host"].button = look
    BY <1>0, <2>1, <2>2 DEF WorkerUp, CountingOf, ControllerOf
  <2> QED
    BY <2>1, <2>3 DEF EnabledInv, Disabled
<1>5. ASSUME NEW d, page' = [page EXCEPT !["guest"] = d], UNCHANGED linked PROVE EnabledInv'
  <2>1. page'["host"] = page["host"]
    BY <1>0, <1>5 DEF TypeInv
  <2> QED
    BY <1>1, <1>5, <2>1
<1>6. ASSUME NEW role \in Roles, WorkerReady("guest", role) PROVE EnabledInv'
  BY <1>5, <1>6 DEF WorkerReady, ProceedAccept, StartVerifierRun
<1>7. CASE UNCHANGED page /\ UNCHANGED linked
  BY <1>1, <1>7
<1>8. CASE AcceptRun
  BY <1>5, <1>7, <1>8 DEF AcceptRun, ProceedAccept, StartVerifierRun
<1>9. ASSUME NEW r \in compiling, CompileOk(r) PROVE EnabledInv'
  BY <1>5, <1>7, <1>9 DEF CompileOk, StartVerifierRun
<1>10. DeclineRun \/ (\E r \in compiling : CompileRefused(r)) \/ UNCHANGED vars
         => UNCHANGED page /\ UNCHANGED linked
  BY DEF DeclineRun, CompileRefused, vars
<1>11. ASSUME NEW p \in Pages, Receive(p) PROVE WeakStep(p) \/ ReceiveReady
  BY <1>11 DEF Receive, WeakStep
<1> QED
  BY <1>0, <1>2, <1>3, <1>4, <1>6, <1>7, <1>8, <1>9, <1>10, <1>11
     DEF Next, Compiled, WorkerStep, WeakStep, Pages

\* In every environment the user can abort the run that is on: nothing that happens
\* during it disables its button, and that of a source, which may begin under a
\* disabled button, is no exception where the link is up and both workers are.
THEOREM RunIsAbortableHolds == Spec => []RunIsAbortable
<1>1. ButtonInv /\ EnabledInv => RunIsAbortable
  BY DEF ButtonInv, EnabledInv, RunIsAbortable
<1> QED
  BY <1>1, SafeInit, SafeNext, PlacesInit, PlacesNext, WorkersInit, WorkersNext,
     ButtonInit, ButtonNext, EnabledInit, EnabledNext, PTL DEF Spec
=============================================================================
