--------------------------- MODULE Compositions_proofs ---------------------------
(***************************************************************************)
(* The two compositions of PeerSession.  First, MixedSession: what the     *)
(* peers agree on while hosts change between runs of their own and runs    *)
(* with a guest, as long as no run is cut short.  Then GuestView: that the *)
(* session goes on under the pane as PeerSession says, that the pane asks  *)
(* the user exactly while a proposal waits, whatever the two pages, the    *)
(* link and their users do, and that what it says is about that proposal,  *)
(* or about the run, as long as no run is overtaken.                       *)
(***************************************************************************)
EXTENDS GuestView, MixedSession, PeerSession_proofs

-----------------------------------------------------------------------------
(* Messages on their way.                                                  *)

OnlyLast(s, kinds) == \A i \in DOMAIN s : s[i].kind \in kinds => i = Len(s)

LEMMA RangeEmpty ==
    ASSUME NEW s \in Seq(Message)
    PROVE  /\ s = <<>> <=> Range(s) = {}
           /\ Range(<<>>) = {} /\ \A K : OnlyLast(<<>>, K)
<1>1. s # <<>> => s[1] \in Range(s)
  BY DEF Range
<1> QED
  BY <1>1 DEF Range, OnlyLast

LEMMA RangeAppend ==
    ASSUME NEW s \in Seq(Message), NEW m \in Message
    PROVE  /\ Range(Append(s, m)) = Range(s) \cup {m}
           /\ Append(s, m) # <<>>
           /\ \A K : (\A n \in Range(s) : n.kind \notin K) => OnlyLast(Append(s, m), K)
<1> DEFINE t == Append(s, m)
<1>1. /\ t \in Seq(Message) /\ Len(t) = Len(s) + 1 /\ t[Len(t)] = m /\ DOMAIN t = 1..Len(t)
      /\ \A i \in DOMAIN s : t[i] = s[i] /\ i \in DOMAIN t
      /\ \A i \in DOMAIN t : i # Len(t) => i \in DOMAIN s /\ t[i] = s[i]
      /\ Len(s) \in Nat
  BY AppendProperties
<1> HIDE DEF t
<1>2. Range(t) = Range(s) \cup {m}
  <2>1. ASSUME NEW x \in Range(t) PROVE x \in Range(s) \cup {m}
    <3>1. PICK i \in DOMAIN t : x = t[i]
      BY DEF Range
    <3> QED
      BY <1>1, <3>1 DEF Range
  <2>2. ASSUME NEW x \in Range(s) PROVE x \in Range(t)
    <3>1. PICK i \in DOMAIN s : x = s[i]
      BY DEF Range
    <3> QED
      BY <1>1, <3>1 DEF Range
  <2>3. m \in Range(t)
    <3>1. Len(t) \in DOMAIN t
      BY <1>1
    <3> QED
      BY <1>1, <3>1 DEF Range
  <2> QED
    BY <2>1, <2>2, <2>3
<1>3. t # <<>>
  BY <1>1
<1>4. ASSUME NEW K, \A n \in Range(s) : n.kind \notin K PROVE OnlyLast(t, K)
  BY <1>1, <1>4 DEF OnlyLast, Range
<1> QED
  BY <1>2, <1>3, <1>4 DEF t

LEMMA RangeTail ==
    ASSUME NEW s \in Seq(Message), s # <<>>
    PROVE  /\ Head(s) \in Range(s) /\ Head(s) \in Message
           /\ Tail(s) \in Seq(Message) /\ Range(Tail(s)) \subseteq Range(s)
           /\ \A K : OnlyLast(s, K) =>
                /\ OnlyLast(Tail(s), K)
                /\ Head(s).kind \in K => Tail(s) = <<>>
<1> DEFINE t == Tail(s)
<1>1. /\ t \in Seq(Message) /\ Len(t) = Len(s) - 1 /\ Head(s) = s[1] /\ Head(s) \in Message
      /\ 1 \in DOMAIN s /\ Len(s) \in Nat
      /\ \A i \in DOMAIN t : i + 1 \in DOMAIN s /\ t[i] = s[i + 1] /\ i \in Nat
  BY HeadTailProperties
<1> HIDE DEF t
<1>2. Range(t) \subseteq Range(s)
  BY <1>1 DEF Range
<1>3. ASSUME NEW K, OnlyLast(s, K)
      PROVE  OnlyLast(t, K) /\ (Head(s).kind \in K => t = <<>>)
  BY <1>1, <1>3 DEF OnlyLast
<1> QED
  BY <1>1, <1>2, <1>3 DEF Range, t

Both == linked["host"] /\ linked["guest"]

\* What a message sent by p changes.
LEMMA SendNet ==
    ASSUME TypeInv, NEW p \in Pages, NEW m \in Message
    PROVE  /\ Send(net, p, m)[p] = net[p]
           /\ ~Both => Send(net, p, m) = net
           /\ Both => Send(net, p, m)[Other(p)] = Append(net[Other(p)], m)
BY DEF Send, Both, TypeInv, Pages, Other

-----------------------------------------------------------------------------
(* What the methods do to the fields that runs are made of.                *)

Alike(c, d) ==
    /\ d.run = c.run /\ d.attached = c.attached /\ d.results = c.results
    /\ d.pendingProverReq = c.pendingProverReq /\ d.jobs = c.jobs /\ d.shown = c.shown

Ended(c, d) ==
    /\ d.run = NoRun /\ ~d.attached /\ d.results = NoResults /\ d.pendingProverReq = NoRun
    /\ d.jobs \subseteq c.jobs

LEMMA RestFields ==
    ASSUME NEW c \in CountingOf(Job), NEW m, NEW up
    PROVE  Alike(c, Rest(c, m, up)) /\ Rest(c, m, up) \in CountingOf(Job)
BY DEF Alike, Rest, CountingOf, ControllerOf, Loaded, Buttons

LEMMA UpFields ==
    ASSUME NEW c \in CountingOf(Job), NEW role, NEW look
    PROVE  Alike(c, WorkerUp(c, role, look))
BY DEF Alike, WorkerUp, CountingOf, ControllerOf

LEMMA ButtonFields ==
    ASSUME NEW c \in CountingOf(Job), NEW b \in Buttons
    PROVE  Alike(c, [c EXCEPT !.button = b]) /\ [c EXCEPT !.button = b] \in CountingOf(Job)
BY DEF Alike, CountingOf, ControllerOf, Loaded

LEMMA NewRunFields ==
    ASSUME NEW c \in CountingOf(Job), NEW r \in Runs
    PROVE  LET d == [NewRun(c, r) EXCEPT !.button = "running"]
           IN  /\ d.run = r /\ ~d.attached /\ d.results = NoResults
               /\ d.pendingProverReq = c.pendingProverReq /\ d.jobs = c.jobs
               /\ d.shown = c.shown /\ d \in CountingOf(Job)
BY NewRunType DEF NewRun, CountingOf, ControllerOf, Loaded, Buttons

LEMMA AttachFields ==
    ASSUME NEW c \in CountingOf(Job), NEW r \in Runs
    PROVE  LET d == AttachRemoteRun(NewRun(c, r), r)
           IN  /\ d.run = r /\ d.attached /\ d.results = NoResults
               /\ d.pendingProverReq = c.pendingProverReq
               /\ d.jobs = c.jobs \cup {NewJob(r)} /\ d.shown = c.shown
BY DEF AttachRemoteRun, NewRun, CountingOf, ControllerOf

LEMMA ProverFields ==
    ASSUME NEW c \in CountingOf(Job), c.pendingProverReq \in {NoRun, c.run}
    PROVE  LET d == AttachProver(c)
           IN  /\ d.run = c.run /\ d.results = c.results /\ d.shown = c.shown
               /\ c.pendingProverReq = NoRun => d = c
               /\ c.pendingProverReq # NoRun =>
                    /\ d.attached /\ d.pendingProverReq = NoRun
                    /\ d.jobs = c.jobs \cup {NewJob(c.run)}
BY DEF AttachProver, AttachRemoteRun, CountingOf, ControllerOf

LEMMA AbortFields ==
    ASSUME NEW c \in CountingOf(Job)
    PROVE  LET d == Abort(c)
           IN  /\ d.shown = c.shown
               /\ c.run = NoRun => d = c
               /\ c.run # NoRun => Ended(c, d) /\ d.jobs = {}
BY DEF Abort, Fresh, Ended, CountingOf, ControllerOf

LEMMA FailFields ==
    ASSUME NEW c \in CountingOf(Job)
    PROVE  LET d == FailRun(c)
           IN  /\ d.shown = c.shown
               /\ c.run = NoRun => d = c
               /\ c.run # NoRun => Ended(c, d)
BY DEF FailRun, EndRun, Ended, CountingOf, ControllerOf

\* A result of the run itself is kept until the other one is there; then the run
\* ends, and what is shown is of that run.
LEMMA RecordFields ==
    ASSUME NEW c \in CountingOf(Job), NEW role \in Roles, c.run # NoRun,
           \A x \in Roles : c.results[x] \in {NoRun, c.run},
           NEW d \in RecordResult(c, role, c.run)
    PROVE  /\ d.jobs = c.jobs
           /\ \/ /\ d.run = c.run /\ d.attached = c.attached /\ d.shown = c.shown
                 /\ d.pendingProverReq = c.pendingProverReq
                 /\ d.results = [c.results EXCEPT ![role] = c.run]
              \/ /\ Ended(c, d) /\ c.results[OtherRole(role)] # NoRun
                 /\ \A x \in Roles : d.shown.results[x] = d.shown.run
<1> DEFINE res == [c.results EXCEPT ![role] = c.run]
<1>1. c.results \in [Roles -> MaybeRun]
  BY DEF CountingOf, ControllerOf, Results
<1>2. CASE NoRun \in {res["prover"], res["verifier"]}
  <2>1. d = [c EXCEPT !.results = res]
    BY <1>2 DEF RecordResult
  <2> QED
    BY <2>1 DEF CountingOf, ControllerOf
<1>3. CASE NoRun \notin {res["prover"], res["verifier"]}
  <2>1. res["prover"] = c.run /\ res["verifier"] = c.run
    BY <1>1, <1>3 DEF Roles
  <2>2. d = FinishRun(c, res, TRUE)
    BY <1>3, <2>1 DEF RecordResult
  <2>3. /\ d.run = NoRun /\ ~d.attached /\ d.results = NoResults /\ d.pendingProverReq = NoRun
        /\ d.jobs = c.jobs /\ d.shown = [run |-> c.run, results |-> res]
    BY <2>2 DEF FinishRun, EndRun, CountingOf, ControllerOf
  <2>4. c.results[OtherRole(role)] # NoRun
    BY <1>1, <1>3 DEF Roles, OtherRole
  <2> QED
    BY <2>1, <2>3, <2>4 DEF Ended, Roles
<1> QED
  BY <1>2, <1>3

\* Bytes of its own run make no job's stream a broken one.
LEMMA BytesFields ==
    ASSUME NEW c \in CountingOf(Job), \A j \in c.jobs : j.run = c.run /\ j.got # "foreign",
           \A j, k \in c.jobs : j = k
    PROVE  LET d == OnRemoteProtocol(c, c.run)
           IN  /\ d.run = c.run /\ d.attached = c.attached /\ d.results = c.results
               /\ d.pendingProverReq = c.pendingProverReq /\ d.shown = c.shown
               /\ \A j \in d.jobs : j.run = c.run /\ j.got # "foreign"
               /\ \A j, k \in d.jobs : j = k
               /\ d.jobs = {} <=> c.jobs = {}
<1> DEFINE Feed(j) == [j EXCEPT !.got = IF c.run = j.run /\ @ # "foreign"
                                        THEN "own" ELSE "foreign"]
           fed == {IF j.run = c.run THEN Feed(j) ELSE j : j \in c.jobs}
           d == OnRemoteProtocol(c, c.run)
<1>1. \A j \in c.jobs : j \in Job /\ Feed(j).run = c.run /\ Feed(j).got = "own"
  BY DEF CountingOf, ControllerOf, Job
<1>2. fed = {Feed(j) : j \in c.jobs}
  OBVIOUS
<1>3. /\ \A j \in fed : j.run = c.run /\ j.got # "foreign"
      /\ \A j, k \in fed : j = k
      /\ fed = {} <=> c.jobs = {}
  <2> HIDE DEF Feed
  <2> QED
    BY <1>1, <1>2
<1>4. CASE ~c.attached
  BY <1>4 DEF OnRemoteProtocol
<1>5. CASE c.attached
  <2>1. d = [c EXCEPT !.jobs = fed]
    BY <1>5 DEF OnRemoteProtocol
  <2> HIDE DEF fed
  <2>2. /\ d.run = c.run /\ d.attached = c.attached /\ d.results = c.results
        /\ d.pendingProverReq = c.pendingProverReq /\ d.shown = c.shown /\ d.jobs = fed
    BY <2>1 DEF CountingOf, ControllerOf
  <2> QED
    BY <1>3, <2>2
<1> QED
  BY <1>4, <1>5

-----------------------------------------------------------------------------
(* The invariant.  Between a click and the end of a run, the two pages and *)
(* the link between them are about that run.                               *)

Host == page["host"]
Guest == page["guest"]
ToHost == net["host"]
ToGuest == net["guest"]

Refusals == {"decline", "error"}
Ends == Refusals \cup {"done"}

\* The proposals that the guest has and has not answered, and those on their way.
Here == ({pendingProposal, acceptedPending} \cup compiling) \ {NoRun}
OnTheWay == {m.run : m \in {n \in Range(ToGuest) : n.kind = "propose"}}

\* What is on its way to the host is about its run, which is no local one.  The end
\* of a run is last; a refusal comes to a host that has no prover, and alone.
ToHostInv ==
    /\ \A m \in Range(ToHost) :
         /\ m.run = Host.run /\ m.run \notin alone
         /\ m.kind = "ready" => m.run \in started
         /\ m.kind \in Refusals =>
              ~Host.attached /\ \A n \in Range(ToHost) : n.kind \in Refusals
    /\ OnlyLast(ToHost, Ends)
    /\ ~linked["host"] => ToHost = <<>>

\* The host has one party at most, of its run; its results are of its run, and the
\* other party's is the last that it is sent.
HostRunInv ==
    /\ Host.attached => linked["host"] /\ Host.run \in started \ alone
    /\ \A j \in Host.jobs :
         Host.attached /\ j.run = Host.run /\ j.got # "foreign" /\ \A k \in Host.jobs : k = j
    /\ \A x \in Roles : Host.results[x] \in {NoRun, Host.run}
    /\ Host.pendingProverReq # NoRun =>
         /\ Host.pendingProverReq = Host.run /\ Host.run \notin alone
         /\ ~Host.attached /\ Host.results["prover"] = NoRun
    /\ Host.run \notin alone =>
         /\ Host.results["prover"] # NoRun => Host.jobs = {}
         /\ Host.results["verifier"] # NoRun => ToHost = <<>>
    /\ Agreed("host")

\* Local parties are of the host's run, and none has returned; a hash is computed
\* while there is no run; no run is from the future.
HostOwnInv ==
    /\ \A j \in localJobs :
         j.run = Host.run /\ j.run \in alone /\ Host.results[j.role] = NoRun
    /\ \A r \in hashing :
         Host.run = NoRun /\ r \notin alone /\ r <= asked /\ \A s \in hashing : s = r
    /\ Host.run <= asked /\ \A r \in alone : r <= asked

GuestRunInv ==
    /\ Guest.attached => Guest.run # NoRun
    /\ \A j \in Guest.jobs :
         j.run = Guest.run /\ j.got # "foreign" /\ \A k \in Guest.jobs : k = j
    /\ \A x \in Roles : Guest.results[x] \in {NoRun, Guest.run}
    /\ Guest.results["verifier"] # NoRun => Guest.jobs = {}
    /\ Agreed("guest")

\* A proposal is the last message to the guest, what a prover sends is of the run
\* that the guest verifies, and of a local run the guest hears when it has nothing
\* to do.
ToGuestInv ==
    /\ \A m \in Range(ToGuest) :
         /\ m.run <= asked /\ m.kind # "error"
         /\ m.kind = "propose" => m.run \notin alone
         /\ m.kind \in {"bytes", "done"} /\ Guest.run # NoRun => m.run = Guest.run
         /\ m.kind = "abort" => m.run \in alone
         /\ m.run \in alone => Idle
    /\ OnlyLast(ToGuest, {"propose"})

\* While a proposal waits for an answer nothing else happens to the guest, and it
\* waits in one place.
HereInv ==
    linked["guest"] /\ Here # {} =>
      /\ ToGuest = <<>> /\ Guest.run = NoRun
      /\ pendingProposal # NoRun => acceptedPending = NoRun /\ compiling = {}
      /\ acceptedPending # NoRun => compiling = {}
      /\ \A r, s \in compiling : r = s

\* What the two pages have in common while both ends are open.
LinkInv ==
    Both =>
      /\ Guest.jobs # {} =>
           /\ Guest.run = Host.run /\ Host.results["verifier"] = NoRun
           /\ \A m \in Range(ToHost) : m.kind \notin Ends
      /\ \A r \in Here \cup OnTheWay :
           /\ r = Host.pendingProverReq /\ ToHost = <<>>
           /\ Host.results["verifier"] = NoRun /\ Guest.jobs = {}
      /\ Host.attached \/ ToHost # <<>> => Guest.run \in {Host.run, NoRun}
      /\ Host.run \in alone => Idle

HostSide == ToHostInv /\ HostRunInv /\ HostOwnInv
GuestSide == GuestRunInv /\ ToGuestInv /\ HereInv
CalmInv == HostSide /\ GuestSide /\ LinkInv

MixedTypeInv ==
    /\ TypeInv
    /\ hashing \subseteq Sourced
    /\ mode \in {"local", "peer"}
    /\ links \in 0..MaxLinks
    /\ alone \subseteq Runs
    /\ localJobs \subseteq LocalJob
    /\ lost \subseteq Sourced

\* The runs of controllers and messages have names of runs.
LEMMA Names ==
    ASSUME MixedTypeInv
    PROVE  /\ Host \in CountingOf(Job) /\ Guest \in CountingOf(Job)
           /\ ToHost \in Seq(Message) /\ ToGuest \in Seq(Message)
           /\ Host.run \in MaybeRun /\ Guest.run \in MaybeRun
           /\ \A j \in Host.jobs \cup Guest.jobs : j \in Job /\ j.run \in Runs
           /\ \A m \in Range(ToHost) \cup Range(ToGuest) : m \in Message /\ m.run \in Runs
           /\ NoRun \notin alone /\ NoRun \notin started /\ NoRun \notin hashing
           /\ Here \subseteq Runs
           /\ asked \in Nat /\ NoRun \in Int
           /\ \A r \in MaybeRun : r \in Nat
<1>1. /\ Host \in CountingOf(Job) /\ Guest \in CountingOf(Job)
      /\ ToHost \in Seq(Message) /\ ToGuest \in Seq(Message)
  BY DEF MixedTypeInv, TypeInv, Pages, Host, Guest, ToHost, ToGuest
<1>2. /\ Host.run \in MaybeRun /\ Guest.run \in MaybeRun
      /\ \A j \in Host.jobs \cup Guest.jobs : j \in Job /\ j.run \in Runs
  BY <1>1 DEF CountingOf, ControllerOf, Job
<1>3. \A m \in Range(ToHost) \cup Range(ToGuest) : m \in Message /\ m.run \in Runs
  <2>1. \A s \in Seq(Message) : \A i \in DOMAIN s : s[i] \in Message
    OBVIOUS
  <2> QED
    BY <1>1, <2>1 DEF Range, Message
<1>4. \A r \in MaybeRun : r \in Nat
  BY RunFacts DEF MaybeRun, NoRun
<1> QED
  BY <1>1, <1>2, <1>3, <1>4, RunFacts, MaxRunsAssumption
     DEF MixedTypeInv, TypeInv, Here, NoRun, MaybeRun

\* Steps that leave alone what a part of the invariant is about.
LEMMA HostKept ==
    ASSUME HostSide, Alike(Host, Host'), ToHost' = ToHost,
           started \subseteq started', linked'["host"] = linked["host"],
           UNCHANGED <<alone, localJobs, hashing, asked>>
    PROVE  HostSide'
<1>1. ToHostInv'
  BY DEF HostSide, ToHostInv, Alike
<1>2. HostRunInv'
  BY DEF HostSide, HostRunInv, Alike, Agreed, Host
<1>3. HostOwnInv'
  BY DEF HostSide, HostOwnInv, Alike
<1> QED
  BY <1>1, <1>2, <1>3 DEF HostSide

LEMMA GuestKept ==
    ASSUME GuestSide, Alike(Guest, Guest'), ToGuest' = ToGuest,
           linked'["guest"] = linked["guest"], alone' = alone, asked' = asked,
           UNCHANGED guestVars
    PROVE  GuestSide'
<1>1. GuestRunInv'
  BY DEF GuestSide, GuestRunInv, Alike, Agreed, Guest
<1>2. ToGuestInv'
  BY DEF GuestSide, ToGuestInv, Alike, Idle, guestVars, Guest
<1>3. HereInv'
  BY DEF GuestSide, HereInv, Alike, Here, guestVars
<1> QED
  BY <1>1, <1>2, <1>3 DEF GuestSide

LEMMA LinkKept ==
    ASSUME LinkInv, Alike(Host, Host'), Alike(Guest, Guest'), net' = net, Both' => Both,
           alone' = alone, UNCHANGED guestVars
    PROVE  LinkInv'
<1>1. Here' = Here /\ OnTheWay' = OnTheWay /\ ToHost' = ToHost /\ (Idle' <=> Idle)
  BY DEF Here, OnTheWay, ToHost, ToGuest, Idle, guestVars, Alike, Guest
<1> QED
  BY <1>1 DEF LinkInv, Alike

-----------------------------------------------------------------------------
(* Types.                                                                  *)

LEMMA MixedTypeInit == MixedInit => MixedTypeInv
<1> SUFFICES ASSUME MixedInit PROVE MixedTypeInv
  OBVIOUS
<1>1. page \in [Pages -> CountingOf(Job)] /\ linked \in [Pages -> BOOLEAN]
  BY FreshType DEF MixedInit
<1>2. net \in [Pages -> Seq(Message)]
  BY EmptySeq DEF MixedInit
<1> QED
  BY <1>1, <1>2, RunFacts, MaxRunsAssumption, MixedAssumption DEF MixedInit, MixedTypeInv, TypeInv

\* The steps that PeerSession has, too.
LEMMA SessionTypes ==
    ASSUME MixedTypeInv, [Next]_vars, mode' = mode, links' = links, alone' = alone,
           localJobs' \subseteq localJobs, lost' \subseteq lost \cup hashing
    PROVE  MixedTypeInv'
<1>1. TypeInv'
  BY TypeNext DEF MixedTypeInv
<1>2. hashing' \subseteq Sourced
  <2> USE DEF hostVars
  <2>1. CASE ClickProve
    BY <2>1 DEF ClickProve, MixedTypeInv
  <2>2. ASSUME NEW r \in hashing, HashDone(r) PROVE hashing' \subseteq hashing
    BY <2>2 DEF HashDone
  <2>3. ASSUME NEW p \in Pages, Receive(p) \/ WorkerStep(p) \/ LinkDown(p)
        PROVE  hashing' = hashing
    BY <2>3 DEF Receive, ReceivePropose, ReceiveAbort, ReceiveReady, ReceiveDecline, ReceiveDone,
                ReceiveError, ReceiveBytes, WorkerStep, WorkerReady, WorkerBroken, JobSend,
                JobDone, JobError, LinkDown
  <2>4. ClickAbort \/ AcceptRun \/ DeclineRun \/ Compiled \/ UNCHANGED vars
          => hashing' = hashing
    BY DEF ClickAbort, AcceptRun, DeclineRun, Compiled, CompileOk, CompileRefused, vars
  <2> QED
    BY <2>1, <2>2, <2>3, <2>4 DEF Next, MixedTypeInv
<1> QED
  BY <1>1, <1>2 DEF MixedTypeInv

\* A local run starts, or the host's workers or its user leave the link alone.
LEMMA HostTypes ==
    ASSUME MixedTypeInv, NEW c \in CountingOf(Job), page' = [page EXCEPT !["host"] = c],
           net' \in [Pages -> Seq(Message)], linked' \in [Pages -> BOOLEAN],
           asked' \in 0..MaxRuns, hashing' \subseteq hashing,
           UNCHANGED <<guestVars, history>>
    PROVE  TypeInv' /\ hashing' \subseteq Sourced
BY DEF MixedTypeInv, TypeInv, guestVars, history

LEMMA MixedTypeNext == MixedTypeInv /\ [MixedNext]_<<vars, mixedVars>> => MixedTypeInv'
<1> SUFFICES ASSUME MixedTypeInv, [MixedNext]_<<vars, mixedVars>> PROVE MixedTypeInv'
  OBVIOUS
<1> USE DEF mixedVars, hostVars
<1>0. /\ TypeInv /\ page["host"] \in CountingOf(Job)
      /\ net \in [Pages -> Seq(Message)] /\ linked \in [Pages -> BOOLEAN]
      /\ asked \in 0..MaxRuns
  BY DEF MixedTypeInv, TypeInv, Pages
<1>1. CASE ProveLocal
  <2> DEFINE r == asked + 1
             c == [NewRun(page["host"], r) EXCEPT !.button = "running"]
  <2>1. /\ r \in Runs /\ asked' = r /\ page' = [page EXCEPT !["host"] = c]
        /\ alone' = alone \cup {r} /\ UNCHANGED <<linked, net, hashing, mode, links, lost>>
        /\ UNCHANGED <<guestVars, history>>
        /\ localJobs' = localJobs \cup {[run |-> r, role |-> role] : role \in Roles}
    BY <1>1 DEF ProveLocal, StartLocalRun
  <2>2. c \in CountingOf(Job)
    BY <1>0, <2>1, NewRunFields
  <2>3. asked' \in 0..MaxRuns
    BY <2>1 DEF Runs
  <2>4. TypeInv' /\ hashing' \subseteq Sourced
    BY <1>0, <2>1, <2>2, <2>3, HostTypes
  <2>5. localJobs' \subseteq LocalJob
    BY <2>1 DEF MixedTypeInv, LocalJob
  <2> QED
    BY <2>1, <2>4, <2>5 DEF MixedTypeInv
<1>2. CASE AbortLocal
  <2>1. Abort(page["host"]) \in CountingOf(Job)
    BY <1>0, AbortType
  <2>2. Msg("abort", page["host"].run) \in Message
    BY <1>2, MsgType DEF AbortLocal, MixedTypeInv, Kinds
  <2>3. net' \in [Pages -> Seq(Message)]
    BY <1>0, <1>2, <2>2, SendType DEF AbortLocal, Pages
  <2>4. TypeInv' /\ hashing' \subseteq Sourced
    BY <1>0, <1>2, <2>1, <2>3, HostTypes DEF AbortLocal
  <2> QED
    BY <1>2, <2>4 DEF AbortLocal, MixedTypeInv
<1>3. CASE ChooseTab \/ ToPeer
  <2>1. PICK c \in CountingOf(Job) : page' = [page EXCEPT !["host"] = c]
    BY <1>0, <1>3, RestFields DEF ChooseTab, ToPeer
  <2>2. TypeInv' /\ hashing' \subseteq Sourced
    BY <1>0, <1>3, <2>1, HostTypes DEF ChooseTab, ToPeer
  <2> QED
    BY <1>3, <2>2 DEF ChooseTab, ToPeer, MixedTypeInv
<1>4. CASE ToLocal
  <2>1. PICK c \in CountingOf(Job) : page' = [page EXCEPT !["host"] = c]
    BY <1>0, <1>4, AbortType, RestFields DEF ToLocal
  <2>2. net' \in [Pages -> Seq(Message)] /\ linked' \in [Pages -> BOOLEAN]
    BY <1>0, <1>4, EmptySeq DEF ToLocal
  <2>3. TypeInv' /\ hashing' \subseteq Sourced
    BY <1>0, <1>4, <2>1, <2>2, HostTypes DEF ToLocal
  <2> QED
    BY <1>4, <2>3 DEF ToLocal, MixedTypeInv
<1>5. CASE Connect
  <2>1. page' \in [Pages -> CountingOf(Job)]
    <3>1. \A S : \A a, b \in S : [host |-> a, guest |-> b] \in [Pages -> S]
      BY DEF Pages
    <3> QED
      BY <1>0, <1>5, <3>1, RestFields, FreshType DEF Connect
  <2>2. net' \in [Pages -> Seq(Message)] /\ linked' \in [Pages -> BOOLEAN]
    BY <1>5, EmptySeq DEF Connect
  <2>3. links' \in 0..MaxLinks
    BY <1>5, MixedAssumption DEF Connect, MixedTypeInv
  <2> QED
    BY <1>5, <2>1, <2>2, <2>3, RunFacts DEF Connect, MixedTypeInv, TypeInv, history
<1>6. ASSUME NEW p \in Pages, Close(p) PROVE MixedTypeInv'
  <2>1. Next
    BY <1>6 DEF Close, Next
  <2> QED
    BY <1>6, <2>1, SessionTypes DEF Close
<1>7. ASSUME NEW r \in hashing, Hashed(r) PROVE MixedTypeInv'
  <2>1. CASE r \notin lost
    <3>1. HashDone(r)
      BY <1>7, <2>1 DEF Hashed
    <3> QED
      BY <1>7, <3>1, SessionTypes DEF Hashed, Next
  <2>2. CASE r \in lost
    <3>1. Propose(page["host"], r) \in CountingOf(Job)
      BY <1>0, ProposeType DEF TypeInv
    <3>2. TypeInv' /\ hashing' \subseteq Sourced
      BY <1>0, <1>7, <2>2, <3>1, HostTypes DEF Hashed
    <3> QED
      BY <1>7, <3>2 DEF Hashed, MixedTypeInv
  <2> QED
    BY <2>1, <2>2
<1>8. CASE HostWork
  <2>1. ASSUME NEW role \in Roles, HostReady(role) PROVE MixedTypeInv'
    <3> DEFINE look == Rest([page["host"] EXCEPT !.nReady = 2], mode, linked["host"]).button
    <3>1. look \in Buttons
      <4>1. [page["host"] EXCEPT !.nReady = 2].button \in Buttons
              /\ [page["host"] EXCEPT !.nReady = 2].nReady = 2
        BY <1>0 DEF CountingOf, ControllerOf
      <4> QED
        BY <1>0 DEF Rest, CountingOf, ControllerOf, Buttons
    <3> HIDE DEF look
    <3>2. WorkerUp(page["host"], role, look) \in CountingOf(Job)
      BY <1>0, <2>1, <3>1, WorkerUpType DEF HostReady
    <3>3. TypeInv' /\ hashing' \subseteq Sourced
      BY <1>0, <2>1, <3>2, HostTypes DEF HostReady, look
    <3> QED
      BY <2>1, <3>3 DEF HostReady, MixedTypeInv
  <2>2. ASSUME NEW j \in localJobs, LocalDone(j) PROVE MixedTypeInv'
    <3>1. j.run \in Runs /\ j.role \in Roles
      BY DEF MixedTypeInv, LocalJob
    <3>2. PICK c \in RecordResult(page["host"], j.role, j.run) :
            page' = [page EXCEPT !["host"] = c]
      BY <2>2 DEF LocalDone
    <3>3. c \in CountingOf(Job)
      BY <1>0, <3>1, <3>2, RecordResultType
    <3>4. net' \in [Pages -> Seq(Message)]
      <4>1. Msg("done", j.run) \in Message
        BY <3>1, MsgType DEF Kinds
      <4> QED
        BY <1>0, <2>2, <4>1, SendType DEF LocalDone, Pages
    <3>5. TypeInv' /\ hashing' \subseteq Sourced
      BY <1>0, <2>2, <3>2, <3>3, <3>4, HostTypes DEF LocalDone
    <3> QED
      BY <2>2, <3>5 DEF LocalDone, MixedTypeInv
  <2>3. ASSUME NEW j \in page["host"].jobs,
               JobSend("host", j) \/ JobDone("host", j) \/ JobError("host", j),
               UNCHANGED mixedVars
        PROVE  MixedTypeInv'
    <3>1. Next
      BY <2>3 DEF Next, WorkerStep, Pages
    <3> QED
      BY <2>3, <3>1, SessionTypes
  <2> QED
    BY <1>8, <2>1, <2>2, <2>3 DEF HostWork
<1>9. CASE SessionStep /\ UNCHANGED mixedVars
  <2>1. Next
    BY <1>9 DEF SessionStep, Next, Pages
  <2> QED
    BY <1>9, <2>1, SessionTypes
<1>10. CASE UNCHANGED <<vars, mixedVars>>
  BY <1>10, SessionTypes DEF vars
<1> QED
  BY <1>1, <1>2, <1>3, <1>4, <1>5, <1>6, <1>7, <1>8, <1>9, <1>10 DEF MixedNext

\* The types of the host's device and a peer's, in every environment.
THEOREM MixedTypeCorrect == MixedSpec => []MixedTypeOK
<1>1. MixedTypeInv => MixedTypeOK
  BY TypeInvOK DEF MixedTypeInv, MixedTypeOK
<1> QED
  BY <1>1, MixedTypeInit, MixedTypeNext, PTL DEF MixedSpec

-----------------------------------------------------------------------------
(* Steps of the host's user, and links.                                    *)

\* The environments where no run with a peer is cut short.
Calm == Faults \subseteq {"refuse", "close"}

LEMMA CalmInit == MixedInit => CalmInv
<1> SUFFICES ASSUME MixedInit PROVE CalmInv
  OBVIOUS
<1>1. /\ Host = Fresh /\ Guest = Fresh /\ ToHost = <<>> /\ ToGuest = <<>>
      /\ ~linked["host"] /\ ~linked["guest"] /\ Range(<<>>) = {}
      /\ \A K : OnlyLast(<<>>, K)
  BY RangeEmpty DEF MixedInit, Host, Guest, ToHost, ToGuest, Pages, Range, OnlyLast
<1>2. /\ Fresh.run = NoRun /\ ~Fresh.attached /\ Fresh.jobs = {} /\ Fresh.pendingProverReq = NoRun
      /\ Fresh.shown.run = NoRun /\ \A x \in Roles : Fresh.results[x] = NoRun
      /\ "prover" \in Roles /\ "verifier" \in Roles
  BY DEF Fresh, NoResults, Roles
<1>3. asked = 0 /\ alone = {} /\ localJobs = {} /\ hashing = {} /\ Here = {}
  BY DEF MixedInit, Here
<1> HIDE DEF Fresh
<1>4. HostSide
  BY <1>1, <1>2, <1>3
     DEF HostSide, ToHostInv, HostRunInv, HostOwnInv, Agreed, Host, NoRun
<1>5. GuestSide
  BY <1>1, <1>2, <1>3 DEF GuestSide, GuestRunInv, ToGuestInv, HereInv, Agreed, Guest
<1> QED
  BY <1>1, <1>4, <1>5 DEF CalmInv, LinkInv, Both

LEMMA RoleNames ==
    /\ "prover" \in Roles /\ "verifier" \in Roles
    /\ \A x \in Roles : NoResults[x] = NoRun
BY DEF Roles, NoResults

LEMMA PageOf ==
    ASSUME MixedTypeInv
    PROVE  /\ \A d : page' = [page EXCEPT !["host"] = d] => Host' = d /\ Guest' = Guest
           /\ \A d : page' = [page EXCEPT !["guest"] = d] => Guest' = d /\ Host' = Host
BY DEF MixedTypeInv, TypeInv, Pages, Host, Guest

LEMMA ProveLocalCalm ==
    ASSUME MixedTypeInv, CalmInv, ProveLocal
    PROVE  CalmInv'
<1> USE RoleNames
<1> DEFINE r == asked + 1
<1>1. /\ r \in Runs /\ asked' = r /\ ~linked["host"] /\ hashing = {} /\ Host.run = NoRun
      /\ alone' = alone \cup {r} /\ net' = net /\ linked' = linked /\ hashing' = {}
      /\ localJobs' = localJobs \cup {[run |-> r, role |-> role] : role \in Roles}
      /\ UNCHANGED <<guestVars, history>>
  BY DEF ProveLocal, StartLocalRun, Host
<1>2. /\ Host' = [NewRun(Host, r) EXCEPT !.button = "running"] /\ Guest' = Guest
  BY PageOf DEF ProveLocal, StartLocalRun, Host
<1>3. /\ Host'.run = r /\ ~Host'.attached /\ Host'.results = NoResults
      /\ Host'.pendingProverReq = Host.pendingProverReq /\ Host'.jobs = Host.jobs
      /\ Host'.shown = Host.shown
  BY <1>1, <1>2, Names, NewRunFields
<1>4. /\ ToHost = <<>> /\ Host.jobs = {} /\ Host.pendingProverReq = NoRun /\ localJobs = {}
  BY <1>1, Names DEF CalmInv, HostSide, ToHostInv, HostRunInv, HostOwnInv
<1>5. /\ Range(ToHost') = {} /\ OnlyLast(ToHost', Ends) /\ ToHost' = <<>>
      /\ ToGuest' = ToGuest /\ Here' = Here
  BY <1>1, <1>4, RangeEmpty, Names DEF ToHost, ToGuest, Here, guestVars
<1>6. r \in Nat /\ r # NoRun /\ asked \in Nat /\ asked < r
  BY <1>1, RunFacts, Names
<1>7. HostSide'
  <2>1. ToHostInv'
    BY <1>5 DEF ToHostInv
  <2>2. HostRunInv'
    BY <1>3, <1>4, <1>5 DEF HostRunInv, Agreed, Host, CalmInv, HostSide
  <2>3. HostOwnInv'
    <3>1. \A j \in localJobs' : j.run = r /\ j.role \in Roles
      BY <1>1, <1>4
    <3>2. \A q \in alone' : q <= r
      BY <1>1, <1>6, RunFacts DEF CalmInv, HostSide, HostOwnInv, MixedTypeInv
    <3> QED
      BY <1>1, <1>3, <1>6, <3>1, <3>2 DEF HostOwnInv
  <2> QED
    BY <2>1, <2>2, <2>3 DEF HostSide
<1>8. GuestSide'
  <2>1. GuestRunInv'
    BY <1>2 DEF GuestRunInv, Agreed, Guest, CalmInv, GuestSide
  <2>2. ToGuestInv'
    <3>1. \A m \in Range(ToGuest) : m.run \in Nat /\ m.run <= asked
      BY Names, RunFacts DEF CalmInv, GuestSide, ToGuestInv
    <3>2. Idle' <=> Idle
      BY <1>1, <1>2 DEF Idle, Guest, guestVars
    <3> QED
      BY <1>1, <1>2, <1>5, <1>6, <3>1, <3>2 DEF ToGuestInv, CalmInv, GuestSide
  <2>3. HereInv'
    BY <1>1, <1>2, <1>5 DEF HereInv, CalmInv, GuestSide, guestVars
  <2> QED
    BY <2>1, <2>2, <2>3 DEF GuestSide
<1> QED
  BY <1>1, <1>7, <1>8 DEF CalmInv, LinkInv, Both

\* What a message to the guest adds.
LEMMA ToGuestSent ==
    ASSUME MixedTypeInv, NEW kind \in Kinds, NEW r \in Runs,
           net' = Send(net, "host", Msg(kind, r))
    PROVE  /\ ToHost' = ToHost
           /\ ~Both => ToGuest' = ToGuest
           /\ Both =>
                /\ Range(ToGuest') = Range(ToGuest) \cup {Msg(kind, r)}
                /\ OnTheWay = {} => OnlyLast(ToGuest', {"propose"})
           /\ Msg(kind, r).kind = kind /\ Msg(kind, r).run = r
           /\ OnTheWay' = IF Both /\ kind = "propose" THEN OnTheWay \cup {r} ELSE OnTheWay
<1>1. Msg(kind, r) \in Message /\ Msg(kind, r).kind = kind /\ Msg(kind, r).run = r
  BY MsgType DEF Msg
<1>2. /\ ToHost' = ToHost /\ (~Both => ToGuest' = ToGuest)
      /\ Both => ToGuest' = Append(ToGuest, Msg(kind, r))
  BY <1>1, SendNet DEF MixedTypeInv, Pages, Other, ToHost, ToGuest
<1>3. Both =>
        /\ Range(ToGuest') = Range(ToGuest) \cup {Msg(kind, r)}
        /\ OnTheWay = {} => OnlyLast(ToGuest', {"propose"})
  <2>1. OnTheWay = {} => \A n \in Range(ToGuest) : n.kind \notin {"propose"}
    BY DEF OnTheWay
  <2> QED
    BY <1>1, <1>2, <2>1, RangeAppend, Names
<1>4. CASE ~Both
  BY <1>1, <1>2, <1>3, <1>4 DEF OnTheWay
<1>5. CASE Both
  <2>1. OnTheWay' = {m.run : m \in {n \in Range(ToGuest) \cup {Msg(kind, r)} :
                                      n.kind = "propose"}}
    BY <1>3, <1>5 DEF OnTheWay
  <2>2. OnTheWay' = IF kind = "propose" THEN OnTheWay \cup {r} ELSE OnTheWay
    BY <1>1, <2>1 DEF OnTheWay
  <2> QED
    BY <1>1, <1>2, <1>3, <1>5, <2>2
<1> QED
  BY <1>4, <1>5

\* The same for the host.
LEMMA ToHostSent ==
    ASSUME MixedTypeInv, NEW kind \in Kinds, NEW r \in Runs,
           net' = Send(net, "guest", Msg(kind, r))
    PROVE  /\ ToGuest' = ToGuest /\ OnTheWay' = OnTheWay
           /\ ~Both => ToHost' = ToHost
           /\ Both =>
                /\ Range(ToHost') = Range(ToHost) \cup {Msg(kind, r)}
                /\ ToHost' # <<>>
                /\ (\A n \in Range(ToHost) : n.kind \notin Ends) => OnlyLast(ToHost', Ends)
           /\ Msg(kind, r).kind = kind /\ Msg(kind, r).run = r
<1>1. Msg(kind, r) \in Message /\ Msg(kind, r).kind = kind /\ Msg(kind, r).run = r
  BY MsgType DEF Msg
<1>2. /\ ToGuest' = ToGuest /\ (~Both => ToHost' = ToHost)
      /\ Both => ToHost' = Append(ToHost, Msg(kind, r))
  BY <1>1, SendNet DEF MixedTypeInv, Pages, Other, ToHost, ToGuest
<1>3. Both =>
        /\ Range(ToHost') = Range(ToHost) \cup {Msg(kind, r)} /\ ToHost' # <<>>
        /\ (\A n \in Range(ToHost) : n.kind \notin Ends) => OnlyLast(ToHost', Ends)
  BY <1>1, <1>2, RangeAppend, Names
<1> QED
  BY <1>1, <1>2, <1>3 DEF OnTheWay

\* A message that is taken.
LEMMA NetTaken ==
    ASSUME MixedTypeInv, NEW p \in Pages, NEW kind, Arrives(p, kind), net' = Taken(p)
    PROVE  /\ Head(net[p]) \in Range(net[p]) /\ Head(net[p]).kind = kind
           /\ Range(net[p]') \subseteq Range(net[p])
           /\ \A K : OnlyLast(net[p], K) =>
                OnlyLast(net[p]', K) /\ (kind \in K => net[p]' = <<>>)
           /\ \A q \in Pages \ {p} : net[q]' = net[q]
           /\ OnTheWay' \subseteq OnTheWay /\ net[p] # <<>>
<1>1. /\ net[p] \in Seq(Message) /\ net[p] # <<>> /\ Head(net[p]).kind = kind
      /\ net[p]' = Tail(net[p]) /\ \A q \in Pages \ {p} : net[q]' = net[q]
  BY DEF MixedTypeInv, TypeInv, Arrives, Taken
<1>2. /\ Head(net[p]) \in Range(net[p]) /\ Range(net[p]') \subseteq Range(net[p])
      /\ \A K : OnlyLast(net[p], K) =>
           OnlyLast(net[p]', K) /\ (kind \in K => net[p]' = <<>>)
  BY <1>1, RangeTail
<1>3. Range(ToGuest') \subseteq Range(ToGuest)
  BY <1>1, <1>2 DEF Pages, ToGuest
<1> QED
  BY <1>1, <1>2, <1>3 DEF OnTheWay

\* What the invariant says while a local run is on.
LEMMA WhileAlone ==
    ASSUME MixedTypeInv, CalmInv, Host.run \in alone
    PROVE  /\ Host.run \in Runs /\ ToHost = <<>> /\ Host.jobs = {}
           /\ ~Host.attached /\ Host.pendingProverReq = NoRun /\ hashing = {}
           /\ Both => Idle /\ OnTheWay = {} /\ Here = {} /\ Guest.jobs = {}
<1>1. Host.run \in Runs /\ Host.run # NoRun
  BY RunFacts, Names DEF MixedTypeInv
<1>2. Range(ToHost) = {} /\ ~Host.attached /\ Host.jobs = {}
      /\ Host.pendingProverReq = NoRun /\ hashing = {}
  BY <1>1 DEF CalmInv, HostSide, ToHostInv, HostRunInv, HostOwnInv
<1>3. ASSUME Both PROVE Idle /\ OnTheWay = {} /\ Here = {} /\ Guest.jobs = {}
  <2>1. Idle
    BY <1>3 DEF CalmInv, LinkInv
  <2>2. Here = {} /\ Guest.jobs = {}
    BY <2>1, Names, RunFacts DEF Idle, Here, CalmInv, GuestSide, GuestRunInv, Guest
  <2>3. OnTheWay = {}
    <3>1. \A r \in OnTheWay : r \in Runs
      BY Names DEF OnTheWay
    <3> QED
      BY <1>2, <1>3, <3>1, RunFacts DEF CalmInv, LinkInv
  <2> QED
    BY <2>1, <2>2, <2>3
<1> QED
  BY <1>1, <1>2, <1>3, RangeEmpty, Names

\* A page without a run has no jobs, and nothing is on its way to such a host.
LEMMA WhileFree ==
    ASSUME MixedTypeInv, CalmInv
    PROVE  /\ Guest.run = NoRun => Guest.jobs = {} /\ ~Guest.attached
           /\ Host.run = NoRun =>
                /\ ToHost = <<>> /\ Host.jobs = {} /\ ~Host.attached
                /\ Host.pendingProverReq = NoRun /\ localJobs = {}
                /\ Both => Here = {} /\ OnTheWay = {} /\ Guest.jobs = {}
<1>1. Guest.run = NoRun => Guest.jobs = {} /\ ~Guest.attached
  BY Names, RunFacts DEF CalmInv, GuestSide, GuestRunInv
<1>2. ASSUME Host.run = NoRun
      PROVE  /\ ToHost = <<>> /\ Host.jobs = {} /\ ~Host.attached
             /\ Host.pendingProverReq = NoRun /\ localJobs = {}
  <2>1. Range(ToHost) = {}
    BY <1>2, Names, RunFacts DEF CalmInv, HostSide, ToHostInv
  <2>2. Host.jobs = {} /\ ~Host.attached /\ Host.pendingProverReq = NoRun /\ localJobs = {}
    BY <1>2, Names, RunFacts DEF CalmInv, HostSide, HostRunInv, HostOwnInv
  <2> QED
    BY <2>1, <2>2, RangeEmpty, Names
<1>3. ASSUME Host.run = NoRun, Both PROVE Here = {} /\ OnTheWay = {} /\ Guest.jobs = {}
  <2>1. \A r \in Here \cup OnTheWay : r \in Runs
    BY Names DEF OnTheWay
  <2>2. Here = {} /\ OnTheWay = {}
    BY <1>2, <1>3, <2>1, RunFacts DEF CalmInv, LinkInv
  <2>3. Guest.jobs = {}
    BY <1>3, Names, RunFacts DEF CalmInv, LinkInv, GuestSide, GuestRunInv
  <2> QED
    BY <2>2, <2>3
<1> QED
  BY <1>1, <1>2, <1>3

\* A local run tells a peer that it ends or has a result: the peer has nothing to do.
LEMMA AloneSends ==
    ASSUME MixedTypeInv, CalmInv, Host.run \in alone, NEW kind \in {"abort", "done"},
           \/ net' = Send(net, "host", Msg(kind, Host.run))
           \/ net' = net,
           Guest' = Guest, alone' = alone, asked' = asked, linked' = linked,
           UNCHANGED guestVars
    PROVE  GuestSide' /\ OnTheWay' = OnTheWay /\ Here' = Here /\ ToHost' = ToHost
<1>1. Host.run \in Runs /\ kind \in Kinds /\ Host.run <= asked
  BY WhileAlone DEF Kinds, CalmInv, HostSide, HostOwnInv
<1>2. Here' = Here /\ (Idle' <=> Idle)
  BY DEF Here, guestVars, Idle, Guest
<1>3. CASE net' = net \/ ~Both
  <2>1. ToHost' = ToHost /\ ToGuest' = ToGuest
    BY <1>1, <1>3, ToGuestSent DEF ToHost, ToGuest
  <2>2. Alike(Guest, Guest')
    BY DEF Alike
  <2> QED
    BY <1>2, <2>1, <2>2, GuestKept DEF CalmInv, OnTheWay
<1>4. CASE net' # net /\ Both
  <2>1. /\ Idle /\ OnTheWay = {} /\ Here = {} /\ Guest.run = NoRun
    BY <1>4, WhileAlone DEF Idle, Guest
  <2>2. /\ ToHost' = ToHost /\ OnTheWay' = OnTheWay /\ OnlyLast(ToGuest', {"propose"})
        /\ Range(ToGuest') = Range(ToGuest) \cup {Msg(kind, Host.run)}
        /\ Msg(kind, Host.run).kind = kind /\ Msg(kind, Host.run).run = Host.run
    BY <1>1, <1>4, <2>1, ToGuestSent
  <2>3. ToGuestInv'
    BY <1>1, <1>2, <2>1, <2>2 DEF ToGuestInv, CalmInv, GuestSide
  <2>4. GuestRunInv'
    BY DEF GuestRunInv, Agreed, Guest, CalmInv, GuestSide
  <2>5. HereInv'
    BY <1>2, <2>1 DEF HereInv
  <2> QED
    BY <1>2, <2>2, <2>3, <2>4, <2>5 DEF GuestSide
<1> QED
  BY <1>3, <1>4

LEMMA AbortLocalCalm ==
    ASSUME MixedTypeInv, CalmInv, AbortLocal
    PROVE  CalmInv'
<1> USE RoleNames
<1>1. /\ Host.run \in alone /\ net' = Send(net, "host", Msg("abort", Host.run))
      /\ Host' = Abort(Host) /\ Guest' = Guest /\ localJobs' = {}
      /\ UNCHANGED <<alone, asked, linked, hashing, started>> /\ UNCHANGED guestVars
  BY PageOf DEF AbortLocal, Host, hostVars, history
<1>2. GuestSide' /\ OnTheWay' = OnTheWay /\ Here' = Here /\ ToHost' = ToHost
  BY <1>1, AloneSends
<1>3. /\ Host.run \in Runs /\ ToHost = <<>> /\ hashing = {} /\ NoRun \notin alone
      /\ Both => OnTheWay = {} /\ Here = {} /\ Guest.jobs = {}
  BY <1>1, WhileAlone, Names
<1>4. Ended(Host, Host') /\ Host'.jobs = {} /\ Host'.shown = Host.shown
  BY <1>1, <1>3, Names, RunFacts, AbortFields
<1>5. Range(ToHost') = {} /\ OnlyLast(ToHost', Ends) /\ asked \in Nat /\ NoRun <= asked
  BY <1>2, <1>3, RangeEmpty, Names DEF NoRun
<1>6. HostSide'
  BY <1>1, <1>2, <1>3, <1>4, <1>5
     DEF HostSide, ToHostInv, HostRunInv, HostOwnInv, Ended, Agreed, Host, CalmInv
<1> QED
  BY <1>1, <1>2, <1>3, <1>4, <1>6 DEF CalmInv, LinkInv, Both, Ended

\* Another tab, the other mode without a link, a worker that has loaded.
LEMMA QuietHostCalm ==
    ASSUME MixedTypeInv, CalmInv,
           ChooseTab \/ ToPeer \/ \E role \in Roles : HostReady(role)
    PROVE  CalmInv'
<1>1. /\ Alike(Host, Host') /\ Guest' = Guest
      /\ UNCHANGED <<net, linked, alone, localJobs, started>>
      /\ UNCHANGED <<hostVars, guestVars>>
  <2>1. CASE ChooseTab \/ ToPeer
    <3>1. PICK m, up : page' = [page EXCEPT !["host"] = Rest(Host, m, up)]
      BY <2>1 DEF ChooseTab, ToPeer, Host
    <3>2. Alike(Host, Host') /\ Guest' = Guest
      <4>1. Host' = Rest(Host, m, up) /\ Guest' = Guest
        BY <3>1, PageOf
      <4> QED
        BY <4>1, RestFields, Names
    <3> QED
      BY <2>1, <3>2 DEF ChooseTab, ToPeer, mixedVars, history
  <2>2. ASSUME NEW role \in Roles, HostReady(role)
        PROVE  /\ Alike(Host, Host') /\ Guest' = Guest
               /\ UNCHANGED <<net, linked, alone, localJobs, started>>
               /\ UNCHANGED <<hostVars, guestVars>>
    <3>1. PICK look : page' = [page EXCEPT !["host"] = WorkerUp(Host, role, look)]
      BY <2>2 DEF HostReady, Host
    <3>2. Alike(Host, Host') /\ Guest' = Guest
      <4>1. Host' = WorkerUp(Host, role, look) /\ Guest' = Guest
        BY <3>1, PageOf
      <4> QED
        BY <4>1, UpFields, Names
    <3> QED
      BY <2>2, <3>2 DEF HostReady, mixedVars, history
  <2> QED
    BY <2>1, <2>2
<1>2. Alike(Guest, Guest') /\ ToHost' = ToHost /\ ToGuest' = ToGuest /\ (Both' => Both)
  BY <1>1 DEF Alike, ToHost, ToGuest, Both
<1> QED
  BY <1>1, <1>2, HostKept, GuestKept, LinkKept DEF CalmInv, hostVars

\* The host's end of a link is closed, with whatever run is on.
LEMMA HostLeaves ==
    ASSUME MixedTypeInv, CalmInv, ~linked'["host"], ToHost' = <<>>,
           \/ Alike(Abort(Host), Host')
           \/ Host.run = NoRun /\ Alike(Host, Host'),
           Guest' = Guest, ToGuest' = ToGuest, linked'["guest"] = linked["guest"],
           localJobs' = {}, UNCHANGED <<alone, asked, hashing, started>>, UNCHANGED guestVars
    PROVE  CalmInv'
<1> USE RoleNames
<1>1. /\ Host'.run = NoRun /\ ~Host'.attached /\ Host'.jobs = {} /\ Host'.shown = Host.shown
      /\ Host'.pendingProverReq = NoRun /\ \A x \in Roles : Host'.results[x] = NoRun
  <2>1. CASE Host.run = NoRun
    <3>1. Alike(Host, Host')
      BY <2>1, AbortFields, Names
    <3>2. \A x \in Roles : Host.results[x] = NoRun
      BY <2>1 DEF CalmInv, HostSide, HostRunInv
    <3> QED
      BY <2>1, <3>1, <3>2, WhileFree DEF Alike
  <2>2. CASE Host.run # NoRun
    BY <2>2, AbortFields, Names DEF Alike, Ended
  <2> QED
    BY <2>1, <2>2
<1>2. Range(ToHost') = {} /\ OnlyLast(ToHost', Ends) /\ asked \in Nat /\ NoRun <= asked
      /\ NoRun \notin alone
  BY RangeEmpty, Names DEF NoRun
<1>3. HostSide'
  BY <1>1, <1>2 DEF HostSide, ToHostInv, HostRunInv, HostOwnInv, Agreed, Host, CalmInv
<1>4. Alike(Guest, Guest')
  BY DEF Alike
<1> QED
  BY <1>3, <1>4, GuestKept DEF CalmInv, LinkInv, Both

LEMMA ToLocalCalm ==
    ASSUME MixedTypeInv, CalmInv, ToLocal
    PROVE  CalmInv'
<1>1. /\ Guest' = Guest /\ ToGuest' = ToGuest /\ ToHost' = <<>> /\ ~linked'["host"]
      /\ linked'["guest"] = linked["guest"]
      /\ UNCHANGED <<alone, asked, hashing, started>> /\ UNCHANGED guestVars
      /\ localJobs' = IF linked["host"] THEN {} ELSE localJobs
  BY PageOf DEF ToLocal, hostVars, history, MixedTypeInv, TypeInv, Pages, ToHost, ToGuest
<1>2. Alike(IF linked["host"] THEN Abort(Host) ELSE Host, Host')
  <2>1. Abort(Host) \in CountingOf(Job)
    BY AbortType, Names
  <2> QED
    BY <2>1, PageOf, RestFields, Names DEF ToLocal, Host
<1>3. CASE linked["host"]
  BY <1>1, <1>2, <1>3, HostLeaves
<1>4. CASE ~linked["host"]
  <2>1. ToHost' = ToHost /\ linked'["host"] = linked["host"] /\ Alike(Guest, Guest')
    BY <1>1, <1>4 DEF CalmInv, HostSide, ToHostInv, Alike, MixedTypeInv, TypeInv, ToLocal, Pages
  <2> QED
    BY <1>1, <1>2, <1>4, <2>1, HostKept, GuestKept DEF CalmInv, LinkInv, Both
<1> QED
  BY <1>3, <1>4

LEMMA ConnectCalm ==
    ASSUME MixedTypeInv, CalmInv, Connect
    PROVE  CalmInv'
<1> USE RoleNames
<1>1. /\ ~linked["host"] /\ ToHost' = <<>> /\ ToGuest' = <<>> /\ Guest' = Fresh
      /\ Here' = {} /\ linked'["host"] /\ linked'["guest"] /\ pendingProposal' = NoRun
      /\ acceptedPending' = NoRun /\ compiling' = {}
      /\ UNCHANGED <<alone, asked, hashing, started, localJobs>>
  BY DEF Connect, hostVars, history, Pages, ToHost, ToGuest, Guest, Here
<1>2. Alike(Host, Host')
  BY RestFields, Names DEF Connect, Host
<1>3. ToHost = <<>> /\ ~Host.attached
  BY <1>1 DEF CalmInv, HostSide, ToHostInv, HostRunInv
<1>4. /\ Range(<<>>) = {} /\ OnlyLast(<<>>, Ends) /\ OnlyLast(<<>>, {"propose"})
  BY RangeEmpty DEF Range, OnlyLast
<1>5. HostSide'
  <2>1. ToHostInv' /\ HostOwnInv'
    BY <1>1, <1>2, <1>4 DEF ToHostInv, HostOwnInv, Alike, CalmInv, HostSide
  <2>2. HostRunInv'
    BY <1>1, <1>2, <1>3 DEF HostRunInv, Alike, Agreed, Host, CalmInv, HostSide
  <2> QED
    BY <2>1, <2>2 DEF HostSide
<1>6. /\ Fresh.run = NoRun /\ ~Fresh.attached /\ Fresh.jobs = {} /\ Fresh.shown.run = NoRun
      /\ \A x \in Roles : Fresh.results[x] = NoRun
  BY DEF Fresh
<1> HIDE DEF Fresh
<1>7. GuestSide'
  BY <1>1, <1>4, <1>6 DEF GuestSide, GuestRunInv, ToGuestInv, HereInv, Agreed, Guest
<1>8. OnTheWay' = {} /\ Idle'
  BY <1>1, <1>4, <1>6 DEF OnTheWay, Idle, Guest
<1> QED
  BY <1>1, <1>2, <1>3, <1>5, <1>6, <1>7, <1>8 DEF CalmInv, LinkInv, Alike

LEMMA CloseCalm ==
    ASSUME MixedTypeInv, CalmInv, NEW p \in Pages, Close(p)
    PROVE  CalmInv'
<1> USE RoleNames
<1>1. CASE p = "host"
  <2>1. /\ Guest' = Guest /\ ToGuest' = ToGuest /\ ToHost' = <<>> /\ ~linked'["host"]
        /\ linked'["guest"] = linked["guest"]
        /\ UNCHANGED <<alone, asked, hashing, started>> /\ UNCHANGED guestVars
        /\ localJobs' = IF Host.run # NoRun THEN {} ELSE localJobs
    BY <1>1, PageOf
       DEF Close, LinkDown, hostVars, guestVars, history, MixedTypeInv, TypeInv, Pages,
           ToHost, ToGuest, Host
  <2>2. \/ Alike(Abort(Host), Host')
        \/ Host.run = NoRun /\ Alike(Host, Host')
    <3>1. Host' = IF Host.run # NoRun THEN Abort(Host)
                  ELSE [Host EXCEPT !.button = IF page["host"].nReady = 2
                                               THEN "waiting" ELSE "loading"]
      BY <1>1, PageOf DEF Close, LinkDown, Host
    <3> QED
      BY <3>1, ButtonFields, Names DEF Alike, Buttons
  <2>3. localJobs' = {}
    BY <2>1, WhileFree
  <2> QED
    BY <2>1, <2>2, <2>3, HostLeaves
<1>2. CASE p = "guest"
  <2>1. /\ Host' = Host /\ ToHost' = ToHost /\ ToGuest' = <<>> /\ ~linked'["guest"]
        /\ linked'["host"] = linked["host"] /\ pendingProposal' = NoRun
        /\ acceptedPending' = NoRun /\ compiling' = compiling
        /\ UNCHANGED <<alone, asked, hashing, started, localJobs>>
    BY <1>2, PageOf
       DEF Close, LinkDown, hostVars, history, MixedTypeInv, TypeInv, Pages, ToHost, ToGuest, Host
  <2>2. Guest' = IF Guest.run # NoRun THEN Abort(Guest)
                 ELSE [Guest EXCEPT !.button = IF page["guest"].nReady = 2
                                               THEN "waiting" ELSE "loading"]
    BY <1>2, PageOf DEF Close, LinkDown, Guest
  <2>3. /\ Guest'.run = NoRun /\ ~Guest'.attached /\ Guest'.jobs = {}
        /\ Guest'.shown = Guest.shown /\ \A x \in Roles : Guest'.results[x] = NoRun
    <3>1. CASE Guest.run = NoRun
      <4>1. Alike(Guest, Guest')
        BY <2>2, <3>1, ButtonFields, Names DEF Buttons
      <4>2. \A x \in Roles : Guest.results[x] = NoRun
        BY <3>1 DEF CalmInv, GuestSide, GuestRunInv
      <4> QED
        BY <3>1, <4>1, <4>2, WhileFree DEF Alike
    <3>2. CASE Guest.run # NoRun
      BY <2>2, <3>2, AbortFields, Names DEF Ended
    <3> QED
      BY <3>1, <3>2
  <2>4. Range(ToGuest') = {} /\ OnlyLast(ToGuest', {"propose"})
    BY <2>1, RangeEmpty DEF Range, OnlyLast
  <2>5. GuestSide'
    BY <2>1, <2>3, <2>4
       DEF GuestSide, GuestRunInv, ToGuestInv, HereInv, Agreed, Guest, CalmInv
  <2>6. Alike(Host, Host')
    BY <2>1 DEF Alike
  <2> QED
    BY <2>1, <2>5, <2>6, HostKept DEF CalmInv, LinkInv, Both
<1> QED
  BY <1>1, <1>2 DEF Pages

\* A proposal leaves the host, or is made for a link that has closed.
LEMMA ProposeCalm ==
    ASSUME MixedTypeInv, CalmInv, Host.run = NoRun, NEW r \in Runs, r \notin alone,
           r <= asked', asked <= asked', asked' \in Nat,
           Host' \in {Propose(Host, r), [Propose(Host, r) EXCEPT !.button = "running"]},
           Guest' = Guest, hashing' = {},
           net' = Send(net, "host", Msg("propose", r)) \/ net' = net,
           UNCHANGED <<alone, started, localJobs, linked>>, UNCHANGED guestVars
    PROVE  CalmInv'
<1> USE RoleNames
<1>1. /\ Host'.run = r /\ ~Host'.attached /\ Host'.results = NoResults
      /\ Host'.pendingProverReq = r /\ Host'.jobs = Host.jobs /\ Host'.shown = Host.shown
  <2>1. Host \in CountingOf(Job)
    BY Names
  <2> HIDE DEF Host
  <2> QED
    BY <2>1 DEF Propose, NewRun, CountingOf, ControllerOf
<1>2. /\ ToHost = <<>> /\ Host.jobs = {} /\ ~Host.attached /\ localJobs = {}
      /\ Both => Here = {} /\ OnTheWay = {} /\ Guest.jobs = {}
  BY WhileFree
<1>3. /\ ToHost' = ToHost /\ Here' = Here /\ (Idle' <=> Idle) /\ (Both' <=> Both)
      /\ \/ ToGuest' = ToGuest
         \/ /\ Both /\ OnlyLast(ToGuest', {"propose"})
            /\ Range(ToGuest') = Range(ToGuest) \cup {Msg("propose", r)}
      /\ Msg("propose", r).kind = "propose" /\ Msg("propose", r).run = r
      /\ OnTheWay' \subseteq OnTheWay \cup {r}
  <2>1. Here' = Here /\ (Idle' <=> Idle) /\ (Both' <=> Both)
    BY DEF Here, guestVars, Idle, Both, Guest
  <2>2. Msg("propose", r).kind = "propose" /\ Msg("propose", r).run = r
    BY DEF Msg
  <2>3. CASE net' = net
    BY <2>1, <2>2, <2>3 DEF ToHost, ToGuest, OnTheWay
  <2>4. CASE net' = Send(net, "host", Msg("propose", r))
    BY <1>2, <2>1, <2>2, <2>4, ToGuestSent DEF Kinds
  <2> QED
    BY <2>3, <2>4
<1>4. r \in Nat /\ r # NoRun /\ asked \in Nat /\ \A q \in alone : q \in Nat
  BY RunFacts, Names DEF MixedTypeInv
<1>5. HostSide'
  <2>1. Range(ToHost') = {} /\ OnlyLast(ToHost', Ends)
    BY <1>2, <1>3, RangeEmpty, Names
  <2>2. ToHostInv'
    BY <1>2, <1>3, <2>1 DEF ToHostInv
  <2>3. HostRunInv'
    BY <1>1, <1>2, <1>3 DEF HostRunInv, Agreed, Host, CalmInv, HostSide
  <2>4. HostOwnInv'
    BY <1>1, <1>2, <1>4 DEF HostOwnInv, CalmInv, HostSide
  <2> QED
    BY <2>2, <2>3, <2>4 DEF HostSide
<1>6. GuestSide'
  <2>1. GuestRunInv'
    BY DEF GuestRunInv, Agreed, Guest, CalmInv, GuestSide
  <2>2. ToGuestInv'
    <3>1. \A m \in Range(ToGuest) : m.run \in Nat /\ m.run <= asked'
      BY <1>4, Names, RunFacts DEF CalmInv, GuestSide, ToGuestInv
    <3> QED
      BY <1>3, <3>1 DEF ToGuestInv, CalmInv, GuestSide
  <2>3. HereInv'
    BY <1>2, <1>3 DEF HereInv, CalmInv, GuestSide, guestVars
  <2> QED
    BY <2>1, <2>2, <2>3 DEF GuestSide
<1> QED
  BY <1>1, <1>2, <1>3, <1>5, <1>6 DEF CalmInv, LinkInv

LEMMA HashedCalm ==
    ASSUME MixedTypeInv, CalmInv, NEW r \in hashing, Hashed(r)
    PROVE  CalmInv'
<1>1. /\ Host.run = NoRun /\ r \notin alone /\ r <= asked /\ hashing = {r} /\ r \in Runs
      /\ asked \in Nat
  BY Names DEF CalmInv, HostSide, HostOwnInv, MixedTypeInv, TypeInv
<1>2. page' = [page EXCEPT !["host"] = Propose(Host, r)]
  BY DEF Hashed, HashDone, Host
<1>3. Host' = Propose(Host, r) /\ Guest' = Guest
  BY <1>2, PageOf
<1>4. /\ asked' = asked /\ hashing' = {}
      /\ net' = Send(net, "host", Msg("propose", r)) \/ net' = net
      /\ UNCHANGED <<alone, started, localJobs, linked>> /\ UNCHANGED guestVars
  BY <1>1 DEF Hashed, HashDone, history, mixedVars
<1> QED
  BY <1>1, <1>3, <1>4, ProposeCalm

LEMMA ClickProveCalm ==
    ASSUME Calm, MixedTypeInv, CalmInv, ClickProve, UNCHANGED mixedVars
    PROVE  CalmInv'
<1> DEFINE r == asked + 1
<1>1. /\ r \in Runs /\ asked' = r /\ Host.run = NoRun /\ hashing = {}
      /\ UNCHANGED <<alone, started, localJobs, linked>> /\ UNCHANGED guestVars
  BY DEF ClickProve, Calm, history, mixedVars, Host
<1>2. asked \in Nat /\ r \in Nat /\ r \notin alone /\ asked <= r
  BY Names DEF CalmInv, HostSide, HostOwnInv
<1>3. CASE r \notin Sourced
  <2>1. /\ page' = [page EXCEPT !["host"] = [Propose(Host, r) EXCEPT !.button = "running"]]
        /\ net' = Send(net, "host", Msg("propose", r)) /\ hashing' = {}
    BY <1>1, <1>3 DEF ClickProve, Host
  <2>2. Host' = [Propose(Host, r) EXCEPT !.button = "running"] /\ Guest' = Guest
    BY <2>1, PageOf
  <2> QED
    BY <1>1, <1>2, <2>1, <2>2, ProposeCalm
<1>4. CASE r \in Sourced
  <2>1. /\ page' = [page EXCEPT !["host"] = [Host EXCEPT !.button = "running"]]
        /\ net' = net /\ hashing' = {r}
    BY <1>1, <1>4 DEF ClickProve, Host
  <2>2. Alike(Host, Host') /\ Guest' = Guest
    BY <2>1, PageOf, ButtonFields, Names DEF Buttons
  <2>3. /\ ToHost' = ToHost /\ ToGuest' = ToGuest /\ Alike(Guest, Guest') /\ (Idle' <=> Idle)
        /\ Both' <=> Both
    BY <1>1, <2>1, <2>2 DEF ToHost, ToGuest, Alike, Idle, guestVars, Both, Guest
  <2>4. HostSide'
    <3>1. ToHostInv'
      BY <1>1, <2>2, <2>3 DEF CalmInv, HostSide, ToHostInv, Alike
    <3>2. HostRunInv'
      BY <1>1, <2>2, <2>3 DEF CalmInv, HostSide, HostRunInv, Alike, Agreed, Host
    <3>3. HostOwnInv'
      <4>1. \A q \in alone : q \in Nat /\ q <= asked
        BY RunFacts DEF CalmInv, HostSide, HostOwnInv, MixedTypeInv
      <4>2. NoRun <= r
        BY <1>2 DEF NoRun
      <4> QED
        BY <1>1, <1>2, <2>1, <2>2, <4>1, <4>2 DEF CalmInv, HostSide, HostOwnInv, Alike
    <3> QED
      BY <3>1, <3>2, <3>3 DEF HostSide
  <2>5. GuestSide'
    <3>1. GuestRunInv'
      BY <2>2 DEF GuestRunInv, Agreed, Guest, CalmInv, GuestSide
    <3>2. ToGuestInv'
      <4>1. \A m \in Range(ToGuest) : m.run \in Nat /\ m.run <= asked
        BY Names, RunFacts DEF CalmInv, GuestSide, ToGuestInv
      <4> QED
        BY <1>1, <1>2, <2>2, <2>3, <4>1 DEF ToGuestInv, CalmInv, GuestSide
    <3>3. HereInv'
      BY <1>1, <2>2, <2>3 DEF HereInv, CalmInv, GuestSide, guestVars, Here
    <3> QED
      BY <3>1, <3>2, <3>3 DEF GuestSide
  <2>6. LinkInv'
    BY <1>1, <2>1, <2>2, <2>3, LinkKept DEF CalmInv
  <2> QED
    BY <2>4, <2>5, <2>6 DEF CalmInv
<1> QED
  BY <1>3, <1>4

-----------------------------------------------------------------------------
(* The host's workers.                                                     *)

LEMMA LocalDoneCalm ==
    ASSUME MixedTypeInv, CalmInv, NEW j \in localJobs, LocalDone(j)
    PROVE  CalmInv'
<1> USE RoleNames
<1>1. /\ j.run = Host.run /\ Host.run \in alone /\ Host.results[j.role] = NoRun
      /\ j \in LocalJob /\ j.role \in Roles
      /\ \A k \in localJobs : k.run = Host.run /\ k \in LocalJob /\ Host.results[k.role] = NoRun
      /\ \A x \in Roles : Host.results[x] \in {NoRun, Host.run}
  BY DEF CalmInv, HostSide, HostOwnInv, HostRunInv, MixedTypeInv, LocalJob
<1>2. /\ Host.run \in Runs /\ Host.run # NoRun /\ ToHost = <<>> /\ Host.jobs = {}
      /\ ~Host.attached /\ Host.pendingProverReq = NoRun /\ hashing = {}
      /\ Both => Idle /\ OnTheWay = {} /\ Here = {} /\ Guest.jobs = {}
      /\ Host \in CountingOf(Job) /\ NoRun \notin alone /\ asked \in Nat
  BY <1>1, WhileAlone, RunFacts, Names
<1>3. PICK c \in RecordResult(Host, j.role, Host.run) : page' = [page EXCEPT !["host"] = c]
  BY <1>1 DEF LocalDone, Host
<1>4. /\ Host' = c /\ Guest' = Guest /\ localJobs' = localJobs \ {j}
      /\ net' = Send(net, "host", Msg("done", Host.run))
      /\ UNCHANGED <<alone, asked, linked, hashing, started>> /\ UNCHANGED guestVars
  BY <1>1, <1>2, <1>3, PageOf DEF LocalDone, Host, hostVars, history
<1>5. /\ Host'.jobs = Host.jobs
      /\ \/ /\ Host'.run = Host.run /\ Host'.attached = Host.attached
            /\ Host'.shown = Host.shown /\ Host'.pendingProverReq = Host.pendingProverReq
            /\ Host'.results = [Host.results EXCEPT ![j.role] = Host.run]
         \/ /\ Ended(Host, Host') /\ Host.results[OtherRole(j.role)] # NoRun
            /\ \A x \in Roles : Host'.shown.results[x] = Host'.shown.run
  BY <1>1, <1>2, <1>3, <1>4, RecordFields
<1>6. GuestSide' /\ OnTheWay' = OnTheWay /\ Here' = Here /\ ToHost' = ToHost
  BY <1>1, <1>4, AloneSends
<1>7. /\ Range(ToHost') = {} /\ OnlyLast(ToHost', Ends) /\ NoRun <= asked
      /\ Host.run <= asked /\ (Idle' <=> Idle)
  <2>1. Idle' <=> Idle
    BY <1>4 DEF Idle, guestVars, Guest
  <2>2. Host.run <= asked /\ NoRun <= asked
    BY <1>2 DEF CalmInv, HostSide, HostOwnInv, NoRun
  <2> QED
    BY <1>2, <1>6, <2>1, <2>2, RangeEmpty, Names
<1>8. \A k \in localJobs' : k \in localJobs /\ k.role \in Roles /\ k.role # j.role
  BY <1>1, <1>4 DEF LocalJob
<1>9. HostSide'
  <2>1. ToHostInv'
    BY <1>2, <1>6, <1>7 DEF ToHostInv
  <2>2. Host.results \in [Roles -> MaybeRun]
    BY <1>2 DEF CountingOf, ControllerOf, Results
  <2>3. HostRunInv'
    BY <1>1, <1>2, <1>4, <1>5, <1>6, <2>2
       DEF HostRunInv, Ended, Agreed, Host, CalmInv, HostSide
  <2>4. HostOwnInv'
    <3>1. CASE Host'.run = Host.run
      BY <1>1, <1>2, <1>4, <1>5, <1>7, <1>8, <2>2, <3>1
         DEF HostOwnInv, Ended, CalmInv, HostSide
    <3>2. CASE Host'.run # Host.run
      <4>1. localJobs' = {}
        BY <1>1, <1>5, <1>8, <3>2 DEF OtherRole, Roles
      <4> QED
        BY <1>2, <1>4, <1>5, <1>7, <3>2, <4>1 DEF HostOwnInv, Ended, CalmInv, HostSide
    <3> QED
      BY <3>1, <3>2
  <2> QED
    BY <2>1, <2>3, <2>4 DEF HostSide
<1> QED
  BY <1>1, <1>2, <1>4, <1>5, <1>6, <1>7, <1>9 DEF CalmInv, LinkInv, Both, Ended

\* The host's prover has a guest that verifies its run, or none.
LEMMA ProverSends ==
    ASSUME MixedTypeInv, CalmInv, Host.attached, NEW kind \in {"bytes", "done"},
           net' = Send(net, "host", Msg(kind, Host.run)),
           Guest' = Guest, alone' = alone, asked' = asked, linked' = linked,
           UNCHANGED guestVars
    PROVE  /\ GuestSide' /\ ToHost' = ToHost
           /\ Both => Here' = {} /\ OnTheWay' = {}
<1>1. /\ Host.run \in Runs /\ kind \in Kinds /\ Host.run <= asked /\ Host.run \notin alone
      /\ Host.pendingProverReq = NoRun
  BY RunFacts DEF Kinds, CalmInv, HostSide, HostOwnInv, HostRunInv, MixedTypeInv, TypeInv
<1>2. Here' = Here /\ (Idle' <=> Idle)
  BY DEF Here, guestVars, Idle, Guest
<1>3. Both => Here = {} /\ OnTheWay = {}
  <2>1. \A r \in Here \cup OnTheWay : r \in Runs
    BY Names DEF OnTheWay
  <2> QED
    BY <1>1, <2>1, RunFacts DEF CalmInv, LinkInv
<1>4. CASE ~Both
  <2>1. ToHost' = ToHost /\ ToGuest' = ToGuest
    BY <1>1, <1>4, ToGuestSent
  <2>2. Alike(Guest, Guest')
    BY DEF Alike
  <2> QED
    BY <1>4, <2>1, <2>2, GuestKept DEF CalmInv
<1>5. CASE Both
  <2>1. /\ ToHost' = ToHost /\ OnTheWay' = OnTheWay /\ OnlyLast(ToGuest', {"propose"})
        /\ Range(ToGuest') = Range(ToGuest) \cup {Msg(kind, Host.run)}
        /\ Msg(kind, Host.run).kind = kind /\ Msg(kind, Host.run).run = Host.run
    BY <1>1, <1>3, <1>5, ToGuestSent
  <2>2. Guest.run \in {Host.run, NoRun}
    BY <1>5 DEF CalmInv, LinkInv
  <2>3. ToGuestInv'
    BY <1>1, <1>2, <2>1, <2>2 DEF ToGuestInv, CalmInv, GuestSide
  <2>4. GuestRunInv'
    BY DEF GuestRunInv, Agreed, Guest, CalmInv, GuestSide
  <2>5. HereInv'
    BY <1>2, <1>3, <1>5 DEF HereInv
  <2> QED
    BY <1>2, <1>3, <1>5, <2>1, <2>3, <2>4, <2>5 DEF GuestSide
<1> QED
  BY <1>4, <1>5

LEMMA ProverSendCalm ==
    ASSUME MixedTypeInv, CalmInv, NEW j \in Host.jobs, JobSend("host", j),
           UNCHANGED mixedVars
    PROVE  CalmInv'
<1> USE RoleNames
<1>1. /\ Host.attached /\ j.run = Host.run /\ j.got # "foreign" /\ Host.jobs = {j}
      /\ Host \in CountingOf(Job) /\ j \in Job
  BY Names DEF CalmInv, HostSide, HostRunInv
<1>2. page' = [page EXCEPT !["host"] = [Host EXCEPT !.jobs = (Host.jobs \ {j})
                                          \cup {[j EXCEPT !.sent = TRUE]}]]
  BY DEF JobSend, Host
<1>3. /\ Host' = [Host EXCEPT !.jobs = {[j EXCEPT !.sent = TRUE]}] /\ Guest' = Guest
      /\ net' = Send(net, "host", Msg("bytes", Host.run))
      /\ UNCHANGED <<alone, asked, linked, hashing, started, localJobs>> /\ UNCHANGED guestVars
  <2>1. (Host.jobs \ {j}) \cup {[j EXCEPT !.sent = TRUE]} = {[j EXCEPT !.sent = TRUE]}
    BY <1>1
  <2>2. /\ Host' = [Host EXCEPT !.jobs = {[j EXCEPT !.sent = TRUE]}] /\ Guest' = Guest
    BY <1>2, <2>1, PageOf
  <2> QED
    BY <1>1, <2>2 DEF JobSend, Host, hostVars, history, mixedVars
<1>4. /\ Host'.run = Host.run /\ Host'.attached = Host.attached /\ Host'.results = Host.results
      /\ Host'.pendingProverReq = Host.pendingProverReq /\ Host'.shown = Host.shown
      /\ \A k \in Host'.jobs : k.run = Host.run /\ k.got # "foreign" /\ \A l \in Host'.jobs : l = k
  <2>1. [j EXCEPT !.sent = TRUE].run = j.run /\ [j EXCEPT !.sent = TRUE].got = j.got
    BY <1>1 DEF Job
  <2>2. Host'.jobs = {[j EXCEPT !.sent = TRUE]}
    BY <1>1, <1>3 DEF CountingOf, ControllerOf
  <2> QED
    BY <1>1, <1>3, <2>1, <2>2 DEF CountingOf, ControllerOf
<1>5. GuestSide' /\ ToHost' = ToHost /\ (Both => Here' = {} /\ OnTheWay' = {})
  BY <1>1, <1>3, ProverSends
<1>6. HostSide'
  <2>1. ToHostInv' /\ HostOwnInv'
    BY <1>3, <1>4, <1>5 DEF ToHostInv, HostOwnInv, CalmInv, HostSide
  <2>2. HostRunInv'
    BY <1>1, <1>3, <1>4, <1>5 DEF HostRunInv, Agreed, Host, CalmInv, HostSide
  <2> QED
    BY <2>1, <2>2 DEF HostSide
<1>7. (Both' <=> Both) /\ (Idle' <=> Idle)
  BY <1>3 DEF Both, Idle, guestVars, Guest
<1> QED
  BY <1>1, <1>3, <1>4, <1>5, <1>6, <1>7 DEF CalmInv, LinkInv

LEMMA ProverDoneCalm ==
    ASSUME MixedTypeInv, CalmInv, NEW j \in Host.jobs, JobDone("host", j),
           UNCHANGED mixedVars
    PROVE  CalmInv'
<1> USE RoleNames
<1> DEFINE w == [Host EXCEPT !.jobs = {}]
<1>1. /\ Host.attached /\ j.run = Host.run /\ Host.jobs = {j} /\ linked["host"]
      /\ Host \in CountingOf(Job) /\ Host.run \in started \ alone /\ Host.run # NoRun
      /\ \A x \in Roles : Host.results[x] \in {NoRun, Host.run}
      /\ Host.pendingProverReq = NoRun /\ localJobs = {} /\ hashing = {}
      /\ Host.results \in [Roles -> MaybeRun]
      /\ Host.results["verifier"] # NoRun => ToHost = <<>>
      /\ asked \in Nat /\ NoRun <= asked /\ NoRun \notin alone
  <2>1. Host \in CountingOf(Job) /\ asked \in Nat /\ NoRun \notin alone /\ NoRun \notin started
    BY Names
  <2>2. Host.results \in [Roles -> MaybeRun]
    BY <2>1 DEF CountingOf, ControllerOf, Results
  <2>3. /\ Host.attached /\ j.run = Host.run /\ Host.jobs = {j} /\ linked["host"]
        /\ Host.run \in started \ alone /\ Host.pendingProverReq = NoRun
        /\ \A x \in Roles : Host.results[x] \in {NoRun, Host.run}
        /\ Host.results["verifier"] # NoRun => ToHost = <<>>
    BY DEF CalmInv, HostSide, HostRunInv
  <2>4. localJobs = {} /\ hashing = {}
    BY <2>1, <2>3 DEF CalmInv, HostSide, HostOwnInv
  <2> QED
    BY <2>1, <2>2, <2>3, <2>4 DEF NoRun
<1>2. PICK c \in RecordResult(w, "prover", Host.run) : page' = [page EXCEPT !["host"] = c]
  <2>1. Without("host", j) = w
    <3>1. Host.jobs \ {j} = {}
      BY <1>1
    <3> QED
      BY <3>1 DEF Without, Host
  <2> QED
    BY <1>1, <2>1 DEF JobDone, RoleOf
<1>3. /\ Host' = c /\ Guest' = Guest
      /\ net' = Send(net, "host", Msg("done", Host.run))
      /\ UNCHANGED <<alone, asked, linked, hashing, started, localJobs>> /\ UNCHANGED guestVars
  BY <1>1, <1>2, PageOf DEF JobDone, Host, hostVars, history, mixedVars
<1>4. /\ w.run = Host.run /\ w.attached = Host.attached /\ w.results = Host.results
      /\ w.shown = Host.shown /\ w.pendingProverReq = NoRun /\ w.jobs = {}
      /\ w \in CountingOf(Job)
  BY <1>1 DEF CountingOf, ControllerOf, Loaded
<1>5. /\ Host'.jobs = {}
      /\ \/ /\ Host'.run = Host.run /\ Host'.attached
            /\ Host'.shown = Host.shown /\ Host'.pendingProverReq = NoRun
            /\ Host'.results = [Host.results EXCEPT !["prover"] = Host.run]
         \/ /\ Host'.run = NoRun /\ ~Host'.attached /\ Host'.results = NoResults
            /\ Host'.pendingProverReq = NoRun /\ Host.results["verifier"] # NoRun
            /\ \A x \in Roles : Host'.shown.results[x] = Host'.shown.run
  <2> HIDE DEF w
  <2>1. c \in RecordResult(w, "prover", w.run)
    BY <1>2, <1>4
  <2>2. w.run # NoRun /\ \A x \in Roles : w.results[x] \in {NoRun, w.run}
    BY <1>1, <1>4
  <2>3. /\ c.jobs = w.jobs
        /\ \/ /\ c.run = w.run /\ c.attached = w.attached /\ c.shown = w.shown
              /\ c.pendingProverReq = w.pendingProverReq
              /\ c.results = [w.results EXCEPT !["prover"] = w.run]
           \/ /\ Ended(w, c) /\ w.results[OtherRole("prover")] # NoRun
              /\ \A x \in Roles : c.shown.results[x] = c.shown.run
    BY <1>4, <2>1, <2>2, RecordFields
  <2> QED
    BY <1>1, <1>3, <1>4, <2>3 DEF Ended, OtherRole
<1>6. GuestSide' /\ ToHost' = ToHost /\ (Both => Here' = {} /\ OnTheWay' = {})
  BY <1>1, <1>3, ProverSends
<1>7. (Both' <=> Both) /\ (Idle' <=> Idle)
  BY <1>3 DEF Both, Idle, guestVars, Guest
<1>8. CASE Host'.run = Host.run
  <2>1. ToHostInv' /\ HostOwnInv'
    BY <1>1, <1>3, <1>5, <1>6, <1>8 DEF ToHostInv, HostOwnInv, CalmInv, HostSide
  <2>2. HostRunInv'
    BY <1>1, <1>3, <1>5, <1>6, <1>8 DEF HostRunInv, Agreed, Host, CalmInv, HostSide
  <2>3. LinkInv'
    BY <1>1, <1>3, <1>5, <1>6, <1>7, <1>8 DEF CalmInv, LinkInv
  <2> QED
    BY <1>6, <2>1, <2>2, <2>3 DEF CalmInv, HostSide
<1>9. CASE Host'.run # Host.run
  <2>1. ToHost' = <<>> /\ Range(ToHost') = {} /\ OnlyLast(ToHost', Ends)
    BY <1>1, <1>5, <1>6, <1>9, RangeEmpty, Names
  <2>2. HostSide'
    BY <1>1, <1>3, <1>5, <1>9, <2>1
       DEF HostSide, ToHostInv, HostOwnInv, HostRunInv, Agreed, Host, CalmInv
  <2>3. LinkInv'
    BY <1>1, <1>3, <1>5, <1>6, <1>7, <1>9, <2>1 DEF CalmInv, LinkInv
  <2> QED
    BY <1>6, <2>2, <2>3 DEF CalmInv
<1> QED
  BY <1>8, <1>9

\* No party throws in a calm environment, and none gets bytes of another run.
LEMMA NoJobError ==
    ASSUME Calm, MixedTypeInv, CalmInv, NEW p \in Pages, NEW j \in page[p].jobs
    PROVE  ~JobError(p, j)
BY DEF Calm, JobError, CalmInv, HostSide, HostRunInv, GuestSide, GuestRunInv, Pages, Host, Guest

-----------------------------------------------------------------------------
(* What the host receives.                                                 *)

LEMMA HostTaken ==
    ASSUME MixedTypeInv, CalmInv, NEW kind, Arrives("host", kind), net' = Taken("host"),
           Guest' = Guest, UNCHANGED <<linked, alone, asked>>, UNCHANGED guestVars
    PROVE  /\ Head(net["host"]).run = Host.run /\ Host.run \in Runs /\ Host.run # NoRun
           /\ Host.run \notin alone /\ linked["host"] /\ localJobs = {} /\ hashing = {}
           /\ kind = "ready" => Host.run \in started
           /\ kind \in Refusals => ~Host.attached /\ Host.jobs = {}
           /\ Host.results["verifier"] = NoRun
           /\ Range(ToHost') \subseteq Range(ToHost) /\ OnlyLast(ToHost', Ends)
           /\ kind \in Ends => ToHost' = <<>> /\ Range(ToHost') = {}
           /\ kind \in Ends /\ Both => Guest.jobs = {}
           /\ Both => Here' = {} /\ OnTheWay' = {} /\ Guest.run \in {Host.run, NoRun}
           /\ GuestSide' /\ (Both' <=> Both)
<1>1. /\ Head(ToHost) \in Range(ToHost) /\ Head(ToHost).kind = kind /\ ToHost # <<>>
      /\ Range(ToHost') \subseteq Range(ToHost)
      /\ OnlyLast(ToHost', Ends) /\ (kind \in Ends => ToHost' = <<>>)
      /\ ToGuest' = ToGuest /\ OnTheWay' \subseteq OnTheWay /\ linked["host"]
  <2>1. OnlyLast(net["host"], Ends)
    BY DEF CalmInv, HostSide, ToHostInv, ToHost
  <2>2. "host" \in Pages /\ "guest" \in Pages \ {"host"}
    BY DEF Pages
  <2> QED
    BY <2>1, <2>2, NetTaken DEF ToHost, ToGuest, Arrives
<1>2. /\ Head(ToHost).run = Host.run /\ Host.run \notin alone
      /\ kind = "ready" => Host.run \in started
      /\ kind \in Refusals => ~Host.attached
      /\ \A m \in Range(ToHost) : m.run = Host.run
  BY <1>1 DEF CalmInv, HostSide, ToHostInv
<1>3. Host.run \in Runs /\ Host.run # NoRun
  BY <1>1, <1>2, Names, RunFacts
<1>4. /\ localJobs = {} /\ hashing = {} /\ Host.results["verifier"] = NoRun
      /\ kind \in Refusals => Host.jobs = {}
  BY <1>1, <1>2, <1>3 DEF CalmInv, HostSide, HostOwnInv, HostRunInv
<1>5. /\ kind \in Ends /\ Both => Guest.jobs = {}
      /\ Both => Here = {} /\ OnTheWay = {} /\ Guest.run \in {Host.run, NoRun}
  BY <1>1 DEF CalmInv, LinkInv
<1>6. Here' = Here /\ Alike(Guest, Guest') /\ (Both' <=> Both)
  BY DEF Here, guestVars, Alike, Both
<1>7. GuestSide'
  BY <1>1, <1>6, GuestKept DEF CalmInv
<1>8. kind \in Ends => Range(ToHost') = {}
  BY <1>1, RangeEmpty DEF Range
<1> QED
  BY <1>1, <1>2, <1>3, <1>4, <1>5, <1>6, <1>7, <1>8 DEF ToHost

LEMMA ReceiveReadyCalm ==
    ASSUME MixedTypeInv, CalmInv, ReceiveReady, UNCHANGED mixedVars
    PROVE  CalmInv'
<1> USE RoleNames
<1>1. /\ Arrives("host", "ready") /\ net' = Taken("host")
      /\ page' = [page EXCEPT !["host"] = AttachProver(Host)]
      /\ UNCHANGED <<linked, alone, asked, localJobs, hashing, started>> /\ UNCHANGED guestVars
  BY DEF ReceiveReady, hostVars, history, mixedVars, Host
<1>2. Host' = AttachProver(Host) /\ Guest' = Guest
  BY <1>1, PageOf
<1>3. /\ Host.run \in Runs /\ Host.run # NoRun /\ Host.run \in started /\ Host.run \notin alone
      /\ linked["host"] /\ localJobs = {} /\ hashing = {}
      /\ Range(ToHost') \subseteq Range(ToHost) /\ OnlyLast(ToHost', Ends)
      /\ Both => Here' = {} /\ OnTheWay' = {} /\ Guest.run \in {Host.run, NoRun}
      /\ GuestSide' /\ (Both' <=> Both) /\ Host.results["verifier"] = NoRun
  BY <1>1, <1>2, HostTaken
<1>4. /\ Host'.run = Host.run /\ Host'.results = Host.results /\ Host'.shown = Host.shown
      /\ Host.pendingProverReq = NoRun => Host' = Host
      /\ Host.pendingProverReq # NoRun =>
           /\ Host'.attached /\ Host'.pendingProverReq = NoRun
           /\ Host'.jobs = Host.jobs \cup {NewJob(Host.run)}
  <2>1. Host.pendingProverReq \in {NoRun, Host.run}
    BY DEF CalmInv, HostSide, HostRunInv
  <2> QED
    BY <1>2, <2>1, ProverFields, Names
<1>5. NewJob(Host.run).run = Host.run /\ NewJob(Host.run).got # "foreign"
  BY DEF NewJob
<1>6. HostSide'
  <2>1. HostOwnInv'
    BY <1>1, <1>3, <1>4 DEF HostOwnInv, CalmInv, HostSide
  <2>2. ToHostInv'
    <3>1. \A m \in Range(ToHost) : m.kind \notin Refusals
      <4>1. Head(ToHost) \in Range(ToHost) /\ Head(ToHost).kind = "ready"
        <5>1. "host" \in Pages
          BY DEF Pages
        <5> QED
          BY <1>1, <5>1, NetTaken DEF ToHost
      <4> QED
        BY <4>1 DEF CalmInv, HostSide, ToHostInv, Refusals
    <3> QED
      BY <1>1, <1>3, <1>4, <3>1 DEF ToHostInv, CalmInv, HostSide
  <2>3. HostRunInv'
    <3>1. CASE Host.pendingProverReq = NoRun
      BY <1>1, <1>3, <1>4, <3>1 DEF HostRunInv, Agreed, Host, CalmInv, HostSide
    <3>2. CASE Host.pendingProverReq # NoRun
      <4>1. Host.jobs = {} /\ Host.results["prover"] = NoRun
        BY <3>2 DEF CalmInv, HostSide, HostRunInv
      <4>2. Host'.jobs = {NewJob(Host.run)}
        BY <1>4, <3>2, <4>1
      <4> QED
        BY <1>1, <1>3, <1>4, <1>5, <3>2, <4>1, <4>2
           DEF HostRunInv, Agreed, Host, CalmInv, HostSide
    <3> QED
      BY <3>1, <3>2
  <2> QED
    BY <2>1, <2>2, <2>3 DEF HostSide
<1>7. LinkInv'
  BY <1>1, <1>2, <1>3, <1>4 DEF CalmInv, LinkInv
<1> QED
  BY <1>3, <1>6, <1>7 DEF CalmInv

LEMMA ReceiveRefusalCalm ==
    ASSUME MixedTypeInv, CalmInv, ReceiveDecline \/ ReceiveError("host"), UNCHANGED mixedVars
    PROVE  CalmInv'
<1> USE RoleNames
<1>1. PICK kind \in Refusals :
        /\ Arrives("host", kind) /\ net' = Taken("host")
        /\ page' = [page EXCEPT !["host"] = FailRun(Host)]
        /\ UNCHANGED <<linked, alone, asked, localJobs, hashing, started>>
        /\ UNCHANGED guestVars
  BY DEF ReceiveDecline, ReceiveError, hostVars, history, mixedVars, Host, Refusals
<1>2. Host' = FailRun(Host) /\ Guest' = Guest /\ kind \in Ends
  BY <1>1, PageOf DEF Ends
<1>3. /\ Host.run # NoRun /\ Host.jobs = {} /\ localJobs = {} /\ hashing = {}
      /\ ToHost' = <<>> /\ Range(ToHost') = {} /\ OnlyLast(ToHost', Ends)
      /\ Both => Here' = {} /\ OnTheWay' = {} /\ Guest.jobs = {}
      /\ GuestSide' /\ (Both' <=> Both)
  BY <1>1, <1>2, HostTaken
<1>4. Ended(Host, Host') /\ Host'.jobs = {} /\ Host'.shown = Host.shown
  BY <1>2, <1>3, FailFields, Names DEF Ended
<1>5. NoRun <= asked /\ NoRun \notin alone
  BY Names DEF NoRun
<1>6. HostSide'
  BY <1>1, <1>3, <1>4, <1>5
     DEF HostSide, ToHostInv, HostOwnInv, HostRunInv, Ended, Agreed, Host, CalmInv
<1> QED
  BY <1>1, <1>2, <1>3, <1>4, <1>5, <1>6 DEF CalmInv, LinkInv, Ended

LEMMA HostDoneCalm ==
    ASSUME MixedTypeInv, CalmInv, ReceiveDone("host"), UNCHANGED mixedVars
    PROVE  CalmInv'
<1> USE RoleNames
<1>1. /\ Arrives("host", "done") /\ net' = Taken("host")
      /\ \E c \in RecordResult(Host, "verifier", Head(net["host"]).run) :
           page' = [page EXCEPT !["host"] = c]
      /\ UNCHANGED <<linked, alone, asked, localJobs, hashing, started>> /\ UNCHANGED guestVars
  BY DEF ReceiveDone, hostVars, history, mixedVars, Host, RoleOf, Other
<1>2. PICK c \in RecordResult(Host, "verifier", Head(net["host"]).run) :
        page' = [page EXCEPT !["host"] = c]
  BY <1>1
<1>3. Host' = c /\ Guest' = Guest /\ "done" \in Ends
  BY <1>2, PageOf DEF Ends
<1>4. /\ Head(net["host"]).run = Host.run /\ Host.run # NoRun /\ Host.run \notin alone
      /\ localJobs = {} /\ hashing = {}
      /\ ToHost' = <<>> /\ Range(ToHost') = {} /\ OnlyLast(ToHost', Ends)
      /\ Both => Here' = {} /\ OnTheWay' = {} /\ Guest.jobs = {}
                   /\ Guest.run \in {Host.run, NoRun}
      /\ GuestSide' /\ (Both' <=> Both)
  BY <1>1, <1>3, HostTaken
<1>5. \A x \in Roles : Host.results[x] \in {NoRun, Host.run}
  BY DEF CalmInv, HostSide, HostRunInv
<1>6. /\ Host'.jobs = Host.jobs
      /\ \/ /\ Host'.run = Host.run /\ Host'.attached = Host.attached
            /\ Host'.shown = Host.shown /\ Host'.pendingProverReq = Host.pendingProverReq
            /\ Host'.results = [Host.results EXCEPT !["verifier"] = Host.run]
         \/ /\ Ended(Host, Host') /\ Host.results[OtherRole("verifier")] # NoRun
            /\ \A x \in Roles : Host'.shown.results[x] = Host'.shown.run
  <2>1. c \in RecordResult(Host, "verifier", Host.run) /\ Host \in CountingOf(Job)
    BY <1>2, <1>4, Names
  <2> QED
    BY <1>3, <1>4, <1>5, <2>1, RecordFields
<1>7. /\ NoRun <= asked /\ NoRun \notin alone /\ Host.results \in [Roles -> MaybeRun]
      /\ OtherRole("verifier") = "prover"
  BY Names DEF NoRun, CountingOf, ControllerOf, Results, OtherRole
<1>8. CASE Host'.run = Host.run
  <2>1. ToHostInv' /\ HostOwnInv'
    BY <1>1, <1>4, <1>6, <1>8 DEF ToHostInv, HostOwnInv, CalmInv, HostSide
  <2>2. HostRunInv'
    BY <1>1, <1>4, <1>5, <1>6, <1>7, <1>8, RoleNames
       DEF HostRunInv, Agreed, Host, CalmInv, HostSide, Ended
  <2>3. LinkInv'
    BY <1>1, <1>3, <1>4, <1>6, <1>8 DEF CalmInv, LinkInv
  <2> QED
    BY <1>4, <2>1, <2>2, <2>3 DEF CalmInv, HostSide
<1>9. CASE Host'.run # Host.run
  <2>1. Ended(Host, Host') /\ Host.jobs = {} /\ Host'.jobs = {}
    BY <1>4, <1>6, <1>7, <1>9 DEF CalmInv, HostSide, HostRunInv
  <2>2. HostSide'
    BY <1>1, <1>4, <1>6, <1>7, <1>9, <2>1
       DEF HostSide, ToHostInv, HostOwnInv, HostRunInv, Ended, Agreed, Host, CalmInv
  <2> QED
    BY <1>1, <1>3, <1>4, <1>7, <2>1, <2>2 DEF CalmInv, LinkInv, Ended
<1> QED
  BY <1>8, <1>9

LEMMA HostBytesCalm ==
    ASSUME MixedTypeInv, CalmInv, ReceiveBytes("host"), UNCHANGED mixedVars
    PROVE  CalmInv'
<1> USE RoleNames
<1>1. /\ Arrives("host", "bytes") /\ net' = Taken("host")
      /\ page' = [page EXCEPT !["host"] = OnRemoteProtocol(Host, Head(net["host"]).run)]
      /\ UNCHANGED <<linked, alone, asked, localJobs, hashing, started>> /\ UNCHANGED guestVars
  BY DEF ReceiveBytes, hostVars, history, mixedVars, Host
<1>2. Host' = OnRemoteProtocol(Host, Head(net["host"]).run) /\ Guest' = Guest
  BY <1>1, PageOf
<1>3. /\ Head(net["host"]).run = Host.run /\ Host.run # NoRun /\ Host.run \notin alone
      /\ linked["host"] /\ localJobs = {} /\ hashing = {}
      /\ Range(ToHost') \subseteq Range(ToHost) /\ OnlyLast(ToHost', Ends)
      /\ Both => Here' = {} /\ OnTheWay' = {} /\ Guest.run \in {Host.run, NoRun}
      /\ GuestSide' /\ (Both' <=> Both) /\ Host.results["verifier"] = NoRun
  BY <1>1, <1>2, HostTaken
<1>4. /\ \A j \in Host.jobs : j.run = Host.run /\ j.got # "foreign"
      /\ \A j, k \in Host.jobs : j = k
      /\ Host.jobs # {} => Host.attached
  BY DEF CalmInv, HostSide, HostRunInv
<1>5. /\ Host'.run = Host.run /\ Host'.attached = Host.attached /\ Host'.results = Host.results
      /\ Host'.pendingProverReq = Host.pendingProverReq /\ Host'.shown = Host.shown
      /\ \A j \in Host'.jobs : j.run = Host.run /\ j.got # "foreign"
      /\ \A j, k \in Host'.jobs : j = k
      /\ Host'.jobs = {} <=> Host.jobs = {}
  <2>1. Host' = OnRemoteProtocol(Host, Host.run) /\ Host \in CountingOf(Job)
    BY <1>2, <1>3, Names
  <2>2. LET d == OnRemoteProtocol(Host, Host.run)
        IN  /\ d.run = Host.run /\ d.attached = Host.attached /\ d.results = Host.results
            /\ d.pendingProverReq = Host.pendingProverReq /\ d.shown = Host.shown
            /\ \A j \in d.jobs : j.run = Host.run /\ j.got # "foreign"
            /\ \A j, k \in d.jobs : j = k
            /\ d.jobs = {} <=> Host.jobs = {}
    BY <1>4, <2>1, BytesFields
  <2> QED
    BY <2>1, <2>2
<1>6. ToHostInv' /\ HostOwnInv'
  BY <1>1, <1>3, <1>5 DEF ToHostInv, HostOwnInv, CalmInv, HostSide
<1>7. HostRunInv'
  <2>1. HostRunInv
    BY DEF CalmInv, HostSide
  <2>2. Agreed("host")'
    BY <1>5, <2>1 DEF HostRunInv, Agreed, Host
  <2> HIDE DEF Agreed
  <2> QED
    BY <1>1, <1>3, <1>4, <1>5, <2>1, <2>2 DEF HostRunInv
<1>8. LinkInv'
  BY <1>1, <1>2, <1>3, <1>5 DEF CalmInv, LinkInv
<1> QED
  BY <1>3, <1>6, <1>7, <1>8 DEF CalmInv, HostSide

-----------------------------------------------------------------------------
(* The guest's user, and proceedAccept.                                    *)

\* A guest has nothing to do when it has no run and no proposal.
LEMMA IdleIs ==
    ASSUME MixedTypeInv
    PROVE  Idle <=> Guest.run = NoRun /\ Here = {}
BY RunFacts DEF Idle, Here, Guest, MixedTypeInv, TypeInv

\* A proposal moves on within the guest, or is dropped.
LEMMA MovesCalm ==
    ASSUME MixedTypeInv, MixedTypeInv', CalmInv, Alike(Guest, Guest'), Host' = Host, net' = net,
           UNCHANGED <<linked, alone, asked, localJobs, hashing, started>>,
           Here' \subseteq Here,
           linked["guest"] /\ Here' # {} =>
             /\ pendingProposal' # NoRun => acceptedPending' = NoRun /\ compiling' = {}
             /\ acceptedPending' # NoRun => compiling' = {}
             /\ \A r, s \in compiling' : r = s
    PROVE  CalmInv'
<1>1. /\ Alike(Host, Host') /\ ToHost' = ToHost /\ ToGuest' = ToGuest /\ OnTheWay' = OnTheWay
      /\ (Both' <=> Both) /\ (Idle => Idle') /\ Guest'.run = Guest.run /\ Guest'.jobs = Guest.jobs
  <2>1. Alike(Host, Host') /\ ToHost' = ToHost /\ ToGuest' = ToGuest /\ (Both' <=> Both)
    BY DEF Alike, ToHost, ToGuest, Both
  <2>2. Idle' <=> Guest'.run = NoRun /\ Here' = {}
    BY RunFacts DEF Idle, Here, Guest, MixedTypeInv, TypeInv
  <2> QED
    BY <2>1, <2>2, IdleIs DEF OnTheWay, Alike
<1>2. HostSide'
  BY <1>1, HostKept DEF CalmInv
<1>3. GuestSide'
  <2>1. GuestRunInv'
    BY DEF GuestRunInv, Alike, Agreed, Guest, CalmInv, GuestSide
  <2>2. ToGuestInv'
    BY <1>1 DEF ToGuestInv, CalmInv, GuestSide
  <2>3. HereInv'
    BY <1>1 DEF HereInv, CalmInv, GuestSide
  <2> QED
    BY <2>1, <2>2, <2>3 DEF GuestSide
<1>4. LinkInv'
  BY <1>1 DEF CalmInv, LinkInv
<1> QED
  BY <1>2, <1>3, <1>4 DEF CalmInv

\* While a proposal waits at a guest that is linked.
LEMMA WhileHere ==
    ASSUME MixedTypeInv, CalmInv, NEW r \in Here, linked["guest"]
    PROVE  /\ ToGuest = <<>> /\ Range(ToGuest) = {} /\ OnTheWay = {} /\ Guest.run = NoRun
           /\ Guest.jobs = {} /\ r \in Runs
           /\ Both => /\ r = Host.run /\ Host.run \notin alone /\ ToHost = <<>>
                      /\ Range(ToHost) = {} /\ Host.results["verifier"] = NoRun
                      /\ ~Host.attached
<1>1. ToGuest = <<>> /\ Guest.run = NoRun /\ r \in Runs
  BY Names DEF CalmInv, GuestSide, HereInv
<1>2. Range(ToGuest) = {} /\ Guest.jobs = {}
  BY <1>1, WhileFree, RangeEmpty, Names
<1>3. ASSUME Both
      PROVE  /\ r = Host.run /\ Host.run \notin alone /\ ToHost = <<>>
             /\ Range(ToHost) = {} /\ Host.results["verifier"] = NoRun /\ ~Host.attached
  <2>1. r = Host.pendingProverReq /\ ToHost = <<>> /\ Host.results["verifier"] = NoRun
    BY <1>3 DEF CalmInv, LinkInv
  <2>2. r = Host.run /\ Host.run \notin alone /\ ~Host.attached
    BY <1>1, <2>1, RunFacts DEF CalmInv, HostSide, HostRunInv
  <2> QED
    BY <2>1, <2>2, RangeEmpty, Names
<1> QED
  BY <1>1, <1>2, <1>3 DEF OnTheWay

\* The guest answers a proposal: the host hears nothing else.
LEMMA AnswerHost ==
    ASSUME MixedTypeInv, CalmInv, NEW r \in Here, NEW kind \in {"ready"} \cup Refusals,
           net' = Send(net, "guest", Msg(kind, r)), Host' = Host,
           started \subseteq started', kind = "ready" => r \in started',
           UNCHANGED <<linked, alone, asked, localJobs, hashing>>
    PROVE  /\ HostSide' /\ ToGuest' = ToGuest /\ OnTheWay' = OnTheWay
           /\ Both => Range(ToHost') = {Msg(kind, r)} /\ ToHost' # <<>>
           /\ Msg(kind, r).kind = kind
<1>1. kind \in Kinds /\ r \in Runs
  BY Names DEF Kinds, Refusals
<1>2. /\ ToGuest' = ToGuest /\ OnTheWay' = OnTheWay /\ (~Both => ToHost' = ToHost)
      /\ Both => /\ Range(ToHost') = Range(ToHost) \cup {Msg(kind, r)} /\ ToHost' # <<>>
                 /\ (\A n \in Range(ToHost) : n.kind \notin Ends) => OnlyLast(ToHost', Ends)
      /\ Msg(kind, r).kind = kind /\ Msg(kind, r).run = r
  BY <1>1, ToHostSent
<1>3. CASE ~Both
  <2>1. Alike(Host, Host')
    BY DEF Alike
  <2> QED
    BY <1>2, <1>3, <2>1, HostKept DEF CalmInv
<1>4. CASE Both
  <2>1. /\ r = Host.run /\ Host.run \notin alone /\ Range(ToHost) = {}
        /\ Host.results["verifier"] = NoRun /\ ~Host.attached /\ linked["host"]
    BY <1>4, WhileHere DEF Both
  <2>2. Range(ToHost') = {Msg(kind, r)} /\ OnlyLast(ToHost', Ends)
    BY <1>2, <1>4, <2>1
  <2>3. ToHostInv'
    <3>1. kind = "ready" => kind \notin Refusals
      BY DEF Refusals
    <3> QED
      BY <1>2, <2>1, <2>2, <3>1 DEF ToHostInv
  <2>4. HostRunInv'
    BY <2>1 DEF HostRunInv, Agreed, Host, CalmInv, HostSide
  <2>5. HostOwnInv'
    BY DEF HostOwnInv, CalmInv, HostSide
  <2> QED
    BY <1>2, <1>4, <2>2, <2>3, <2>4, <2>5 DEF HostSide
<1> QED
  BY <1>3, <1>4

\* It declines, or cannot compile: the proposal is gone.
LEMMA RefuseCalm ==
    ASSUME MixedTypeInv, MixedTypeInv', CalmInv, NEW r \in Here, NEW kind \in Refusals,
           net' = Send(net, "guest", Msg(kind, r)), Host' = Host, Guest' = Guest,
           UNCHANGED <<linked, alone, asked, localJobs, hashing, started>>,
           Here' \subseteq Here, linked["guest"] => Here' = {}
    PROVE  CalmInv'
<1>1. CASE ~linked["guest"]
  <2>1. net' = net
    BY <1>1 DEF Send
  <2>2. Alike(Guest, Guest')
    BY DEF Alike
  <2> QED
    BY <1>1, <2>1, <2>2, MovesCalm
<1>2. CASE linked["guest"]
  <2>1. /\ HostSide' /\ ToGuest' = ToGuest /\ OnTheWay' = OnTheWay
        /\ Both => Range(ToHost') = {Msg(kind, r)} /\ ToHost' # <<>>
        /\ Msg(kind, r).kind = kind
    <3>1. kind \in {"ready"} \cup Refusals /\ kind # "ready"
      BY DEF Refusals
    <3> QED
      BY <3>1, AnswerHost
  <2>2. /\ ToGuest = <<>> /\ Range(ToGuest) = {} /\ OnTheWay = {} /\ Guest.run = NoRun
        /\ Guest.jobs = {}
        /\ Both => r = Host.run /\ Host.run \notin alone
    BY <1>2, WhileHere
  <2>3. GuestSide'
    <3>1. GuestRunInv'
      BY DEF GuestRunInv, Agreed, Guest, CalmInv, GuestSide
    <3>2. ToGuestInv'
      BY <2>1, <2>2 DEF ToGuestInv, CalmInv, GuestSide
    <3>3. HereInv'
      BY <1>2 DEF HereInv
    <3> QED
      BY <3>1, <3>2, <3>3 DEF GuestSide
  <2>4. LinkInv'
    BY <1>2, <2>1, <2>2 DEF LinkInv, Both
  <2> QED
    BY <2>1, <2>3, <2>4 DEF CalmInv
<1> QED
  BY <1>1, <1>2

\* It is set up: `ready` leaves, and its party begins.
LEMMA StartCalm ==
    ASSUME MixedTypeInv, CalmInv, NEW r \in Here, linked["guest"],
           NEW c \in CountingOf(Job), Alike(Guest, c), StartVerifierRun(r, c), Here' = {},
           UNCHANGED <<linked, alone, asked, localJobs, hashing>>
    PROVE  CalmInv'
<1> USE RoleNames
<1>1. /\ ToGuest = <<>> /\ Range(ToGuest) = {} /\ OnTheWay = {} /\ Guest.run = NoRun
      /\ Guest.jobs = {} /\ r \in Runs
      /\ Both => /\ r = Host.run /\ Host.run \notin alone /\ Host.results["verifier"] = NoRun
                 /\ ~Host.attached
  BY WhileHere
<1>2. /\ Guest' = AttachRemoteRun(NewRun(c, r), r) /\ Host' = Host
      /\ net' = Send(net, "guest", Msg("ready", r)) /\ started' = started \cup {r}
  BY PageOf DEF StartVerifierRun
<1>3. /\ Guest'.run = r /\ Guest'.attached /\ Guest'.results = NoResults
      /\ Guest'.jobs = {NewJob(r)} /\ Guest'.shown = Guest.shown /\ r # NoRun
  BY <1>1, <1>2, AttachFields, RunFacts DEF Alike
<1>4. /\ HostSide' /\ ToGuest' = ToGuest /\ OnTheWay' = OnTheWay
      /\ Both => Range(ToHost') = {Msg("ready", r)} /\ ToHost' # <<>>
      /\ Msg("ready", r).kind = "ready"
  BY <1>2, AnswerHost
<1>5. GuestSide'
  <2>1. NewJob(r).run = r /\ NewJob(r).got # "foreign"
    BY DEF NewJob
  <2>2. GuestRunInv'
    BY <1>3, <2>1 DEF GuestRunInv, Agreed, Guest, CalmInv, GuestSide
  <2>3. ToGuestInv'
    BY <1>1, <1>4 DEF ToGuestInv, CalmInv, GuestSide
  <2> QED
    BY <2>2, <2>3 DEF GuestSide, HereInv
<1>6. LinkInv'
  BY <1>1, <1>2, <1>3, <1>4 DEF LinkInv, Both, Ends, Refusals
<1> QED
  BY <1>4, <1>5, <1>6 DEF CalmInv

\* proceedAccept, for a proposal that leaves the screen or the place where it is
\* kept until the workers are up.
LEMMA ProceedCalm ==
    ASSUME MixedTypeInv, MixedTypeInv', CalmInv, NEW r \in Here, NEW c \in CountingOf(Job),
           Alike(Guest, c), ProceedAccept(r, c),
           pendingProposal' \in {NoRun, pendingProposal},
           acceptedPending' \in {NoRun, acceptedPending},
           linked["guest"] =>
             pendingProposal' = NoRun /\ acceptedPending' = NoRun /\ compiling = {},
           UNCHANGED <<linked, alone, asked, localJobs, hashing>>
    PROVE  CalmInv'
<1>1. r \in Runs /\ c.run = Guest.run
  BY Names DEF Alike
<1>2. CASE linked["guest"] /\ Guest.run = NoRun /\ r \notin Sourced
  <2>1. StartVerifierRun(r, c) /\ compiling' = compiling
    BY <1>1, <1>2 DEF ProceedAccept
  <2>2. Here' = {}
    BY <1>2, <2>1 DEF Here
  <2> QED
    BY <1>2, <2>1, <2>2, StartCalm
<1>3. CASE ~(linked["guest"] /\ Guest.run = NoRun /\ r \notin Sourced)
  <2>1. /\ page' = [page EXCEPT !["guest"] = c] /\ net' = net /\ started' = started
        /\ compiling' = IF linked["guest"] /\ Guest.run = NoRun
                        THEN compiling \cup {r} ELSE compiling
    BY <1>1, <1>3 DEF ProceedAccept
  <2>2. Guest' = c /\ Host' = Host
    BY <2>1, PageOf
  <2>3. Here' \subseteq Here
    BY <2>1 DEF Here
  <2>4. linked["guest"] => \A q, s \in compiling' : q = s
    BY <2>1
  <2> QED
    BY <2>1, <2>2, <2>3, <2>4, MovesCalm
<1> QED
  BY <1>2, <1>3

LEMMA AcceptCalm ==
    ASSUME MixedTypeInv, MixedTypeInv', CalmInv, AcceptRun, UNCHANGED mixedVars
    PROVE  CalmInv'
<1>1. /\ pendingProposal # NoRun /\ linked["guest"] /\ pendingProposal' = NoRun
      /\ UNCHANGED <<linked, alone, asked, localJobs, hashing>>
      /\ pendingProposal \in Here /\ acceptedPending = NoRun /\ compiling = {}
  <2>1. /\ pendingProposal # NoRun /\ linked["guest"] /\ pendingProposal' = NoRun
        /\ UNCHANGED <<linked, alone, asked, localJobs, hashing>>
    BY DEF AcceptRun, hostVars, mixedVars
  <2>2. pendingProposal \in Here
    BY <2>1 DEF Here
  <2> QED
    BY <2>1, <2>2 DEF CalmInv, GuestSide, HereInv
<1>2. CASE page["guest"].nReady < 2
  <2>1. /\ acceptedPending' = pendingProposal /\ compiling' = compiling
        /\ page' = page /\ net' = net /\ started' = started
    BY <1>2 DEF AcceptRun
  <2>2. Alike(Guest, Guest') /\ Host' = Host /\ Here' \subseteq Here
    BY <1>1, <2>1 DEF Alike, Guest, Host, Here
  <2> QED
    BY <1>1, <2>1, <2>2, MovesCalm
<1>3. CASE ~(page["guest"].nReady < 2)
  <2>1. ProceedAccept(pendingProposal, Guest) /\ acceptedPending' = acceptedPending
    BY <1>3 DEF AcceptRun, Guest
  <2>2. Alike(Guest, Guest) /\ Guest \in CountingOf(Job)
    BY Names DEF Alike
  <2> QED
    BY <1>1, <2>1, <2>2, ProceedCalm
<1> QED
  BY <1>2, <1>3

LEMMA DeclineCalm ==
    ASSUME MixedTypeInv, MixedTypeInv', CalmInv, DeclineRun, UNCHANGED mixedVars
    PROVE  CalmInv'
<1>1. /\ pendingProposal # NoRun /\ linked["guest"] /\ pendingProposal' = NoRun
      /\ net' = Send(net, "guest", Msg("decline", pendingProposal))
      /\ UNCHANGED <<page, linked, alone, asked, localJobs, hashing, started>>
      /\ acceptedPending' = acceptedPending /\ compiling' = compiling
  BY DEF DeclineRun, hostVars, history, mixedVars
<1>2. pendingProposal \in Here /\ Host' = Host /\ Guest' = Guest /\ "decline" \in Refusals
  BY <1>1 DEF Here, Host, Guest, Refusals
<1>3. Here' = {}
  BY <1>1, <1>2 DEF CalmInv, GuestSide, HereInv, Here
<1> QED
  BY <1>1, <1>2, <1>3, RefuseCalm

LEMMA CompiledCalm ==
    ASSUME MixedTypeInv, MixedTypeInv', CalmInv, Compiled, UNCHANGED mixedVars
    PROVE  CalmInv'
<1>1. PICK r \in compiling : CompileOk(r) \/ CompileRefused(r)
  BY DEF Compiled
<1>2. /\ r \in Here /\ compiling' = compiling \ {r}
      /\ pendingProposal' = pendingProposal /\ acceptedPending' = acceptedPending
      /\ UNCHANGED <<linked, alone, asked, localJobs, hashing>>
      /\ Here' \subseteq Here
  <2>1. r # NoRun
    BY RunFacts DEF MixedTypeInv, TypeInv
  <2> QED
    BY <1>1, <2>1 DEF CompileOk, CompileRefused, hostVars, history, mixedVars, Here
<1>3. linked["guest"] =>
        /\ Here' = {}
        /\ pendingProposal' = NoRun /\ acceptedPending' = NoRun /\ compiling' = {}
  BY <1>2 DEF CalmInv, GuestSide, HereInv, Here
<1>4. CASE CompileRefused(r)
  <2>1. /\ net' = Send(net, "guest", Msg("error", r)) /\ Host' = Host /\ Guest' = Guest
        /\ started' = started /\ "error" \in Refusals
    BY <1>4 DEF CompileRefused, history, Host, Guest, Refusals
  <2> QED
    BY <1>2, <1>3, <2>1, RefuseCalm
<1>5. CASE CompileOk(r) /\ linked["guest"] /\ Guest.run = NoRun
  <2>1. StartVerifierRun(r, Guest) /\ Alike(Guest, Guest) /\ Guest \in CountingOf(Job)
    BY <1>5, Names DEF CompileOk, Alike, Guest
  <2> QED
    BY <1>2, <1>3, <1>5, <2>1, StartCalm
<1>6. CASE CompileOk(r) /\ ~(linked["guest"] /\ Guest.run = NoRun)
  <2>1. /\ Host' = Host /\ Alike(Guest, Guest') /\ net' = net /\ started' = started
    BY <1>6 DEF CompileOk, Host, Guest, Alike
  <2> QED
    BY <1>2, <1>3, <2>1, MovesCalm
<1> QED
  BY <1>1, <1>4, <1>5, <1>6

-----------------------------------------------------------------------------
(* The guest's workers, and what the guest receives.                       *)

LEMMA GuestReadyCalm ==
    ASSUME MixedTypeInv, MixedTypeInv', CalmInv, NEW role \in Roles, WorkerReady("guest", role),
           UNCHANGED mixedVars
    PROVE  CalmInv'
<1> DEFINE c == WorkerUp(Guest, role, IF linked["guest"] THEN "idle" ELSE "waiting")
<1>1. /\ c \in CountingOf(Job) /\ Alike(Guest, c)
      /\ UNCHANGED <<linked, alone, asked, localJobs, hashing>>
      /\ pendingProposal' = pendingProposal
  <2>1. Guest.worker[role] = "loading" /\ Guest \in CountingOf(Job)
    BY Names DEF WorkerReady, Guest
  <2>2. c \in CountingOf(Job)
    BY <2>1, WorkerUpType DEF Buttons
  <2> QED
    BY <2>1, <2>2, UpFields DEF WorkerReady, hostVars, mixedVars
<1>2. CASE acceptedPending # NoRun /\ ProceedAccept(acceptedPending, c) /\ acceptedPending' = NoRun
  <2>1. acceptedPending \in Here
    BY <1>2 DEF Here
  <2>2. linked["guest"] => pendingProposal = NoRun /\ compiling = {}
    BY <1>2, <2>1 DEF CalmInv, GuestSide, HereInv
  <2> HIDE DEF c
  <2> QED
    BY <1>1, <1>2, <2>1, <2>2, ProceedCalm
<1>3. CASE /\ page' = [page EXCEPT !["guest"] = c]
           /\ UNCHANGED <<net, acceptedPending, compiling, started>>
  <2> HIDE DEF c
  <2>1. Guest' = c /\ Host' = Host
    BY <1>3, PageOf
  <2>2. Here' = Here
    BY <1>1, <1>3 DEF Here
  <2> QED
    BY <1>1, <1>3, <2>1, <2>2, MovesCalm DEF CalmInv, GuestSide, HereInv
<1> QED
  BY <1>2, <1>3 DEF WorkerReady, Guest

\* The guest's verifier is at work on the host's run, while the link lasts.
LEMMA WhileVerifying ==
    ASSUME MixedTypeInv, CalmInv, NEW j \in Guest.jobs
    PROVE  /\ Guest.jobs = {j} /\ j.run = Guest.run /\ j.got # "foreign" /\ j \in Job
           /\ Guest.run \in Runs /\ Guest.run # NoRun /\ Guest.results["verifier"] = NoRun
           /\ Both => /\ Guest.run = Host.run /\ Host.run \notin alone
                      /\ Here = {} /\ OnTheWay = {} /\ Host.results["verifier"] = NoRun
                      /\ \A m \in Range(ToHost) : m.kind \notin Ends
<1>1. /\ Guest.jobs = {j} /\ j.run = Guest.run /\ j.got # "foreign"
      /\ Guest.results["verifier"] = NoRun
  BY DEF CalmInv, GuestSide, GuestRunInv
<1>2. j \in Job /\ Guest.run \in Runs /\ Guest.run # NoRun
  BY <1>1, Names, RunFacts
<1>3. ASSUME Both
      PROVE  /\ Guest.run = Host.run /\ Host.run \notin alone
             /\ Here = {} /\ OnTheWay = {} /\ Host.results["verifier"] = NoRun
             /\ \A m \in Range(ToHost) : m.kind \notin Ends
  BY <1>1, <1>2, <1>3 DEF CalmInv, LinkInv, Idle, Guest
<1> QED
  BY <1>1, <1>2, <1>3

LEMMA VerifierSends ==
    ASSUME MixedTypeInv, CalmInv, NEW j \in Guest.jobs, NEW kind \in {"bytes", "done"},
           net' = Send(net, "guest", Msg(kind, Guest.run)), Host' = Host,
           UNCHANGED <<linked, alone, asked, localJobs, hashing, started>>, UNCHANGED guestVars
    PROVE  /\ HostSide' /\ ToGuest' = ToGuest /\ (Both' <=> Both) /\ (Idle => Idle')
           /\ Both => /\ Here' = {} /\ OnTheWay' = {}
                      /\ kind = "bytes" => \A m \in Range(ToHost') : m.kind \notin Ends
<1>1. kind \in Kinds /\ kind \notin Refusals /\ kind # "ready" /\ Guest.run \in Runs
  BY WhileVerifying DEF Kinds, Refusals
<1>2. /\ ToGuest' = ToGuest /\ OnTheWay' = OnTheWay /\ (~Both => ToHost' = ToHost)
      /\ Both => /\ Range(ToHost') = Range(ToHost) \cup {Msg(kind, Guest.run)}
                 /\ (\A n \in Range(ToHost) : n.kind \notin Ends) => OnlyLast(ToHost', Ends)
      /\ Msg(kind, Guest.run).kind = kind /\ Msg(kind, Guest.run).run = Guest.run
  BY <1>1, ToHostSent
<1>3. Here' = Here /\ (Both' <=> Both) /\ ~Idle
  BY WhileVerifying DEF Here, guestVars, Both, Idle, Guest
<1>4. CASE ~Both
  <2>1. Alike(Host, Host')
    BY DEF Alike
  <2> QED
    BY <1>2, <1>3, <1>4, <2>1, HostKept DEF CalmInv
<1>5. CASE Both
  <2>1. /\ Guest.run = Host.run /\ Host.run \notin alone
        /\ Here = {} /\ OnTheWay = {} /\ Host.results["verifier"] = NoRun
        /\ \A m \in Range(ToHost) : m.kind \notin Ends
    BY <1>5, WhileVerifying
  <2>2. \A m \in Range(ToHost) : m.kind \notin Refusals
    BY <2>1 DEF Ends
  <2>3. ToHostInv'
    BY <1>1, <1>2, <1>5, <2>1, <2>2 DEF ToHostInv, CalmInv, HostSide, Both
  <2>4. HostRunInv' /\ HostOwnInv'
    BY <2>1 DEF HostRunInv, HostOwnInv, Agreed, Host, CalmInv, HostSide
  <2>5. kind = "bytes" => kind \notin Ends
    BY DEF Ends, Refusals
  <2> QED
    BY <1>2, <1>3, <1>5, <2>1, <2>3, <2>4, <2>5 DEF HostSide
<1> QED
  BY <1>4, <1>5

LEMMA VerifierSendCalm ==
    ASSUME MixedTypeInv, CalmInv, NEW j \in Guest.jobs, JobSend("guest", j),
           UNCHANGED mixedVars
    PROVE  CalmInv'
<1>1. /\ Guest.jobs = {j} /\ j.run = Guest.run /\ j.got # "foreign" /\ j \in Job
      /\ Guest.run \in Runs /\ Guest.results["verifier"] = NoRun
      /\ Both => Guest.run = Host.run /\ Host.run \notin alone /\ Host.results["verifier"] = NoRun
      /\ Guest \in CountingOf(Job)
  BY WhileVerifying, Names
<1>2. page' = [page EXCEPT !["guest"] = [Guest EXCEPT !.jobs = (Guest.jobs \ {j})
                                           \cup {[j EXCEPT !.sent = TRUE]}]]
  BY DEF JobSend, Guest
<1>3. /\ Guest' = [Guest EXCEPT !.jobs = {[j EXCEPT !.sent = TRUE]}] /\ Host' = Host
      /\ net' = Send(net, "guest", Msg("bytes", Guest.run))
      /\ UNCHANGED <<linked, alone, asked, localJobs, hashing, started>> /\ UNCHANGED guestVars
  <2>1. (Guest.jobs \ {j}) \cup {[j EXCEPT !.sent = TRUE]} = {[j EXCEPT !.sent = TRUE]}
    BY <1>1
  <2>2. /\ Guest' = [Guest EXCEPT !.jobs = {[j EXCEPT !.sent = TRUE]}] /\ Host' = Host
    BY <1>2, <2>1, PageOf
  <2> QED
    BY <1>1, <2>2 DEF JobSend, Guest, hostVars, history, mixedVars
<1>4. /\ Guest'.run = Guest.run /\ Guest'.attached = Guest.attached
      /\ Guest'.results = Guest.results /\ Guest'.shown = Guest.shown
      /\ \A k \in Guest'.jobs : k.run = Guest.run /\ k.got # "foreign"
                                 /\ \A l \in Guest'.jobs : l = k
  <2>1. [j EXCEPT !.sent = TRUE].run = j.run /\ [j EXCEPT !.sent = TRUE].got = j.got
    BY <1>1 DEF Job
  <2>2. Guest'.jobs = {[j EXCEPT !.sent = TRUE]}
    BY <1>1, <1>3 DEF CountingOf, ControllerOf
  <2> QED
    BY <1>1, <1>3, <2>1, <2>2 DEF CountingOf, ControllerOf
<1>5. /\ HostSide' /\ ToGuest' = ToGuest /\ (Both' <=> Both) /\ (Idle => Idle')
      /\ Both => /\ Here' = {} /\ OnTheWay' = {}
                 /\ \A m \in Range(ToHost') : m.kind \notin Ends
  BY <1>3, VerifierSends
<1>6. GuestSide'
  <2>1. GuestRunInv'
    BY <1>1, <1>4 DEF GuestRunInv, Agreed, Guest, CalmInv, GuestSide
  <2>2. ToGuestInv'
    BY <1>3, <1>4, <1>5 DEF ToGuestInv, CalmInv, GuestSide
  <2>3. HereInv'
    BY <1>3, <1>4, <1>5 DEF HereInv, CalmInv, GuestSide, guestVars, Here
  <2> QED
    BY <2>1, <2>2, <2>3 DEF GuestSide
<1> QED
  BY <1>1, <1>3, <1>4, <1>5, <1>6 DEF CalmInv, LinkInv

LEMMA VerifierDoneCalm ==
    ASSUME MixedTypeInv, CalmInv, NEW j \in Guest.jobs, JobDone("guest", j),
           UNCHANGED mixedVars
    PROVE  CalmInv'
<1> USE RoleNames
<1> DEFINE w == [Guest EXCEPT !.jobs = {}]
<1>1. /\ Guest.jobs = {j} /\ j.run = Guest.run /\ Guest.run \in Runs /\ Guest.run # NoRun
      /\ Both => Guest.run = Host.run /\ Host.run \notin alone /\ Host.results["verifier"] = NoRun
      /\ Guest \in CountingOf(Job)
      /\ \A x \in Roles : Guest.results[x] \in {NoRun, Guest.run}
  BY WhileVerifying, Names DEF CalmInv, GuestSide, GuestRunInv
<1>2. PICK c \in RecordResult(w, "verifier", Guest.run) : page' = [page EXCEPT !["guest"] = c]
  <2>1. Without("guest", j) = w
    <3>1. Guest.jobs \ {j} = {}
      BY <1>1
    <3> QED
      BY <3>1 DEF Without, Guest
  <2> QED
    BY <1>1, <2>1 DEF JobDone, RoleOf
<1>3. /\ Guest' = c /\ Host' = Host
      /\ net' = Send(net, "guest", Msg("done", Guest.run))
      /\ UNCHANGED <<linked, alone, asked, localJobs, hashing, started>> /\ UNCHANGED guestVars
  BY <1>1, <1>2, PageOf DEF JobDone, Guest, hostVars, history, mixedVars
<1>4. /\ w.run = Guest.run /\ w.attached = Guest.attached /\ w.results = Guest.results
      /\ w.shown = Guest.shown /\ w.jobs = {} /\ w \in CountingOf(Job)
      /\ Guest.results \in [Roles -> MaybeRun]
  BY <1>1 DEF CountingOf, ControllerOf, Loaded, Results
<1>5. /\ Guest'.jobs = {}
      /\ \/ /\ Guest'.run = Guest.run /\ Guest'.attached = Guest.attached
            /\ Guest'.shown = Guest.shown
            /\ Guest'.results = [Guest.results EXCEPT !["verifier"] = Guest.run]
         \/ /\ Guest'.run = NoRun /\ ~Guest'.attached /\ Guest'.results = NoResults
            /\ \A x \in Roles : Guest'.shown.results[x] = Guest'.shown.run
  <2> HIDE DEF w
  <2>1. c \in RecordResult(w, "verifier", w.run)
    BY <1>2, <1>4
  <2>2. w.run # NoRun /\ \A x \in Roles : w.results[x] \in {NoRun, w.run}
    BY <1>1, <1>4
  <2>3. /\ c.jobs = w.jobs
        /\ \/ /\ c.run = w.run /\ c.attached = w.attached /\ c.shown = w.shown
              /\ c.pendingProverReq = w.pendingProverReq
              /\ c.results = [w.results EXCEPT !["verifier"] = w.run]
           \/ /\ Ended(w, c) /\ w.results[OtherRole("verifier")] # NoRun
              /\ \A x \in Roles : c.shown.results[x] = c.shown.run
    BY <1>4, <2>1, <2>2, RecordFields
  <2> QED
    BY <1>3, <1>4, <2>3 DEF Ended
<1>6. /\ HostSide' /\ ToGuest' = ToGuest /\ (Both' <=> Both) /\ (Idle => Idle')
      /\ Both => Here' = {} /\ OnTheWay' = {}
  BY <1>3, VerifierSends
<1>7. GuestSide'
  <2>1. GuestRunInv'
    BY <1>1, <1>4, <1>5 DEF GuestRunInv, Agreed, Guest, CalmInv, GuestSide
  <2>2. ToGuestInv'
    BY <1>3, <1>5, <1>6 DEF ToGuestInv, CalmInv, GuestSide
  <2>3. HereInv'
    BY <1>3, <1>5, <1>6 DEF HereInv, CalmInv, GuestSide, guestVars, Here
  <2> QED
    BY <2>1, <2>2, <2>3 DEF GuestSide
<1> QED
  BY <1>1, <1>3, <1>5, <1>6, <1>7 DEF CalmInv, LinkInv

LEMMA GuestTaken ==
    ASSUME MixedTypeInv, CalmInv, NEW kind, Arrives("guest", kind), net' = Taken("guest"),
           Host' = Host, UNCHANGED <<linked, alone, asked, localJobs, hashing, started>>
    PROVE  /\ Head(net["guest"]) \in Range(ToGuest) /\ Head(net["guest"]).kind = kind
           /\ ToGuest # <<>> /\ linked["guest"] /\ Here = {}
           /\ Range(ToGuest') \subseteq Range(ToGuest) /\ OnlyLast(ToGuest', {"propose"})
           /\ kind = "propose" => ToGuest' = <<>> /\ Range(ToGuest') = {}
           /\ OnTheWay' \subseteq OnTheWay /\ (Both' <=> Both) /\ HostSide' /\ ToHost' = ToHost
<1>1. /\ Head(ToGuest) \in Range(ToGuest) /\ Head(ToGuest).kind = kind /\ ToGuest # <<>>
      /\ Range(ToGuest') \subseteq Range(ToGuest) /\ OnlyLast(ToGuest', {"propose"})
      /\ kind = "propose" => ToGuest' = <<>>
      /\ ToHost' = ToHost /\ OnTheWay' \subseteq OnTheWay /\ linked["guest"]
  <2>1. OnlyLast(net["guest"], {"propose"})
    BY DEF CalmInv, GuestSide, ToGuestInv, ToGuest
  <2>2. "guest" \in Pages /\ "host" \in Pages \ {"guest"}
    BY DEF Pages
  <2> QED
    BY <2>1, <2>2, NetTaken DEF ToHost, ToGuest, Arrives
<1>2. Here = {}
  BY <1>1 DEF CalmInv, GuestSide, HereInv
<1>3. Alike(Host, Host') /\ (Both' <=> Both)
  BY DEF Alike, Both
<1>4. HostSide'
  BY <1>1, <1>3, HostKept DEF CalmInv
<1>5. kind = "propose" => Range(ToGuest') = {}
  BY <1>1, RangeEmpty DEF Range
<1> QED
  BY <1>1, <1>2, <1>3, <1>4, <1>5 DEF ToGuest

\* A message that changes at most the run of the guest, and may end it.
LEMMA GuestReceives ==
    ASSUME MixedTypeInv, CalmInv, NEW kind, Arrives("guest", kind), net' = Taken("guest"),
           Host' = Host, UNCHANGED <<linked, alone, asked, localJobs, hashing, started>>,
           Here' \subseteq Here, Idle => Idle', GuestRunInv',
           \/ Guest'.run = Guest.run /\ (Guest'.jobs = {} <=> Guest.jobs = {})
           \/ Guest'.run = NoRun /\ Guest'.jobs = {}
    PROVE  CalmInv'
<1>1. /\ Here' = {} /\ linked["guest"]
      /\ Range(ToGuest') \subseteq Range(ToGuest) /\ OnlyLast(ToGuest', {"propose"})
      /\ OnTheWay' \subseteq OnTheWay /\ (Both' <=> Both) /\ HostSide' /\ ToHost' = ToHost
  BY GuestTaken
<1>2. ToGuestInv'
  BY <1>1 DEF ToGuestInv, CalmInv, GuestSide
<1>3. HereInv'
  BY <1>1 DEF HereInv
<1>4. LinkInv'
  BY <1>1 DEF CalmInv, LinkInv
<1> QED
  BY <1>1, <1>2, <1>3, <1>4 DEF CalmInv, GuestSide

LEMMA ReceiveProposeCalm ==
    ASSUME MixedTypeInv, CalmInv, ReceivePropose, UNCHANGED mixedVars
    PROVE  CalmInv'
<1> DEFINE r == Head(net["guest"]).run
<1>1. /\ Arrives("guest", "propose") /\ net' = Taken("guest") /\ page' = page
      /\ pendingProposal' = IF Guest.run = NoRun /\ pendingProposal = NoRun
                            THEN r ELSE pendingProposal
      /\ acceptedPending' = acceptedPending /\ compiling' = compiling
      /\ UNCHANGED <<linked, alone, asked, localJobs, hashing, started>>
      /\ Host' = Host /\ Guest' = Guest
  BY DEF ReceivePropose, hostVars, history, mixedVars, Host, Guest
<1>2. /\ Here = {} /\ linked["guest"] /\ ToGuest' = <<>> /\ Range(ToGuest') = {}
      /\ OnlyLast(ToGuest', {"propose"}) /\ r \in OnTheWay
      /\ OnTheWay' = {} /\ (Both' <=> Both) /\ HostSide' /\ ToHost' = ToHost
  <2>1. /\ Head(net["guest"]) \in Range(ToGuest) /\ Head(net["guest"]).kind = "propose"
        /\ Here = {} /\ linked["guest"] /\ ToGuest' = <<>> /\ Range(ToGuest') = {}
        /\ OnlyLast(ToGuest', {"propose"})
        /\ (Both' <=> Both) /\ HostSide' /\ ToHost' = ToHost
    BY <1>1, GuestTaken
  <2> QED
    BY <2>1 DEF OnTheWay
<1>3. /\ acceptedPending = NoRun /\ compiling = {} /\ Here' \subseteq {r}
      /\ Guest.run # NoRun => Here' = {}
  <2>1. NoRun \notin compiling
    BY RunFacts DEF MixedTypeInv, TypeInv
  <2>2. pendingProposal = NoRun /\ acceptedPending = NoRun /\ compiling = {}
    BY <1>2, <2>1 DEF Here
  <2>3. /\ pendingProposal' \in {NoRun, r} /\ acceptedPending' = NoRun /\ compiling' = {}
        /\ Guest.run # NoRun => pendingProposal' = NoRun
    BY <1>1, <2>2
  <2> QED
    BY <2>2, <2>3 DEF Here
<1>4. GuestSide'
  <2>1. GuestRunInv'
    BY <1>1 DEF GuestRunInv, Agreed, Guest, CalmInv, GuestSide
  <2>2. ToGuestInv'
    BY <1>2 DEF ToGuestInv
  <2>3. HereInv'
    BY <1>1, <1>2, <1>3 DEF HereInv
  <2> QED
    BY <2>1, <2>2, <2>3 DEF GuestSide
<1>5. LinkInv'
  <2>1. ASSUME Both
        PROVE  /\ r = Host.pendingProverReq /\ r \in Runs /\ ToHost = <<>>
               /\ Host.results["verifier"] = NoRun /\ Guest.jobs = {} /\ Host.run \notin alone
    <3>1. /\ r = Host.pendingProverReq /\ ToHost = <<>>
          /\ Host.results["verifier"] = NoRun /\ Guest.jobs = {}
      BY <1>2, <2>1 DEF CalmInv, LinkInv
    <3>2. r \in Runs
      BY <1>2, Names DEF OnTheWay
    <3> QED
      BY <3>1, <3>2, RunFacts DEF CalmInv, HostSide, HostRunInv
  <2> QED
    BY <1>1, <1>2, <1>3, <2>1 DEF CalmInv, LinkInv
<1> QED
  BY <1>2, <1>4, <1>5 DEF CalmInv

\* In a calm environment an abort is one of a local run.
LEMMA ReceiveAbortCalm ==
    ASSUME MixedTypeInv, CalmInv, ReceiveAbort, UNCHANGED mixedVars
    PROVE  CalmInv'
<1>1. /\ Arrives("guest", "abort") /\ net' = Taken("guest")
      /\ page' = [page EXCEPT !["guest"] = Abort(Guest)]
      /\ pendingProposal' = NoRun /\ acceptedPending' = NoRun /\ compiling' = compiling
      /\ UNCHANGED <<linked, alone, asked, localJobs, hashing, started>>
  BY DEF ReceiveAbort, hostVars, mixedVars, Guest
<1>2. Guest' = Abort(Guest) /\ Host' = Host
  BY <1>1, PageOf
<1>3. Idle
  <2>1. Head(net["guest"]) \in Range(ToGuest) /\ Head(net["guest"]).kind = "abort"
    BY <1>1, <1>2, GuestTaken
  <2> QED
    BY <2>1 DEF CalmInv, GuestSide, ToGuestInv
<1>4. Guest' = Guest
  BY <1>2, <1>3, AbortFields, Names DEF Idle, Guest
<1>5. Here' \subseteq Here /\ (Idle => Idle')
  BY <1>1, <1>4 DEF Here, Idle, Guest
<1>6. GuestRunInv'
  BY <1>4 DEF GuestRunInv, Agreed, Guest, CalmInv, GuestSide
<1> QED
  BY <1>1, <1>2, <1>4, <1>5, <1>6, GuestReceives

LEMMA GuestDoneCalm ==
    ASSUME MixedTypeInv, CalmInv, ReceiveDone("guest"), UNCHANGED mixedVars
    PROVE  CalmInv'
<1> USE RoleNames
<1>1. /\ Arrives("guest", "done") /\ net' = Taken("guest")
      /\ \E c \in RecordResult(Guest, "prover", Head(net["guest"]).run) :
           page' = [page EXCEPT !["guest"] = c]
      /\ UNCHANGED <<linked, alone, asked, localJobs, hashing, started>> /\ UNCHANGED guestVars
  BY DEF ReceiveDone, hostVars, history, mixedVars, Guest, RoleOf, Other
<1>2. PICK c \in RecordResult(Guest, "prover", Head(net["guest"]).run) :
        page' = [page EXCEPT !["guest"] = c]
  BY <1>1
<1>3. Guest' = c /\ Host' = Host /\ Here' = Here
  BY <1>1, <1>2, PageOf DEF Here, guestVars
<1>4. CASE Guest.run = NoRun
  <2>1. Guest' = Guest
    BY <1>2, <1>3, <1>4 DEF RecordResult
  <2>2. GuestRunInv' /\ (Idle => Idle')
    BY <1>1, <2>1 DEF GuestRunInv, Agreed, Guest, CalmInv, GuestSide, Idle, guestVars
  <2> QED
    BY <1>1, <1>3, <2>1, <2>2, GuestReceives
<1>5. CASE Guest.run # NoRun
  <2>1. Head(net["guest"]).run = Guest.run
    <3>1. Head(net["guest"]) \in Range(ToGuest) /\ Head(net["guest"]).kind = "done"
      BY <1>1, <1>3, GuestTaken
    <3> QED
      BY <1>5, <3>1 DEF CalmInv, GuestSide, ToGuestInv
  <2>2. /\ \A x \in Roles : Guest.results[x] \in {NoRun, Guest.run}
        /\ Guest \in CountingOf(Job) /\ c \in RecordResult(Guest, "prover", Guest.run)
    BY <1>2, <2>1, Names DEF CalmInv, GuestSide, GuestRunInv
  <2>3. /\ Guest'.jobs = Guest.jobs
        /\ \/ /\ Guest'.run = Guest.run /\ Guest'.attached = Guest.attached
              /\ Guest'.shown = Guest.shown
              /\ Guest'.results = [Guest.results EXCEPT !["prover"] = Guest.run]
           \/ /\ Ended(Guest, Guest') /\ Guest.results[OtherRole("prover")] # NoRun
              /\ \A x \in Roles : Guest'.shown.results[x] = Guest'.shown.run
    BY <1>3, <1>5, <2>2, RecordFields
  <2>4. Guest.results \in [Roles -> MaybeRun] /\ OtherRole("prover") = "verifier"
    BY <2>2 DEF CountingOf, ControllerOf, Results, OtherRole
  <2>5. GuestRunInv'
    BY <1>5, <2>2, <2>3, <2>4 DEF GuestRunInv, Ended, Agreed, Guest, CalmInv, GuestSide
  <2>6. ~Idle
    BY <1>5 DEF Idle, Guest
  <2>7. \/ Guest'.run = Guest.run /\ Guest'.jobs = Guest.jobs
        \/ Guest'.run = NoRun /\ Guest'.jobs = {}
    BY <2>3, <2>4 DEF Ended, CalmInv, GuestSide, GuestRunInv
  <2> QED
    BY <1>1, <1>3, <2>5, <2>6, <2>7, GuestReceives
<1> QED
  BY <1>4, <1>5

LEMMA GuestBytesCalm ==
    ASSUME MixedTypeInv, CalmInv, ReceiveBytes("guest"), UNCHANGED mixedVars
    PROVE  CalmInv'
<1>1. /\ Arrives("guest", "bytes") /\ net' = Taken("guest")
      /\ page' = [page EXCEPT !["guest"] = OnRemoteProtocol(Guest, Head(net["guest"]).run)]
      /\ UNCHANGED <<linked, alone, asked, localJobs, hashing, started>> /\ UNCHANGED guestVars
  BY DEF ReceiveBytes, hostVars, history, mixedVars, Guest
<1>2. /\ Guest' = OnRemoteProtocol(Guest, Head(net["guest"]).run) /\ Host' = Host
      /\ Here' = Here
  BY <1>1, PageOf DEF Here, guestVars
<1>3. CASE ~Guest.attached
  <2>1. Guest' = Guest
    BY <1>2, <1>3 DEF OnRemoteProtocol
  <2>2. GuestRunInv' /\ (Idle => Idle')
    BY <1>1, <2>1 DEF GuestRunInv, Agreed, Guest, CalmInv, GuestSide, Idle, guestVars
  <2> QED
    BY <1>1, <1>2, <2>1, <2>2, GuestReceives
<1>4. CASE Guest.attached
  <2>1. Guest.run # NoRun
    BY <1>4 DEF CalmInv, GuestSide, GuestRunInv
  <2>2. Head(net["guest"]).run = Guest.run
    <3>1. Head(net["guest"]) \in Range(ToGuest) /\ Head(net["guest"]).kind = "bytes"
      BY <1>1, <1>2, GuestTaken
    <3> QED
      BY <2>1, <3>1 DEF CalmInv, GuestSide, ToGuestInv
  <2>3. /\ \A j \in Guest.jobs : j.run = Guest.run /\ j.got # "foreign"
        /\ \A j, k \in Guest.jobs : j = k
        /\ Guest \in CountingOf(Job) /\ Guest' = OnRemoteProtocol(Guest, Guest.run)
    BY <1>2, <2>2, Names DEF CalmInv, GuestSide, GuestRunInv
  <2>4. LET d == OnRemoteProtocol(Guest, Guest.run)
        IN  /\ d.run = Guest.run /\ d.attached = Guest.attached /\ d.results = Guest.results
            /\ d.pendingProverReq = Guest.pendingProverReq /\ d.shown = Guest.shown
            /\ \A j \in d.jobs : j.run = Guest.run /\ j.got # "foreign"
            /\ \A j, k \in d.jobs : j = k
            /\ d.jobs = {} <=> Guest.jobs = {}
    BY <2>3, BytesFields
  <2>5. GuestRunInv'
    BY <2>3, <2>4 DEF GuestRunInv, Agreed, Guest, CalmInv, GuestSide
  <2>6. ~Idle
    BY <2>1 DEF Idle, Guest
  <2> QED
    BY <1>1, <1>2, <2>3, <2>4, <2>5, <2>6, GuestReceives
<1> QED
  BY <1>3, <1>4

\* No party tells the guest of an error: no prover fails in a calm environment.
LEMMA NoGuestError ==
    ASSUME MixedTypeInv, CalmInv
    PROVE  ~ReceiveError("guest")
<1>1. SUFFICES ASSUME Arrives("guest", "error") PROVE FALSE
  BY DEF ReceiveError
<1>2. Head(ToGuest) \in Range(ToGuest) /\ Head(ToGuest).kind = "error"
  BY <1>1, RangeTail, Names DEF Arrives, ToGuest
<1> QED
  BY <1>2 DEF CalmInv, GuestSide, ToGuestInv

-----------------------------------------------------------------------------

LEMMA CalmNext ==
    Calm /\ MixedTypeInv /\ MixedTypeInv' /\ CalmInv /\ [MixedNext]_<<vars, mixedVars>> => CalmInv'
<1> SUFFICES ASSUME Calm, MixedTypeInv, MixedTypeInv', CalmInv, [MixedNext]_<<vars, mixedVars>>
             PROVE  CalmInv'
  OBVIOUS
<1>1. CASE HostWork
  <2>1. ASSUME NEW j \in page["host"].jobs,
               JobSend("host", j) \/ JobDone("host", j) \/ JobError("host", j),
               UNCHANGED mixedVars
        PROVE  CalmInv'
    <3>1. j \in Host.jobs /\ "host" \in Pages
      BY DEF Host, Pages
    <3> QED
      BY <2>1, <3>1, ProverSendCalm, ProverDoneCalm, NoJobError
  <2> QED
    BY <1>1, <2>1, QuietHostCalm, LocalDoneCalm DEF HostWork
<1>2. CASE SessionStep /\ UNCHANGED mixedVars
  <2>1. ASSUME NEW p \in Pages, Receive(p) PROVE CalmInv'
    BY <1>2, <2>1, ReceiveProposeCalm, ReceiveAbortCalm, ReceiveReadyCalm, ReceiveRefusalCalm,
       HostDoneCalm, GuestDoneCalm, NoGuestError, HostBytesCalm, GuestBytesCalm DEF Receive, Pages
  <2>2. CASE WorkerStep("guest")
    <3>1. \A role \in Roles : ~WorkerBroken("guest", role)
      BY DEF Calm, WorkerBroken
    <3>2. ASSUME NEW j \in page["guest"].jobs,
                 JobSend("guest", j) \/ JobDone("guest", j) \/ JobError("guest", j)
          PROVE  CalmInv'
      <4>1. j \in Guest.jobs /\ "guest" \in Pages
        BY DEF Guest, Pages
      <4> QED
        BY <1>2, <3>2, <4>1, VerifierSendCalm, VerifierDoneCalm, NoJobError
    <3> QED
      BY <1>2, <2>2, <3>1, <3>2, GuestReadyCalm DEF WorkerStep
  <2> QED
    BY <1>2, <2>1, <2>2, ClickProveCalm, AcceptCalm, DeclineCalm, CompiledCalm DEF SessionStep
<1>3. CASE UNCHANGED <<vars, mixedVars>>
  <2>1. /\ Alike(Guest, Guest') /\ Host' = Host /\ net' = net /\ Here' = Here
        /\ UNCHANGED <<linked, alone, asked, localJobs, hashing, started,
                       pendingProposal, acceptedPending, compiling>>
    BY <1>3 DEF vars, hostVars, guestVars, history, mixedVars, Alike, Host, Guest, Here
  <2> QED
    BY <2>1, MovesCalm DEF CalmInv, GuestSide, HereInv
<1> QED
  BY <1>1, <1>2, <1>3, ProveLocalCalm, AbortLocalCalm, QuietHostCalm, ToLocalCalm, ConnectCalm,
     CloseCalm, HashedCalm DEF MixedNext

\* The invariant of the device and its peers, in calm environments.
LEMMA CalmAlways == ASSUME Calm PROVE MixedSpec => []CalmInv
<1>1. MixedTypeInv /\ CalmInv /\ [MixedNext]_<<vars, mixedVars>> => MixedTypeInv' /\ CalmInv'
  BY MixedTypeNext, CalmNext
<1> QED
  BY <1>1, MixedTypeInit, CalmInit, PTL DEF MixedSpec

\* In calm environments the prover starts only once the verifier has accepted this
\* very proposal and is set up (startRemoteRun, attachProver), for any number of runs
\* and of peers who come and go, runs on the device itself included.
THEOREM ProvesOnlyAcceptedHolds ==
    ASSUME Calm PROVE MixedSpec => []ProvesOnlyAccepted
<1>1. CalmInv => ProvesOnlyAccepted
  BY DEF CalmInv, HostSide, HostRunInv, ProvesOnlyAccepted, Host
<1> QED
  BY <1>1, CalmAlways, PTL

\* In calm environments a page that shows success has the results of both parties of
\* that run (RunCallbacks.onFinished), for local runs and runs with a peer alike.
THEOREM AgreementIsRealHolds ==
    ASSUME Calm PROVE MixedSpec => []AgreementIsReal
<1>1. CalmInv => AgreementIsReal
  BY DEF CalmInv, HostSide, HostRunInv, GuestSide, GuestRunInv, AgreementIsReal, Pages
<1> QED
  BY <1>1, CalmAlways, PTL

\* In calm environments a local run and a peer that connects while it is on leave each
\* other alone (setHost, onRemoteControl, the workers' handler and abort).
THEOREM LocalRunIsAloneHolds ==
    ASSUME Calm PROVE MixedSpec => []LocalRunIsAlone
<1>1. MixedTypeInv /\ CalmInv => LocalRunIsAlone
  <2> SUFFICES ASSUME MixedTypeInv, CalmInv PROVE LocalRunIsAlone
    OBVIOUS
  <2>1. linked["host"] /\ Host.run \in alone => ToHost = <<>> /\ (linked["guest"] => Idle)
    BY WhileAlone DEF Both
  <2>2. ASSUME NEW kind \in Kinds, Arrives("guest", kind), Head(ToGuest).run \in alone
        PROVE  Idle
    <3>1. Head(ToGuest) \in Range(ToGuest)
      BY <2>2, RangeTail, Names DEF Arrives, ToGuest
    <3> QED
      BY <2>2, <3>1 DEF CalmInv, GuestSide, ToGuestInv
  <2> QED
    BY <2>1, <2>2 DEF LocalRunIsAlone, Host, ToHost, ToGuest
<1>2. MixedSpec => []MixedTypeInv
  BY MixedTypeInit, MixedTypeNext, PTL DEF MixedSpec
<1> QED
  BY <1>1, <1>2, CalmAlways, PTL

-----------------------------------------------------------------------------
(* The pane.                                                               *)

\* A step of the session with its pane is one of the session.
LEMMA ViewStep == [ViewNext]_<<vars, viewVars, overtaken>> => [Next]_vars
<1> SUFFICES ASSUME [ViewNext]_<<vars, viewVars, overtaken>> PROVE [Next]_vars
  OBVIOUS
<1>1. CASE GuestStep
  <2>1. ASSUME NEW role \in Roles, ViewWorkerReady(role) PROVE [Next]_vars
    BY <2>1 DEF ViewWorkerReady, Next, WorkerStep, Pages
  <2>2. ASSUME NEW r \in Runs, ModuleHashed(r) PROVE [Next]_vars
    BY <2>2 DEF ModuleHashed
  <2>3. CASE ViewCompiled
    BY <2>3 DEF ViewCompiled, Next, Compiled
  <2>4. CASE ViewPropose \/ ViewAbort
    BY <2>4 DEF ViewPropose, ViewAbort, Next, Receive, Pages
  <2>5. CASE ViewAccept \/ ViewDecline \/ ViewClose
    BY <2>5 DEF ViewAccept, ViewDecline, ViewClose, Next, Pages
  <2> QED
    BY <1>1, <2>1, <2>2, <2>3, <2>4, <2>5 DEF GuestStep
<1>2. CASE OtherStep
  <2>1. ASSUME NEW p \in Pages,
               \/ \E role \in Roles : WorkerBroken(p, role)
               \/ \E j \in page[p].jobs : JobSend(p, j) \/ JobDone(p, j) \/ JobError(p, j)
        PROVE  [Next]_vars
    BY <2>1 DEF Next, WorkerStep
  <2>2. ASSUME NEW p \in Pages, ReceiveDone(p) \/ ReceiveError(p) \/ ReceiveBytes(p)
        PROVE  [Next]_vars
    BY <2>2 DEF Next, Receive
  <2>3. CASE ReceiveReady \/ ReceiveDecline
    BY <2>3 DEF Next, Receive, Pages
  <2>4. ASSUME NEW role \in Roles, WorkerReady("host", role) PROVE [Next]_vars
    BY <2>4 DEF Next, WorkerStep, Pages
  <2>5. CASE LinkDown("host")
    BY <2>5 DEF Next, Pages
  <2>6. CASE ClickProve \/ ClickAbort \/ \E r \in hashing : HashDone(r)
    BY <2>6 DEF Next
  <2> QED
    BY <1>2, <2>1, <2>2, <2>3, <2>4, <2>5, <2>6 DEF OtherStep
<1> QED
  BY <1>1, <1>2 DEF ViewNext

\* The pane leaves the session alone: a behaviour of GuestView is one of
\* PeerSession.
THEOREM ViewRefinesSession == ViewSpec => Spec
BY ViewStep, PTL DEF ViewSpec, Spec

-----------------------------------------------------------------------------

AsksInv ==
    /\ ViewTypeOK
    /\ view.actions <=> pendingProposal # NoRun
    /\ pendingProposal # NoRun => view.panel = "run" /\ ~view.hidden
    /\ view.hidden => ~linked["guest"]

\* What the calls that leave the proposal alone keep of a pane.
Same(v, w) ==
    /\ w.actions = v.actions /\ w.hidden = v.hidden
    /\ v.panel = "run" => w.panel = "run"

Panes ==
    [hidden : BOOLEAN, panel : {"waiting", "run"}, actions : BOOLEAN,
     label : {"none", "incoming request", "verifying"},
     title : MaybeRun, params : MaybeRun, module : MaybeRun,
     desc : {"none", "proposed", "loading", "compiling", "refused", "running"}]

\* What the calls of proceedAccept leave alone on the pane.
LEMMA Calls ==
    ASSUME NEW v \in Panes, NEW r \in MaybeRun
    PROVE  /\ ShowRunning(v, r) \in Panes /\ Same(v, ShowRunning(v, r))
           /\ Compiling(v) \in Panes /\ Same(v, Compiling(v))
           /\ \A d \in {"loading", "refused"} :
                SetStatus(v, d) \in Panes /\ Same(v, SetStatus(v, d))
           /\ BeginAccept(v) \in Panes /\ ~BeginAccept(v).actions
           /\ BeginAccept(v).hidden = v.hidden
           /\ ResetToWaiting(v) \in Panes /\ ~ResetToWaiting(v).actions
           /\ ResetToWaiting(v).hidden = v.hidden
           /\ Exit(v) \in Panes /\ ~Exit(v).actions /\ Exit(v).hidden
           /\ ShowProposal(v, r) \in Panes /\ ShowProposal(v, r).actions
           /\ ShowProposal(v, r).panel = "run" /\ ShowProposal(v, r).hidden = v.hidden
  BY ZenonT(30) DEF Panes, Same, MaybeRun, ShowRunning, Compiling, SetStatus, BeginAccept,
         ResetToWaiting, Exit, ShowProposal

\* Sources and uploads are modules of runs.
LEMMA CustomRuns == Custom \subseteq Runs
  BY PeerAssumption, ViewAssumption DEF Custom

\* proceedAccept touches neither the buttons nor the panel they are on.
LEMMA ProceedKeeps ==
    ASSUME NEW v \in Panes, NEW r \in MaybeRun, hashed \subseteq Runs, Proceed(v, r)
    PROVE  view' \in Panes /\ Same(v, view') /\ hashed' \subseteq Runs
<1>1. view' \in Panes /\ Same(v, view')
  BY Calls DEF Proceed, Same
<1> QED
  BY <1>1, CustomRuns DEF Proceed

\* A guest that has just connected waits.
LEMMA AsksInit == Init /\ ViewInit => AsksInv
<1> SUFFICES ASSUME Init, ViewInit PROVE AsksInv
  OBVIOUS
<1>1. /\ linked["guest"] /\ pendingProposal = NoRun
      /\ view.panel = "waiting" /\ view.hidden = FALSE /\ view.actions = FALSE
  BY DEF Init, ViewInit, Pages
<1>2. view \in Panes
  <2>1. NoRun \in MaybeRun
    BY DEF MaybeRun
  <2> QED
    BY <2>1 DEF ViewInit, Panes
<1>3. ViewTypeOK
  BY <1>2 DEF ViewInit, ViewTypeOK, Panes
<1> QED
  BY <1>1, <1>3 DEF AsksInv

\* A step that leaves the proposal and the guest's link alone, and the pane with
\* its buttons, panel and place.
LEMMA AsksQuiet ==
    ASSUME AsksInv, view' \in Panes, Same(view, view'), hashed' \subseteq Runs,
           overtaken' \in BOOLEAN, pendingProposal' = pendingProposal,
           linked'["guest"] = linked["guest"]
    PROVE  AsksInv'
  BY DEF AsksInv, ViewTypeOK, Panes, Same

\* What the steps that do not call the pane leave alone.
LEMMA OtherKeeps ==
    ASSUME TypeInv, OtherStep
    PROVE  /\ linked'["guest"] = linked["guest"] /\ UNCHANGED <<pendingProposal, started>>
           /\ acceptedPending' = acceptedPending /\ compiling' = compiling
<1> USE DEF guestVars, history
<1>1. ASSUME NEW r \in hashing, HashDone(r) PROVE UNCHANGED <<linked, guestVars, started>>
  BY <1>1 DEF HashDone
<1>2. ASSUME NEW role \in Roles, WorkerReady("host", role)
      PROVE  UNCHANGED <<linked, guestVars, started>>
  BY <1>2 DEF WorkerReady
<1>3. ASSUME NEW p \in Pages, NEW role \in Roles, WorkerBroken(p, role)
      PROVE  UNCHANGED <<linked, guestVars, started>>
  BY <1>3 DEF WorkerBroken
<1>4. ASSUME NEW p \in Pages, ReceiveDone(p) \/ ReceiveError(p) \/ ReceiveBytes(p)
      PROVE  UNCHANGED <<linked, guestVars, started>>
  BY <1>4 DEF ReceiveDone, ReceiveError, ReceiveBytes
<1>5. ASSUME NEW p \in Pages, NEW j \in page[p].jobs,
             JobSend(p, j) \/ JobDone(p, j) \/ JobError(p, j)
      PROVE  UNCHANGED <<linked, guestVars, started>>
  BY <1>5 DEF JobSend, JobDone, JobError
<1>6. CASE LinkDown("host")
  BY <1>6 DEF LinkDown, TypeInv, Pages
<1>7. CASE ClickProve \/ ClickAbort \/ ReceiveReady \/ ReceiveDecline
  BY <1>7 DEF ClickProve, ClickAbort, ReceiveReady, ReceiveDecline
<1> QED
  BY <1>1, <1>2, <1>3, <1>4, <1>5, <1>6, <1>7 DEF OtherStep

\* Each step of the guest's session, with the calls it makes on the pane.
LEMMA AsksNext == TypeInv /\ AsksInv /\ [ViewNext]_<<vars, viewVars, overtaken>> => AsksInv'
<1> SUFFICES ASSUME TypeInv, AsksInv, [ViewNext]_<<vars, viewVars, overtaken>>
             PROVE  AsksInv'
  OBVIOUS
<1>0. /\ view \in Panes /\ hashed \subseteq Runs /\ overtaken' \in BOOLEAN
      /\ pendingProposal \in MaybeRun /\ acceptedPending \in MaybeRun
      /\ Same(view, view) /\ compiling \subseteq Runs
  BY DEF AsksInv, ViewTypeOK, Panes, Same, TypeInv, ViewNext
<1>1. CASE ViewPropose
  <2>1. /\ linked["guest"] /\ linked' = linked /\ hashed' = hashed
    BY <1>1 DEF ViewPropose, ReceivePropose, Arrives
  <2>2. CASE pendingProposal' = pendingProposal
    BY <1>0, <1>1, <2>1, <2>2, AsksQuiet DEF ViewPropose
  <2>3. CASE pendingProposal' # pendingProposal
    <3>1. pendingProposal = NoRun /\ view' = ShowProposal(view, pendingProposal')
      BY <1>1, <2>3 DEF ViewPropose, ReceivePropose
    <3>2. pendingProposal' \in MaybeRun
      <4>1. TypeInv'
        BY <1>1, TypeNext DEF ViewPropose, Next, Receive, Pages
      <4> QED
        BY <4>1 DEF TypeInv
    <3>3. /\ view' \in Panes /\ view'.actions /\ view'.panel = "run"
          /\ view'.hidden = view.hidden
      BY <1>0, <3>1, <3>2, Calls
    <3>4. ~view.hidden
      BY <2>1 DEF AsksInv
    <3>5. ViewTypeOK'
      BY <1>0, <2>1, <3>3 DEF ViewTypeOK, Panes
    <3> QED
      BY <2>1, <2>3, <3>1, <3>3, <3>4, <3>5 DEF AsksInv
  <2> QED
    BY <2>2, <2>3
<1>2. CASE ViewAccept
  <2>1. /\ pendingProposal' = NoRun /\ linked' = linked
        /\ view' \in Panes /\ ~view'.actions /\ view'.hidden = view.hidden
        /\ hashed' \subseteq Runs
    <3>1. CASE page["guest"].nReady < 2
      BY <1>0, <1>2, <3>1, Calls DEF ViewAccept, AcceptRun, Same
    <3>2. CASE ~(page["guest"].nReady < 2)
      <4>1. Proceed(BeginAccept(view), pendingProposal)
        BY <1>2, <3>2 DEF ViewAccept
      <4> QED
        BY <1>0, <1>2, <4>1, Calls, ProceedKeeps DEF ViewAccept, AcceptRun, Same
    <3> QED
      BY <3>1, <3>2
  <2> QED
    BY <1>0, <2>1 DEF AsksInv, ViewTypeOK, Panes
<1>3. CASE ViewDecline \/ ViewAbort
  <2>1. /\ pendingProposal' = NoRun /\ linked' = linked /\ hashed' = hashed
        /\ view' = ResetToWaiting(view)
    BY <1>3 DEF ViewDecline, DeclineRun, ViewAbort, ReceiveAbort
  <2> QED
    BY <1>0, <2>1, Calls DEF AsksInv, ViewTypeOK, Panes
<1>4. CASE ViewClose
  <2>1. /\ pendingProposal' = NoRun /\ ~linked'["guest"] /\ hashed' = hashed
        /\ view' = Exit(view)
    BY <1>4 DEF ViewClose, LinkDown, TypeInv, Pages
  <2> QED
    BY <1>0, <2>1, Calls DEF AsksInv, ViewTypeOK, Panes
<1>5. ASSUME NEW r \in compiling, CompileOk(r), Proceed(view, r) PROVE AsksInv'
  <2>1. linked' = linked /\ pendingProposal' = pendingProposal /\ r \in MaybeRun
    BY <1>0, <1>5 DEF CompileOk, MaybeRun
  <2> QED
    BY <1>0, <1>5, <2>1, ProceedKeeps, AsksQuiet
<1>6. ASSUME NEW r \in compiling, CompileRefused(r), view' = SetStatus(view, "refused"),
             UNCHANGED hashed
      PROVE  AsksInv'
  <2>1. linked' = linked /\ pendingProposal' = pendingProposal
    BY <1>6 DEF CompileRefused
  <2>2. NoRun \in MaybeRun
    BY DEF MaybeRun
  <2> QED
    BY <1>0, <1>6, <2>1, <2>2, Calls, AsksQuiet
<1>7. ASSUME NEW role \in Roles, ViewWorkerReady(role) PROVE AsksInv'
  <2>1. linked' = linked /\ pendingProposal' = pendingProposal
    BY <1>7 DEF ViewWorkerReady, WorkerReady
  <2> QED
    BY <1>0, <1>7, <2>1, ProceedKeeps, AsksQuiet DEF ViewWorkerReady
<1>8. ASSUME NEW r \in Runs, ModuleHashed(r) PROVE AsksInv'
  <2>1. /\ linked' = linked /\ pendingProposal' = pendingProposal /\ hashed' \subseteq Runs
        /\ view' = [view EXCEPT !.module = r]
    BY <1>0, <1>8 DEF ModuleHashed, vars, guestVars
  <2>2. view' \in Panes /\ Same(view, view')
    BY <1>0, <2>1 DEF Panes, Same, MaybeRun
  <2> QED
    BY <1>0, <2>1, <2>2, AsksQuiet
<1>9. CASE OtherStep /\ Keep
  BY <1>0, <1>9, OtherKeeps, AsksQuiet DEF Keep, viewVars
<1>10. CASE UNCHANGED <<vars, viewVars, overtaken>>
  BY <1>0, <1>10, AsksQuiet DEF vars, guestVars, viewVars
<1> QED
  BY <1>1, <1>2, <1>3, <1>4, <1>5, <1>6, <1>7, <1>8, <1>9, <1>10
     DEF ViewNext, GuestStep, ViewCompiled

\* The user is asked exactly while a proposal waits for an answer (showProposal,
\* beginAccept, resetToWaiting and exit of verifier-view.ts), in every environment.
THEOREM AsksWhatPendsHolds == ViewSpec => []AsksWhatPends
<1>1. AsksInv => AsksWhatPends
  BY DEF AsksInv, AsksWhatPends, Asks
<1>2. Spec => []TypeInv
  BY TypeInit, TypeNext, PTL DEF Spec
<1> QED
  BY <1>1, <1>2, ViewRefinesSession, AsksInit, AsksNext, PTL DEF ViewSpec

-----------------------------------------------------------------------------
(* What the pane says.  As long as no run is overtaken, what a guest hears *)
(* of another run comes after the abort of the one that it has.            *)

\* Of the runs of S, and of a proposal in n, the next news in n is the abort.
InOrder(n, S) ==
    \A j \in DOMAIN n : n[j].kind \in NewsKinds =>
        /\ \A s \in S : \E k \in 1..j : n[k] = Msg("abort", s)
        /\ \A i \in 1..(j - 1) : n[i].kind = "propose" =>
             \E k \in (i + 1)..j : n[k] = Msg("abort", n[i].run)

LEMMA OrderTail ==
    ASSUME NEW n \in Seq(Message), n # <<>>, NEW S, NEW T, InOrder(n, S),
           \/ Head(n).kind \notin NewsKinds /\ T \subseteq S
           \/ Head(n).kind = "propose" /\ T \subseteq S \cup {Head(n).run}
           \/ Head(n).kind = "abort" /\ T \subseteq S \ {Head(n).run}
    PROVE  InOrder(Tail(n), T)
<1> DEFINE t == Tail(n)
<1>1. /\ Len(n) \in Nat \ {0} /\ Len(t) = Len(n) - 1 /\ Head(n) = n[1] /\ 1 \in DOMAIN n
      /\ \A i \in DOMAIN t : t[i] = n[i + 1] /\ i + 1 \in DOMAIN n
      /\ DOMAIN t = 1..Len(t) /\ DOMAIN n = 1..Len(n)
  OBVIOUS
<1> HIDE DEF t
<1>2. \A k, r : Msg(k, r).kind = k /\ Msg(k, r).run = r
  BY DEF Msg
<1> SUFFICES ASSUME NEW j \in DOMAIN t, t[j].kind \in NewsKinds
             PROVE  /\ \A s \in T : \E k \in 1..j : t[k] = Msg("abort", s)
                    /\ \A i \in 1..(j - 1) : t[i].kind = "propose" =>
                         \E k \in (i + 1)..j : t[k] = Msg("abort", t[i].run)
  BY DEF InOrder, t
<1>3. /\ j + 1 \in DOMAIN n /\ n[j + 1].kind \in NewsKinds /\ t[j] = n[j + 1]
      /\ j \in Nat
  BY <1>1
<1>4. ASSUME NEW s \in T PROVE \E k \in 1..j : t[k] = Msg("abort", s)
  <2>1. PICK k \in 2..(j + 1) : n[k] = Msg("abort", s)
    <3>1. CASE s \in S /\ Head(n) # Msg("abort", s)
      BY <1>1, <1>3, <3>1 DEF InOrder
    <3>2. CASE Head(n).kind = "propose" /\ s = Head(n).run
      BY <1>1, <1>3, <3>2 DEF InOrder
    <3> QED
      BY <1>2, <1>4, <3>1, <3>2 DEF NewsKinds
  <2>2. k - 1 \in 1..j /\ k - 1 \in DOMAIN t /\ t[k - 1] = n[(k - 1) + 1] /\ (k - 1) + 1 = k
    BY <1>1, <1>3
  <2> QED
    BY <2>1, <2>2
<1>5. ASSUME NEW i \in 1..(j - 1), t[i].kind = "propose"
      PROVE  \E k \in (i + 1)..j : t[k] = Msg("abort", t[i].run)
  <2>1. i \in DOMAIN t /\ i + 1 \in 1..((j + 1) - 1) /\ n[i + 1] = t[i]
    BY <1>1, <1>3
  <2>2. PICK k \in ((i + 1) + 1)..(j + 1) : n[k] = Msg("abort", t[i].run)
    <3>1. \A x \in 1..((j + 1) - 1) : n[x].kind = "propose" =>
            \E k \in (x + 1)..(j + 1) : n[k] = Msg("abort", n[x].run)
      BY <1>3 DEF InOrder
    <3> QED
      BY <1>5, <2>1, <3>1
  <2>3. k - 1 \in (i + 1)..j /\ k - 1 \in DOMAIN t /\ t[k - 1] = n[(k - 1) + 1] /\ (k - 1) + 1 = k
    BY <1>1, <1>3
  <2> QED
    BY <2>2, <2>3
<1> QED
  BY <1>4, <1>5

LEMMA OrderAppend ==
    ASSUME NEW n \in Seq(Message), NEW m \in Message, NEW S, InOrder(n, S), AbortedAfter(n),
           m.kind \in NewsKinds =>
             \A s \in S \cup ProposedIn(n) :
               (m.kind = "abort" /\ s = m.run) \/ \E k \in DOMAIN n : n[k] = Msg("abort", s)
    PROVE  InOrder(Append(n, m), S)
<1> DEFINE a == Append(n, m)
<1>1. /\ Len(a) = Len(n) + 1 /\ Len(n) \in Nat /\ a[Len(a)] = m
      /\ \A i \in 1..Len(n) : a[i] = n[i] /\ n[i] \in Message
      /\ DOMAIN a = 1..Len(a) /\ DOMAIN n = 1..Len(n)
  OBVIOUS
<1> HIDE DEF a
<1>2. /\ \A k, r : Msg(k, r).kind = k /\ Msg(k, r).run = r
      /\ \A x \in Message : x = Msg(x.kind, x.run) /\ x.run \in Runs
  BY DEF Msg, Message
<1> SUFFICES ASSUME NEW j \in DOMAIN a, a[j].kind \in NewsKinds
             PROVE  /\ \A s \in S : \E k \in 1..j : a[k] = Msg("abort", s)
                    /\ \A i \in 1..(j - 1) : a[i].kind = "propose" =>
                         \E k \in (i + 1)..j : a[k] = Msg("abort", a[i].run)
  BY DEF InOrder, a
<1>3. CASE j \in DOMAIN n
  <2>1. /\ \A s \in S : \E k \in 1..j : n[k] = Msg("abort", s)
        /\ \A i \in 1..(j - 1) : n[i].kind = "propose" =>
             \E k \in (i + 1)..j : n[k] = Msg("abort", n[i].run)
    BY <1>1, <1>3 DEF InOrder
  <2>2. \A k \in 1..j : a[k] = n[k]
    BY <1>1, <1>3
  <2> QED
    BY <2>1, <2>2, <1>1
<1>4. CASE j = Len(a)
  <2>1. m.kind \in NewsKinds
    BY <1>1, <1>4
  <2>2. ASSUME NEW s \in S PROVE \E k \in 1..j : a[k] = Msg("abort", s)
    <3>1. CASE m = Msg("abort", s)
      BY <1>1, <1>4, <3>1
    <3>2. ASSUME NEW k \in DOMAIN n, n[k] = Msg("abort", s)
          PROVE  \E l \in 1..j : a[l] = Msg("abort", s)
      BY <1>1, <1>4, <3>2
    <3> QED
      BY <1>2, <2>1, <3>1, <3>2
  <2>3. ASSUME NEW i \in 1..(j - 1), a[i].kind = "propose"
        PROVE  \E k \in (i + 1)..j : a[k] = Msg("abort", a[i].run)
    <3> DEFINE s == a[i].run
    <3>1. i \in DOMAIN n /\ n[i] = Msg("propose", s) /\ s \in ProposedIn(n) /\ n[i] = a[i]
      BY <1>1, <1>2, <1>4, <2>3 DEF ProposedIn
    <3>2. CASE m = Msg("abort", s)
      BY <1>1, <1>4, <3>1, <3>2
    <3>3. ASSUME NEW k \in DOMAIN n, n[k] = Msg("abort", s)
          PROVE  \E l \in (i + 1)..j : a[l] = Msg("abort", s)
      <4>1. n[k].kind = "abort" /\ n[k].run = s /\ n[i].kind = "propose"
        BY <1>2, <3>1, <3>3
      <4>2. ~(k < i) /\ k # i
        BY <3>1, <4>1 DEF AbortedAfter
      <4>3. k \in (i + 1)..j
        BY <1>1, <1>4, <3>1, <3>3, <4>2
      <4> QED
        BY <1>1, <3>3, <4>3
    <3> QED
      BY <1>2, <2>1, <3>1, <3>2, <3>3
  <2> QED
    BY <2>2, <2>3
<1> QED
  BY <1>1, <1>3, <1>4

LEMMA OrderForwards ==
    ASSUME NEW n \in Seq(Message), NEW m, Forwards(n, m), NEW S, NEW T, T \subseteq S,
           InOrder(n, S), AbortedAfter(n)
    PROVE  InOrder(m, T)
<1>1. CASE m = n \/ m = <<>>
  BY <1>1 DEF InOrder
<1>2. CASE n # << >> /\ Head(n).kind \notin NewsKinds /\ m = Tail(n)
  BY <1>2, OrderTail
<1>3. ASSUME NEW x \in Message, x.kind \notin NewsKinds, m = Append(n, x) PROVE InOrder(m, T)
  <2>1. InOrder(m, S)
    BY <1>3, OrderAppend
  <2> QED
    BY <2>1 DEF InOrder
<1> QED
  BY <1>1, <1>2, <1>3 DEF Forwards

\* No run is overtaken while both ends are open: whatever the guest has or will have
\* is the host's run, or is about to be aborted.
LEMMA Told ==
    ASSUME ~Untold, linked["host"], linked["guest"],
           NEW s \in Here \cup {m.run : m \in {x \in Range(ToGuest) : x.kind = "propose"}}
    PROVE  \/ s = Host.run
           \/ \E x \in Range(ToGuest) : x.kind = "abort" /\ x.run = s
BY DEF Untold, Proposed, News, Here, ToGuest, Host

\* The host's news come when the guest has heard, or is about to hear, that the runs
\* before are over.
LEMMA NewsOrder ==
    ASSUME SafeInv, PlacesInv, InOrder(ToGuest, Here), NEW m \in Message, m.kind \in NewsKinds,
           net' = Send(net, "host", m), Here' = Here, linked' = linked,
           Both => \A s \in Here \cup ProposedIn(ToGuest) :
                     \/ m.kind = "abort" /\ s = m.run
                     \/ \E x \in Range(ToGuest) : x.kind = "abort" /\ x.run = s
    PROVE  InOrder(ToGuest, Here)'
<1>1. /\ ToGuest \in Seq(Message) /\ TypeInv /\ "host" \in Pages
      /\ AbortedAfter(ToGuest)
  BY DEF SafeInv, TypeInv, Pages, ToGuest, PlacesInv, Withdrawn
<1>2. CASE ~Both
  BY <1>1, <1>2, SendNet DEF ToGuest
<1>3. CASE Both
  <2>1. ToGuest' = Append(ToGuest, m)
    BY <1>1, <1>3, SendNet DEF ToGuest, Other
  <2>2. \A x \in Range(ToGuest) : \E k \in DOMAIN ToGuest : ToGuest[k] = Msg(x.kind, x.run)
    <3>1. \A x \in Message : x = Msg(x.kind, x.run)
      BY DEF Message, Msg
    <3>2. \A k \in DOMAIN ToGuest : ToGuest[k] \in Message
      BY <1>1
    <3> QED
      BY <3>1, <3>2 DEF Range
  <2>3. InOrder(Append(ToGuest, m), Here)
    BY <1>1, <1>3, <2>2, OrderAppend
  <2> QED
    BY <2>1, <2>3
<1> QED
  BY <1>2, <1>3

LEMMA ProposeOrder ==
    ASSUME SafeInv, PlacesInv, InOrder(ToGuest, Here), ~Untold', NEW r \in Unsent,
           net' = Send(net, "host", Msg("propose", r)), linked' = linked,
           UNCHANGED guestVars, Host'.run = r
    PROVE  InOrder(ToGuest, Here)'
<1> DEFINE m == Msg("propose", r)
<1>1. /\ ToGuest \in Seq(Message) /\ TypeInv /\ "host" \in Pages /\ Here' = Here
  BY DEF SafeInv, TypeInv, Pages, ToGuest, Here, guestVars
<1>2. r \in Runs /\ m \in Message /\ m.kind = "propose" /\ m.run = r
  BY <1>1, MsgType DEF Unsent, Kinds, Msg, TypeInv
<1>3. r \notin Here \cup ProposedIn(ToGuest)
  BY DEF PlacesInv, OnePlace, Here, OnScreen, Kept, OnWire, ToGuest
<1>4. ASSUME Both, NEW s \in Here \cup ProposedIn(ToGuest)
      PROVE  \E x \in Range(ToGuest) : x.kind = "abort" /\ x.run = s
  <2>1. ToGuest' = Append(ToGuest, m)
    BY <1>1, <1>2, <1>4, SendNet DEF ToGuest, Other
  <2>2. Range(ToGuest') = Range(ToGuest) \cup {m}
    BY <1>1, <1>2, <2>1, RangeAppend
  <2>3. s \in Proposed'
    <3>1. CASE s \in Here
      BY <1>1, <3>1 DEF Here, Proposed
    <3>2. CASE s \in ProposedIn(ToGuest)
      <4>1. PICK i \in DOMAIN ToGuest : ToGuest[i] = Msg("propose", s)
        BY <3>2 DEF ProposedIn
      <4>2. ToGuest[i] \in Range(ToGuest) /\ ToGuest[i].kind = "propose" /\ ToGuest[i].run = s
        BY <4>1 DEF Range, Msg
      <4>3. ToGuest[i] \in Range(net["guest"])'
        BY <2>2, <4>2 DEF ToGuest
      <4> QED
        BY <4>2, <4>3 DEF Proposed, News
    <3> QED
      BY <1>4, <3>1, <3>2
  <2>4. s \in {r} \cup News({"abort"})'
    BY <1>4, <2>3 DEF Untold, Both, Host
  <2>5. PICK x \in Range(ToGuest') : x.kind = "abort" /\ x.run = s
    BY <1>3, <1>4, <2>4 DEF News, ToGuest
  <2> QED
    BY <1>2, <2>2, <2>5
<1> QED
  BY <1>1, <1>2, <1>4, NewsOrder DEF NewsKinds

LEMMA AbortOrder ==
    ASSUME SafeInv, PlacesInv, InOrder(ToGuest, Here), ~Untold, ClickAbort
    PROVE  InOrder(ToGuest, Here)'
<1> DEFINE m == Msg("abort", Host.run)
<1>1. /\ Here' = Here /\ linked' = linked /\ net' = Send(net, "host", m)
  BY DEF ClickAbort, Here, guestVars, Host
<1>2. Host.run \in Runs
  BY DEF ClickAbort, SafeInv, TypeInv, CountingOf, ControllerOf, MaybeRun, Pages, Host
<1>3. m \in Message /\ m.kind = "abort" /\ m.run = Host.run
  BY <1>2, MsgType DEF Kinds, Msg
<1>4. ASSUME NEW s \in ProposedIn(ToGuest)
      PROVE  s \in {x.run : x \in {y \in Range(ToGuest) : y.kind = "propose"}}
  <2>1. PICK i \in DOMAIN ToGuest : ToGuest[i] = Msg("propose", s)
    BY <1>4 DEF ProposedIn
  <2> QED
    BY <2>1 DEF Range, Msg
<1>5. Both => \A s \in Here \cup ProposedIn(ToGuest) :
                 \/ s = m.run
                 \/ \E x \in Range(ToGuest) : x.kind = "abort" /\ x.run = s
  BY <1>3, <1>4, Told DEF Both
<1> QED
  BY <1>1, <1>3, <1>5, NewsOrder DEF NewsKinds

\* A delivered proposal comes to a guest that has none; a delivered abort leaves it
\* with none.
LEMMA DeliveredOrder ==
    ASSUME SafeInv, PlacesInv, InOrder(ToGuest, Here), ~Untold',
           ReceivePropose \/ ReceiveAbort
    PROVE  /\ InOrder(ToGuest, Here)'
           /\ ReceivePropose => Here = {} /\ Here' \subseteq {Head(ToGuest).run}
           /\ ReceiveAbort => Here' = {}
<1>1. /\ ToGuest \in Seq(Message) /\ ToGuest # <<>> /\ ToGuest' = Tail(ToGuest)
      /\ ToGuest[1] = Head(ToGuest) /\ 1 \in DOMAIN ToGuest
      /\ Head(ToGuest).kind \in NewsKinds
  BY DEF ReceivePropose, ReceiveAbort, Arrives, Taken, SafeInv, TypeInv, Pages, ToGuest, NewsKinds
<1>2. \A s \in Here : Head(ToGuest) = Msg("abort", s)
  BY <1>1 DEF InOrder
<1>3. CASE ReceivePropose
  <2>1. Head(ToGuest).kind = "propose"
    BY <1>3 DEF ReceivePropose, Arrives, ToGuest
  <2>2. Here = {}
    BY <1>2, <2>1 DEF Msg
  <2>3. Here' \subseteq {Head(ToGuest).run}
    BY <1>3, <2>2 DEF ReceivePropose, Here, ToGuest
  <2>4. Head(ToGuest).kind # "abort"
    BY <2>1
  <2> QED
    BY <1>1, <1>3, <2>1, <2>2, <2>3, <2>4, OrderTail DEF ReceiveAbort, Arrives, ToGuest
<1>4. CASE ReceiveAbort
  <2>1. Head(ToGuest).kind = "abort"
    BY <1>4 DEF ReceiveAbort, Arrives, ToGuest
  <2>2. Head(ToGuest).run \notin compiling'
    BY <1>4 DEF ReceiveAbort, Untold, ToGuest
  <2>3. \A s \in Here : s = Head(ToGuest).run
    BY <1>2 DEF Msg
  <2>4. Here' = {}
    BY <1>4, <2>2, <2>3 DEF ReceiveAbort, Here
  <2> QED
    BY <1>1, <1>4, <2>1, <2>4, OrderTail DEF ReceivePropose, Arrives, ToGuest
<1> QED
  BY <1>3, <1>4

\* What the guest has of the host's runs is one of them.
Ordered == InOrder(ToGuest, Here) /\ \A r, s \in Here : r = s

LEMMA QuietOrder ==
    ASSUME SafeInv, PlacesInv, Ordered, Here' \subseteq Here,
           Forwards(net["guest"], net'["guest"])
    PROVE  Ordered'
<1>1. ToGuest \in Seq(Message) /\ AbortedAfter(ToGuest)
  BY DEF SafeInv, TypeInv, Pages, ToGuest, PlacesInv, Withdrawn
<1> QED
  BY <1>1, OrderForwards DEF Ordered, ToGuest

LEMMA OrderNext ==
    ASSUME SafeInv, PlacesInv, Ordered, ~Untold, ~Untold', [Next]_vars
    PROVE  Ordered'
<1>0. TypeInv /\ Forwards(net["guest"], net["guest"])
  BY DEF SafeInv, Forwards
<1>1. CASE Passing
  BY <1>1, QuietOrder DEF Passing, Here
<1>2. CASE ClickProve
  <2> DEFINE r == asked + 1
  <2>1. /\ r \in Runs /\ asked' = r /\ r > asked /\ Here' = Here /\ linked' = linked
        /\ UNCHANGED guestVars
    BY <1>0, <1>2, MaxRunsAssumption DEF ClickProve, TypeInv, Runs, guestVars, Here
  <2>2. CASE r \in Sourced
    BY <1>0, <1>2, <2>1, <2>2, QuietOrder DEF ClickProve
  <2>3. CASE r \notin Sourced
    <3>1. /\ net' = Send(net, "host", Msg("propose", r))
          /\ Host' = [Propose(Host, r) EXCEPT !.button = "running"]
      BY <1>0, <1>2, <2>3 DEF ClickProve, Host, TypeInv, Pages
    <3>2. Host \in CountingOf(Job)
      BY <1>0 DEF TypeInv, Pages, Host
    <3>3. Host'.run = r /\ r \in Unsent
      BY <2>1, <3>1, <3>2 DEF Propose, NewRun, CountingOf, ControllerOf, Unsent
    <3> QED
      BY <2>1, <3>1, <3>3, ProposeOrder DEF Ordered
  <2> QED
    BY <2>2, <2>3
<1>3. ASSUME NEW r \in hashing, HashDone(r) PROVE Ordered'
  <2>1. /\ net' = Send(net, "host", Msg("propose", r)) /\ linked' = linked /\ Here' = Here
        /\ UNCHANGED guestVars /\ Host' = Propose(Host, r)
    BY <1>0, <1>3 DEF HashDone, Host, TypeInv, Pages, Here, guestVars
  <2>2. Host \in CountingOf(Job)
    BY <1>0 DEF TypeInv, Pages, Host
  <2>3. Host'.run = r /\ r \in Unsent
    BY <1>3, <2>1, <2>2 DEF Propose, NewRun, CountingOf, ControllerOf, Unsent
  <2> QED
    BY <2>1, <2>3, ProposeOrder DEF Ordered
<1>4. CASE ClickAbort
  BY <1>4, AbortOrder DEF Ordered, ClickAbort, guestVars, Here
<1>5. ASSUME NEW r \in Runs, NEW c, r \in Here, ProceedAccept(r, c),
             pendingProposal' \in {pendingProposal, NoRun},
             acceptedPending' \in {acceptedPending, NoRun}
      PROVE  Ordered'
  <2>1. Forwards(net["guest"], net'["guest"]) /\ compiling' \subseteq compiling \cup {r}
    BY <1>0, <1>5, ProceedOnward
  <2>2. NoRun \notin compiling'
    BY <1>0, <1>5, <2>1, RunFacts DEF TypeInv
  <2> QED
    BY <1>5, <2>1, <2>2, QuietOrder DEF Here
<1>6. CASE AcceptRun
  <2>1. /\ pendingProposal \in Runs /\ pendingProposal \in Here /\ pendingProposal' = NoRun
    BY <1>0, <1>6 DEF AcceptRun, TypeInv, MaybeRun, Here
  <2>2. CASE page["guest"].nReady < 2
    BY <1>0, <1>6, <2>1, <2>2, QuietOrder DEF AcceptRun, Here
  <2>3. CASE ~(page["guest"].nReady < 2)
    BY <1>5, <1>6, <2>1, <2>3 DEF AcceptRun
  <2> QED
    BY <2>2, <2>3
<1>7. ASSUME NEW r \in compiling, CompileOk(r) PROVE Ordered'
  <2>1. r \in Runs /\ "guest" \in Pages /\ Here' \subseteq Here
    BY <1>0, <1>7 DEF TypeInv, Pages, CompileOk, Here
  <2>2. Msg("ready", r) \in Message /\ Msg("ready", r).kind = "ready"
    BY <2>1, MsgType DEF Kinds, Msg
  <2>3. Forwards(net["guest"], net'["guest"])
    BY <1>0, <1>7, <2>1, <2>2, SendForwards DEF CompileOk, StartVerifierRun
  <2> QED
    BY <2>1, <2>3, QuietOrder
<1>8. ASSUME NEW p \in Pages, NEW role \in Roles, WorkerReady(p, role) PROVE Ordered'
  <2> DEFINE c == WorkerUp(page[p], role, IF linked[p] THEN "idle" ELSE "waiting")
  <2>1. CASE ProceedAccept(acceptedPending, c) /\ acceptedPending # NoRun /\ acceptedPending' = NoRun
    <3>1. acceptedPending \in Runs /\ acceptedPending \in Here
      BY <1>0, <2>1 DEF TypeInv, MaybeRun, Here
    <3> HIDE DEF c
    <3> QED
      BY <1>5, <1>8, <2>1, <3>1 DEF WorkerReady
  <2>2. CASE UNCHANGED <<net, acceptedPending, compiling>>
    BY <1>0, <1>8, <2>2, QuietOrder DEF WorkerReady, Here
  <2> QED
    BY <1>8, <2>1, <2>2 DEF WorkerReady
<1>9. CASE ReceivePropose \/ ReceiveAbort
  BY <1>9, DeliveredOrder DEF Ordered
<1> QED
  BY <1>0, <1>1, <1>2, <1>3, <1>4, <1>6, <1>7, <1>8, <1>9, PassingSteps
     DEF Next, Compiled, Receive, WorkerStep

\* The pane shows run r: what is left of another is gone.
About(r) ==
    /\ view.panel = "run" /\ view.title = r /\ view.params = r
    /\ view.module \in {NoRun, r}

\* What the pane says of the proposal on screen, of one that is kept or compiled, and
\* of the run; the hashes that are still to come are of what it shows.
PaneInv ==
    /\ \A r \in Here : Guest.run = NoRun /\ hashed = {} /\ About(r)
    /\ pendingProposal # NoRun =>
         /\ view.label = "incoming request" /\ view.desc = "proposed"
         /\ view.module = pendingProposal
    /\ \A r \in Here \ {pendingProposal} : view.label = "verifying"
    /\ Guest.run # NoRun =>
         About(Guest.run) /\ view.label = "verifying" /\ view.desc = "running"
    /\ hashed \subseteq {view.title}

WatchInv ==
    ~overtaken => /\ ~Untold /\ Ordered
                  /\ linked["guest"] => PaneInv

\* A run that the pane already shows begins.
LEMMA StartPane ==
    ASSUME NEW r \in Runs, NEW v \in Panes, Proceed(v, r), r \notin started,
           started' = started \cup {r}, hashed = {}, v.label = "verifying",
           v.module \in {NoRun, r}, v.params = r, v.title = r,
           Guest'.run = r, Here' = {}, pendingProposal' = NoRun
    PROVE  PaneInv'
<1>1. started' \ started = {r}
  OBVIOUS
<1>2. view' = ShowRunning(v, r) /\ hashed' \subseteq {r}
  BY <1>1 DEF Proceed
<1>3. /\ view'.panel = "run" /\ view'.title = r /\ view'.params = r /\ view'.desc = "running"
      /\ view'.label = "verifying" /\ view'.module \in {NoRun, r}
  BY <1>2 DEF ShowRunning, Panes
<1> QED
  BY <1>2, <1>3 DEF PaneInv, About

\* proceedAccept with a proposal that the guest has accepted, and nothing else.
LEMMA ProceedPane ==
    ASSUME TypeInv, PlacesInv, linked["guest"], NEW r \in Runs, NEW c \in CountingOf(Job),
           r \in OnScreen \cup Kept, Here = {r}, c.run = NoRun, hashed = {},
           ProceedAccept(r, c), pendingProposal' = NoRun, acceptedPending' = NoRun,
           NEW v \in Panes, Proceed(v, r), v.label = "verifying", v.panel = "run",
           v.module \in {NoRun, r}, v.params = r, v.title = r
    PROVE  PaneInv'
<1>1. compiling = {} /\ r \notin started /\ r # NoRun /\ NoRun \notin compiling
  BY RunFacts DEF PlacesInv, OnePlace, Here, TypeInv
<1>2. CASE r \notin Sourced
  <2>1. StartVerifierRun(r, c) /\ compiling' = {}
    BY <1>1, <1>2 DEF ProceedAccept
  <2>2. started' = started \cup {r} /\ Guest'.run = r
    BY <2>1, StartRuns DEF Guest
  <2>3. Here' = {}
    BY <2>1 DEF Here
  <2> QED
    BY <1>1, <2>2, <2>3, StartPane
<1>3. CASE r \in Sourced
  <2>1. page' = [page EXCEPT !["guest"] = c] /\ compiling' = {r} /\ started' = started
    BY <1>1, <1>3 DEF ProceedAccept
  <2>2. Guest'.run = NoRun
    BY <2>1 DEF Guest, TypeInv, Pages
  <2>3. Here' = {r}
    BY <1>1, <2>1 DEF Here
  <2>4. view' = Compiling(v) /\ hashed' = {}
    BY <1>1, <2>1 DEF Proceed
  <2>5. /\ view'.panel = "run" /\ view'.title = r /\ view'.params = r
        /\ view'.label = "verifying" /\ view'.module = NoRun
    BY <2>4 DEF Compiling, SetStatus, Panes
  <2> QED
    BY <2>2, <2>3, <2>4, <2>5 DEF PaneInv, About
<1> QED
  BY <1>2, <1>3

\* A step that leaves the pane alone and ends, at most, what the guest does.
LEMMA QuietPane ==
    ASSUME PaneInv, view' = view, hashed' = hashed, Guest'.run \in {Guest.run, NoRun},
           UNCHANGED guestVars
    PROVE  PaneInv'
BY DEF PaneInv, About, guestVars, Here

\* A guest left with nothing to do.
LEMMA RestPane ==
    ASSUME PaneInv, Here' = {}, pendingProposal' = NoRun, Guest'.run = NoRun,
           hashed' \subseteq hashed, view'.title = view.title
    PROVE  PaneInv'
BY DEF PaneInv, About

\* Each step of the guest's session, with the calls it makes on the pane, and each
\* step of the others.
LEMMA PaneNext ==
    ASSUME ~LateHashes, SafeInv, PlacesInv, AsksInv, Ordered, ~Untold', PaneInv,
           linked["guest"], linked'["guest"], [ViewNext]_<<vars, viewVars, overtaken>>
    PROVE  PaneInv'
<1> USE DEF guestVars, hostVars, history
<1>0. /\ TypeInv /\ Guest \in CountingOf(Job) /\ view \in Panes /\ view.title \in MaybeRun
      /\ pendingProposal \in MaybeRun /\ acceptedPending \in MaybeRun /\ NoRun \notin compiling
      /\ \A r \in MaybeRun : r # NoRun => r \in Runs
      /\ page["guest"] = Guest
  BY RunFacts DEF SafeInv, TypeInv, Pages, Guest, AsksInv, ViewTypeOK, Panes
<1>1. \A r \in Here : Here = {r} /\ Guest.run = NoRun /\ hashed = {} /\ About(r) /\ r \in Runs
  BY <1>0, ZenonT(30) DEF Ordered, PaneInv, Here, TypeInv
<1>2. /\ pendingProposal # NoRun => acceptedPending = NoRun /\ compiling = {}
                                   /\ Here = {pendingProposal}
      /\ acceptedPending # NoRun => pendingProposal = NoRun /\ compiling = {}
                                   /\ Here = {acceptedPending}
      /\ compiling # {} => pendingProposal = NoRun /\ acceptedPending = NoRun
  BY <1>0, <1>1 DEF Here, PlacesInv, OnePlace, OnScreen, Kept
<1>3. CASE ViewPropose
  <2>1. /\ Here = {} /\ hashed = {} /\ hashed' = {} /\ Guest' = Guest /\ ReceivePropose
        /\ UNCHANGED <<acceptedPending, compiling>>
    BY <1>3, DeliveredOrder DEF ViewPropose, ReceivePropose, Guest, Ordered
  <2>2. pendingProposal = NoRun /\ acceptedPending = NoRun /\ compiling = {}
    BY <1>0, <2>1 DEF Here
  <2>3. CASE pendingProposal' = pendingProposal
    BY <1>3, <2>1, <2>3, QuietPane DEF ViewPropose
  <2>4. CASE pendingProposal' # pendingProposal
    <3> DEFINE r == pendingProposal'
    <3>1. view' = ShowProposal(view, r) /\ Guest.run = NoRun
      BY <1>3, <2>4 DEF ViewPropose, ReceivePropose, Guest
    <3>2. Here' = {r} /\ r # NoRun
      BY <2>1, <2>2, <2>4 DEF Here
    <3>3. /\ view'.panel = "run" /\ view'.title = r /\ view'.params = r /\ view'.module = r
          /\ view'.label = "incoming request" /\ view'.desc = "proposed"
      BY <1>0, <3>1 DEF ShowProposal, Panes
    <3> QED
      BY <2>1, <3>1, <3>2, <3>3 DEF PaneInv, About
  <2> QED
    BY <2>3, <2>4
<1>4. CASE ViewAccept
  <2> DEFINE r == pendingProposal
             v == BeginAccept(view)
  <2>1. /\ AcceptRun /\ r # NoRun /\ r \in Runs /\ Guest.run = NoRun /\ pendingProposal' = NoRun
    BY <1>0, <1>4 DEF ViewAccept, AcceptRun
  <2>2. Here = {r} /\ acceptedPending = NoRun /\ compiling = {} /\ hashed = {} /\ About(r)
    BY <1>1, <1>2, <2>1
  <2>3. /\ v \in Panes /\ v.label = "verifying" /\ v.panel = "run" /\ v.title = r
        /\ v.params = r /\ v.module \in {NoRun, r}
    <3>1. v \in Panes
      BY <1>0, Calls
    <3> QED
      BY <1>0, <2>2, <3>1 DEF BeginAccept, About, Panes
  <2> HIDE DEF v
  <2>4. CASE page["guest"].nReady < 2
    <3>1. /\ acceptedPending' = r /\ compiling' = {} /\ Guest' = Guest
          /\ view' = SetStatus(v, "loading") /\ hashed' = {}
      BY <1>4, <2>1, <2>2, <2>4 DEF ViewAccept, AcceptRun, Guest, v
    <3>2. Here' = {r}
      BY <2>1, <3>1 DEF Here
    <3>3. /\ view'.label = "verifying" /\ view'.panel = "run" /\ view'.title = r
          /\ view'.params = r /\ view'.module \in {NoRun, r}
      BY <2>3, <3>1 DEF SetStatus, Panes
    <3> QED
      BY <2>1, <3>1, <3>2, <3>3 DEF PaneInv, About
  <2>5. CASE ~(page["guest"].nReady < 2)
    <3>1. /\ ProceedAccept(r, Guest) /\ acceptedPending' = NoRun /\ Proceed(v, r)
      BY <1>0, <1>4, <2>1, <2>2, <2>5 DEF ViewAccept, AcceptRun, v
    <3>2. r \in OnScreen
      BY <2>1 DEF OnScreen
    <3> QED
      BY <1>0, <2>1, <2>2, <2>3, <3>1, <3>2, ProceedPane
  <2> QED
    BY <2>4, <2>5
<1>5. CASE ViewDecline
  <2>1. /\ pendingProposal # NoRun /\ pendingProposal' = NoRun /\ Guest' = Guest
        /\ UNCHANGED <<acceptedPending, compiling>>
        /\ view' = ResetToWaiting(view) /\ hashed' = hashed
    BY <1>5 DEF ViewDecline, DeclineRun, Guest
  <2>2. Here' = {} /\ Guest.run = NoRun
    BY <1>1, <1>2, <2>1 DEF Here
  <2>3. view'.title = view.title
    BY <1>0, <2>1 DEF ResetToWaiting, Panes
  <2> QED
    BY <2>1, <2>2, <2>3, RestPane
<1>6. CASE ViewAbort
  <2>1. ReceiveAbort /\ view' = ResetToWaiting(view) /\ hashed' = hashed /\ pendingProposal' = NoRun
    BY <1>6 DEF ViewAbort, ReceiveAbort
  <2>2. Here' = {}
    BY <2>1, DeliveredOrder DEF Ordered
  <2>3. Guest'.run = NoRun
    <3>1. Guest' = Abort(Guest)
      BY <1>0, <2>1 DEF ReceiveAbort, Guest, TypeInv, Pages
    <3> QED
      BY <1>0, <3>1, AbortFields DEF Ended
  <2>4. view'.title = view.title
    BY <1>0, <2>1 DEF ResetToWaiting, Panes
  <2> QED
    BY <2>1, <2>2, <2>3, <2>4, RestPane
<1>7. CASE ViewClose
  BY <1>0, <1>7 DEF ViewClose, LinkDown, TypeInv, Pages
<1>8. ASSUME NEW r \in compiling, CompileOk(r), Proceed(view, r) PROVE PaneInv'
  <2>1. /\ Here = {r} /\ Guest.run = NoRun /\ hashed = {} /\ About(r) /\ r \in Runs /\ compiling = {r}
        /\ pendingProposal = NoRun /\ acceptedPending = NoRun /\ r \notin started
        /\ view.label = "verifying"
    BY <1>0, <1>1, <1>2 DEF Here, PlacesInv, OnePlace, PaneInv
  <2>2. /\ StartVerifierRun(r, Guest) /\ compiling' = {} /\ pendingProposal' = NoRun
        /\ acceptedPending' = NoRun
    BY <1>0, <1>8, <2>1 DEF CompileOk
  <2>3. started' = started \cup {r} /\ Guest'.run = r /\ Here' = {}
    BY <1>0, <2>1, <2>2, StartRuns DEF Guest, Here
  <2> QED
    BY <1>0, <1>8, <2>1, <2>2, <2>3, StartPane DEF About
<1>9. ASSUME NEW r \in compiling, CompileRefused(r), view' = SetStatus(view, "refused"),
             UNCHANGED hashed
      PROVE  PaneInv'
  <2>1. /\ compiling' = compiling \ {r} /\ UNCHANGED <<page, pendingProposal, acceptedPending>>
    BY <1>9 DEF CompileRefused
  <2>2. Here' = {} /\ Guest'.run = NoRun /\ pendingProposal' = NoRun
    BY <1>0, <1>1, <1>2, <2>1 DEF Here, Guest
  <2>3. view'.title = view.title
    BY <1>0, <1>9 DEF SetStatus, Panes
  <2> QED
    BY <1>9, <2>2, <2>3, RestPane
<1>10. ASSUME NEW role \in Roles, ViewWorkerReady(role) PROVE PaneInv'
  <2> DEFINE c == WorkerUp(Guest, role, IF linked["guest"] THEN "idle" ELSE "waiting")
             r == acceptedPending
  <2>1. /\ WorkerReady("guest", role) /\ Proceed(view, r) /\ UNCHANGED pendingProposal
        /\ c \in CountingOf(Job) /\ c.run = Guest.run
    <3>1. c \in CountingOf(Job)
      BY <1>0, <1>10, WorkerUpType DEF ViewWorkerReady, WorkerReady, Buttons
    <3>2. c.run = Guest.run
      BY <1>0, UpFields DEF Alike
    <3> QED
      BY <1>10, <3>1, <3>2 DEF ViewWorkerReady, WorkerReady
  <2>2. CASE r # NoRun /\ ProceedAccept(r, c) /\ acceptedPending' = NoRun
    <3>1. /\ Here = {r} /\ hashed = {} /\ About(r) /\ c.run = NoRun /\ r \in Runs
          /\ pendingProposal' = NoRun /\ view.label = "verifying" /\ r \in Kept
      BY <1>0, <1>1, <1>2, <2>1, <2>2 DEF PaneInv, Kept
    <3> HIDE DEF c
    <3> QED
      BY <1>0, <2>1, <2>2, <3>1, ProceedPane DEF About
  <2>3. CASE /\ page' = [page EXCEPT !["guest"] = c]
             /\ UNCHANGED <<acceptedPending, compiling, started>>
    <3> HIDE DEF c
    <3>1. Guest'.run = Guest.run
      BY <1>0, <2>1, <2>3, OnePage DEF Guest, Pages
    <3>2. view' = view /\ hashed' = hashed
      BY <2>1, <2>3 DEF Proceed
    <3> QED
      BY <2>1, <2>3, <3>1, <3>2, QuietPane
  <2> QED
    BY <1>0, <2>1, <2>2, <2>3 DEF WorkerReady
<1>11. ASSUME NEW r \in Runs, ModuleHashed(r) PROVE PaneInv'
  <2>1. /\ r \in hashed /\ hashed' = hashed \ {r} /\ view' = [view EXCEPT !.module = r]
        /\ UNCHANGED <<page, guestVars>>
    BY <1>11 DEF ModuleHashed, vars
  <2>2. Here = {} /\ Here' = {} /\ view.title = r /\ Guest' = Guest
        /\ pendingProposal = NoRun
    BY <1>0, <1>1, <2>1 DEF PaneInv, Here, Guest
  <2>3. /\ view'.panel = view.panel /\ view'.title = view.title /\ view'.params = view.params
        /\ view'.label = view.label /\ view'.desc = view.desc /\ view'.module = r
    BY <1>0, <2>1 DEF Panes
  <2> QED
    BY <2>1, <2>2, <2>3 DEF PaneInv, About
<1>12. CASE OtherStep /\ Keep
  <2>1. /\ UNCHANGED <<pendingProposal, acceptedPending, compiling, started>>
        /\ view' = view /\ hashed' = hashed
    BY <1>0, <1>12, OtherKeeps DEF Keep, viewVars
  <2>2. Guest'.run \in {NoRun, Guest.run}
    <3>1. VerifierStep
      BY <1>0, ViewStep, VerifierSteps
    <3>2. ASSUME NEW r \in OnScreen \cup Kept \cup compiling, started' = started \cup {r}
          PROVE  FALSE
      BY <2>1, <3>2 DEF PlacesInv, OnePlace
    <3> QED
      BY <3>1, <3>2 DEF VerifierStep, Guest
  <2> QED
    BY <2>1, <2>2, QuietPane
<1>13. CASE UNCHANGED <<vars, viewVars, overtaken>>
  BY <1>13, QuietPane DEF vars, viewVars, Guest
<1> QED
  BY <1>3, <1>4, <1>5, <1>6, <1>7, <1>8, <1>9, <1>10, <1>11, <1>12, <1>13
     DEF ViewNext, GuestStep, ViewCompiled

\* A guest that has just connected has heard nothing.
LEMMA WatchInit == Init /\ ViewInit => WatchInv
<1> SUFFICES ASSUME Init, ViewInit PROVE WatchInv
  OBVIOUS
<1>1. /\ ToGuest = <<>> /\ Here = {} /\ Guest.run = NoRun /\ Host.run = NoRun /\ hashed = {}
      /\ pendingProposal = NoRun /\ compiling = {}
  BY DEF Init, ViewInit, ToGuest, Here, Guest, Host, Fresh, Pages
<1>2. Range(net["guest"]) = {}
  BY <1>1 DEF Range, ToGuest
<1>3. ~Untold
  BY <1>1, <1>2 DEF Untold, Proposed, News, Here, Guest, Host
<1>4. Ordered
  BY <1>1 DEF Ordered, InOrder
<1> QED
  BY <1>1, <1>3, <1>4 DEF WatchInv, PaneInv

\* A closed link of the guest stays closed.
LEMMA StaysClosed ==
    ASSUME TypeInv, [ViewNext]_<<vars, viewVars, overtaken>>, linked'["guest"]
    PROVE  linked["guest"]
<1>1. ASSUME NEW r \in compiling, CompileOk(r) \/ CompileRefused(r) PROVE linked' = linked
  BY <1>1 DEF CompileOk, CompileRefused
<1>2. ASSUME NEW role \in Roles, ViewWorkerReady(role) PROVE linked' = linked
  BY <1>2 DEF ViewWorkerReady, WorkerReady
<1>3. ASSUME NEW r \in Runs, ModuleHashed(r) PROVE linked' = linked
  BY <1>3 DEF ModuleHashed, vars
<1>4. CASE ViewPropose \/ ViewAccept \/ ViewDecline \/ ViewAbort
  BY <1>4 DEF ViewPropose, ReceivePropose, ViewAccept, AcceptRun, ViewDecline, DeclineRun,
              ViewAbort, ReceiveAbort
<1>5. CASE ViewClose
  BY <1>5 DEF ViewClose, LinkDown
<1>6. CASE OtherStep
  BY <1>6, OtherKeeps
<1>7. CASE UNCHANGED <<vars, viewVars, overtaken>>
  BY <1>7 DEF vars
<1> QED
  BY <1>1, <1>2, <1>3, <1>4, <1>5, <1>6, <1>7 DEF ViewNext, GuestStep, ViewCompiled

LEMMA WatchNext ==
    ASSUME ~LateHashes
    PROVE  SafeInv /\ PlacesInv /\ AsksInv /\ WatchInv /\ [ViewNext]_<<vars, viewVars, overtaken>>
             => WatchInv'
<1> SUFFICES ASSUME SafeInv, PlacesInv, AsksInv, WatchInv,
                    [ViewNext]_<<vars, viewVars, overtaken>>
             PROVE  WatchInv'
  OBVIOUS
<1> SUFFICES ASSUME ~overtaken' PROVE ~Untold' /\ Ordered' /\ (linked'["guest"] => PaneInv')
  BY DEF WatchInv
<1>0. ASSUME ViewNext PROVE ~overtaken /\ ~Untold'
  <2>1. overtaken' = (overtaken \/ Untold')
    BY <1>0 DEF ViewNext
  <2> QED
    BY <2>1
<1>1. ~overtaken
  BY <1>0
<1>2. ~Untold /\ Ordered /\ (linked["guest"] => PaneInv)
  BY <1>1 DEF WatchInv
<1>3. ~Untold'
  <2>1. CASE UNCHANGED <<vars, viewVars, overtaken>>
    BY <1>2, <2>1 DEF vars, guestVars, history, Untold, Proposed, News
  <2> QED
    BY <1>0, <2>1
<1>4. Ordered'
  BY <1>2, <1>3, ViewStep, OrderNext
<1>5. ASSUME linked'["guest"] PROVE PaneInv'
  <2>1. linked["guest"]
    BY <1>5, StaysClosed DEF SafeInv
  <2> QED
    BY <1>2, <1>3, <1>5, <2>1, PaneNext
<1> QED
  BY <1>3, <1>4, <1>5

\* The invariant of the pane, where no hash is shown late.
LEMMA WatchAlways ==
    ASSUME ~LateHashes PROVE ViewSpec => [](SafeInv /\ AsksInv /\ WatchInv)
<1>1. SafeInv => TypeInv
  BY DEF SafeInv
<1> QED
  BY <1>1, ViewStep, SafeInit, SafeNext, PlacesInit, PlacesNext, AsksInit, AsksNext,
     WatchInit, WatchNext, PTL DEF ViewSpec, Init

\* In every environment, as long as the hash of a module is shown before the next
\* proposal comes: what the user reads when asked is about the run that an accept would
\* start, its title, its inputs and its module (showProposal, showRunning).
THEOREM InformedHolds == ASSUME ~LateHashes PROVE ViewSpec => []Informed
<1>1. SafeInv /\ AsksInv /\ WatchInv => Informed
  <2> SUFFICES ASSUME SafeInv, AsksInv, WatchInv, Asks, ~overtaken
               PROVE  /\ view.label = "incoming request" /\ view.desc = "proposed"
                      /\ {view.title, view.params, view.module} = {pendingProposal}
                      /\ page["guest"].run = NoRun
    BY DEF Informed
  <2>1. pendingProposal # NoRun /\ linked["guest"]
    BY DEF AsksInv, Asks, SafeInv, NoUnlinkedRun
  <2>2. PaneInv /\ pendingProposal \in Here
    BY <2>1 DEF WatchInv, Here
  <2> QED
    BY <2>1, <2>2 DEF PaneInv, About, Guest
<1> QED
  BY <1>1, WatchAlways, PTL

\* Under the same condition: while the guest verifies a run, the pane says so and of
\* which run, and it waits only when nothing is asked, kept for later or running
\* (beginAccept, showRunning and resetToWaiting).
THEOREM WatchingHolds == ASSUME ~LateHashes PROVE ViewSpec => []Watching
<1>1. SafeInv /\ AsksInv /\ WatchInv => Watching
  <2> SUFFICES ASSUME SafeInv, AsksInv, WatchInv PROVE Watching
    OBVIOUS
  <2>1. \/ Guest.run # NoRun \/ pendingProposal # NoRun \/ acceptedPending # NoRun
        => linked["guest"] /\ ~view.hidden
    BY DEF SafeInv, NoUnlinkedRun, AsksInv, Guest
  <2>2. \A r \in {pendingProposal, acceptedPending} : r # NoRun => r \in Here
    BY DEF Here
  <2> QED
    BY <2>1, <2>2 DEF Watching, WatchInv, PaneInv, About, Guest
<1> QED
  BY <1>1, WatchAlways, PTL
================================================================================
