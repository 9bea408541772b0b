--------------------------- MODULE LocalRun_proofs ---------------------------
(***************************************************************************)
(* Proofs about LocalRun, for every number of runs and of batches and in   *)
(* every environment: the relay is a Pipe.                                 *)
(***************************************************************************)
EXTENDS LocalRun, RunController_proofs, SequenceTheorems

-----------------------------------------------------------------------------
(* One direction of a channel: a party has received the batches up to got, *)
(* down and up hold the rest of what the other party has sent, in order.   *)

InOrder(got, down, up, sent) ==
    /\ sent = got + Len(down) + Len(up)
    /\ \A i \in 1..Len(down) : down[i] = got + i
    /\ \A i \in 1..Len(up) : up[i] = got + Len(down) + i

LEMMA OrderNew == InOrder(0, << >>, << >>, 0)
BY DEF InOrder

LEMMA OrderSend ==
    ASSUME NEW got \in Nat, NEW sent \in Nat, NEW down \in Seq(Nat), NEW up \in Seq(Nat),
           InOrder(got, down, up, sent)
    PROVE  InOrder(got, down, Append(up, sent + 1), sent + 1)
<1>1. Len(Append(up, sent + 1)) = Len(up) + 1
  BY AppendProperties
<1>2. \A i \in 1..Len(up) : Append(up, sent + 1)[i] = up[i]
  BY AppendProperties
<1>3. Append(up, sent + 1)[Len(up) + 1] = sent + 1
  BY AppendProperties
<1>4. Len(up) \in Nat /\ Len(down) \in Nat
  BY LenProperties
<1> QED
  BY <1>1, <1>2, <1>3, <1>4 DEF InOrder

LEMMA OrderForward ==
    ASSUME NEW got \in Nat, NEW sent \in Nat, NEW down \in Seq(Nat), NEW up \in Seq(Nat),
           InOrder(got, down, up, sent), up # << >>
    PROVE  InOrder(got, Append(down, Head(up)), Tail(up), sent)
<1> DEFINE d == Append(down, Head(up))
           u == Tail(up)
<1>1. Len(up) \in Nat \ {0} /\ Len(down) \in Nat
  BY LenProperties, EmptySeq
<1>2. Head(up) \in Nat /\ Head(up) = up[1]
  BY HeadTailProperties
<1>3. u \in Seq(Nat) /\ Len(u) = Len(up) - 1 /\ \A i \in 1..Len(u) : u[i] = up[i + 1]
  BY HeadTailProperties
<1>4. Len(d) = Len(down) + 1 /\ d[Len(down) + 1] = Head(up)
  BY <1>2, AppendProperties
<1>5. \A i \in 1..Len(down) : d[i] = down[i]
  BY <1>2, AppendProperties
<1> HIDE DEF d, u
<1>6. up[1] = got + Len(down) + 1
  BY <1>1 DEF InOrder
<1>7. ASSUME NEW i \in 1..Len(d)
      PROVE  d[i] = got + i
  <2>1. CASE i = Len(down) + 1
    BY <2>1, <1>1, <1>2, <1>4, <1>6
  <2>2. CASE i \in 1..Len(down)
    BY <2>2, <1>5 DEF InOrder
  <2> QED
    BY <2>1, <2>2, <1>1, <1>4
<1>8. ASSUME NEW i \in 1..Len(u)
      PROVE  u[i] = got + Len(d) + i
  <2>1. i + 1 \in 1..Len(up) /\ u[i] = up[i + 1]
    BY <1>1, <1>3
  <2>2. up[i + 1] = got + Len(down) + (i + 1)
    BY <2>1 DEF InOrder
  <2> QED
    BY <2>1, <2>2, <1>1, <1>4
<1>9. sent = got + Len(d) + Len(u)
  BY <1>1, <1>3, <1>4 DEF InOrder
<1> QED
  BY <1>7, <1>8, <1>9 DEF InOrder, d, u

LEMMA OrderReceive ==
    ASSUME NEW got \in Nat, NEW sent \in Nat, NEW down \in Seq(Nat), NEW up \in Seq(Nat),
           InOrder(got, down, up, sent), down # << >>
    PROVE  /\ Head(down) = got + 1 /\ got < sent
           /\ InOrder(Head(down), Tail(down), up, sent)
<1> DEFINE d == Tail(down)
<1>1. Len(down) \in Nat \ {0} /\ Len(up) \in Nat
  BY LenProperties, EmptySeq
<1>2. Head(down) = down[1]
  BY HeadTailProperties
<1>3. Head(down) = got + 1
  BY <1>1, <1>2 DEF InOrder
<1>4. d \in Seq(Nat) /\ Len(d) = Len(down) - 1 /\ \A i \in 1..Len(d) : d[i] = down[i + 1]
  BY HeadTailProperties
<1> HIDE DEF d
<1>5. ASSUME NEW i \in 1..Len(d)
      PROVE  d[i] = got + 1 + i
  <2>1. i + 1 \in 1..Len(down) /\ d[i] = down[i + 1]
    BY <1>1, <1>4
  <2> QED
    BY <2>1 DEF InOrder
<1>6. \A i \in 1..Len(up) : up[i] = got + 1 + Len(d) + i
  BY <1>1, <1>4 DEF InOrder
<1>7. sent = got + 1 + Len(d) + Len(up) /\ got < sent
  BY <1>1, <1>4 DEF InOrder
<1>8. InOrder(got + 1, d, up, sent)
  BY <1>5, <1>6, <1>7 DEF InOrder
<1> QED
  BY <1>3, <1>7, <1>8 DEF d

-----------------------------------------------------------------------------
(* Ports.                                                                  *)

Ports == [Runs -> [Roles -> Port]]

LEMMA PortFields ==
    ASSUME NEW p \in Port
    PROVE  /\ p.sent \in Nat /\ p.got \in Nat
           /\ p.up \in Seq(Nat) /\ p.down \in Seq(Nat)
           /\ p.up \in Seq(Batch) /\ p.down \in Seq(Batch)
           /\ p.sent <= Batches /\ p.got <= Batches
<1>1. Batches \in Nat
  BY LocalAssumption
<1>2. \A b \in Batch : b \in Nat
  BY <1>1 DEF Batch
<1> QED
  BY <1>1, <1>2 DEF Port

LEMMA NewPortsType ==
    /\ NewPorts \in Ports
    /\ \A r \in Runs, role \in Roles : NewPorts[r][role] = NewPort
BY LocalAssumption DEF NewPorts, NewPort, Ports, Port

LEMMA Others ==
    ASSUME NEW role \in Roles
    PROVE  OtherRole(role) \in Roles /\ OtherRole(role) # role
           /\ OtherRole(OtherRole(role)) = role
           /\ \A x \in Roles : x = role \/ x = OtherRole(role)
BY DEF Roles, OtherRole

LEMMA PortUpdate ==
    ASSUME NEW p \in Ports, NEW r \in Runs, NEW role \in Roles, NEW q \in Port
    PROVE  LET n == [p EXCEPT ![r][role] = q]
           IN  /\ n \in Ports
               /\ n[r][role] = q
               /\ \A s \in Runs, x \in Roles : s # r \/ x # role => n[s][x] = p[s][x]
BY DEF Ports

LEMMA JobFields ==
    ASSUME NEW c \in CountingOf(Job), NEW j \in c.jobs
    PROVE  j \in Job /\ j.run \in Runs /\ j.role \in Roles
BY DEF CountingOf, ControllerOf, Job

\* What each step does to the ports.
LEMMA SendPorts ==
    ASSUME port \in Ports, NEW j \in Job, JobSend(j)
    PROVE  LET q == port[j.run][j.role]
               n == [q EXCEPT !.sent = @ + 1, !.up = Append(@, q.sent + 1)]
           IN  /\ n \in Port
               /\ port' = [port EXCEPT ![j.run][j.role] = n]
<1> DEFINE q == port[j.run][j.role]
           n == [q EXCEPT !.sent = @ + 1, !.up = Append(@, q.sent + 1)]
<1>1. j.run \in Runs /\ j.role \in Roles
  BY DEF Job
<1>2. q \in Port
  BY <1>1 DEF Ports
<1>3. q.sent + 1 \in Batch /\ q.sent + 1 \in 0..Batches
  <2>1. q.sent < Batches
    BY DEF JobSend
  <2>2. q.sent \in Nat
    BY <1>2, PortFields
  <2> HIDE DEF q
  <2> QED
    BY <2>1, <2>2, LocalAssumption DEF Batch
<1>4. Append(q.up, q.sent + 1) \in Seq(Batch)
  BY <1>2, <1>3, PortFields, AppendProperties
<1>5. n \in Port
  BY <1>2, <1>3, <1>4 DEF Port
<1>6. port' = [port EXCEPT ![j.run][j.role] = n]
  BY <1>1, <1>2 DEF JobSend, Ports, Port
<1> QED
  BY <1>5, <1>6

LEMMA ReceivePorts ==
    ASSUME port \in Ports, NEW j \in Job, JobReceive(j)
    PROVE  LET q == port[j.run][j.role]
               n == [q EXCEPT !.got = Head(q.down), !.down = Tail(@)]
           IN  /\ q.down # << >>
               /\ n \in Port
               /\ port' = [port EXCEPT ![j.run][j.role] = n]
<1> DEFINE q == port[j.run][j.role]
           n == [q EXCEPT !.got = Head(q.down), !.down = Tail(@)]
<1>1. j.run \in Runs /\ j.role \in Roles
  BY DEF Job
<1>2. q \in Port /\ q.down # << >>
  BY <1>1 DEF Ports, JobReceive
<1>3. Head(q.down) \in Batch /\ Tail(q.down) \in Seq(Batch)
  BY <1>2, PortFields, HeadTailProperties
<1>4. Head(q.down) \in 0..Batches
  BY <1>3, LocalAssumption DEF Batch
<1>5. n \in Port
  BY <1>2, <1>3, <1>4 DEF Port
<1>6. port' = [port EXCEPT ![j.run][j.role] = n]
  BY <1>1, <1>2 DEF JobReceive, Ports, Port
<1> QED
  BY <1>2, <1>5, <1>6

-----------------------------------------------------------------------------
(* The relay.                                                              *)

\* Between two handlers the queue is empty and nothing is being pumped: the
\* relay forwards a batch in the handler it arrives in, and the microtask that
\* follows finds the queue empty.
Quiet ==
    /\ relay \in [queue : {<< >>}, pumping : BOOLEAN, traffic : [Roles -> 0..Batches]]
    /\ relay.pumping <=> pending # NoRun
    /\ pending # NoRun => pending = page.run

Taken(r, role) ==
    [port EXCEPT ![r][role] = [port[r][role] EXCEPT !.up = Tail(@)]]

\* The ports when the page has forwarded the batch that role sent.
Passed(role) ==
    LET q == Taken(page.run, role)[page.run][OtherRole(role)]
    IN  [Taken(page.run, role) EXCEPT ![page.run][OtherRole(role)] =
           [q EXCEPT !.down = Append(@, Head(port[page.run][role].up))]]

LEMMA StepIsQuiet ==
    ASSUME Quiet, Step
    PROVE  /\ UNCHANGED <<page, port, asked>>
           /\ pending' = NoRun
           /\ relay' = [relay EXCEPT !.pumping = FALSE]
BY DEF Quiet, Step, Shift, Drained

LEMMA TakenPorts ==
    ASSUME port \in Ports, NEW r \in Runs, NEW role \in Roles, port[r][role].up # << >>
    PROVE  /\ Taken(r, role) \in Ports
           /\ [port EXCEPT ![r][role].up = Tail(@)] = Taken(r, role)
           /\ [port[r][role] EXCEPT !.up = Tail(@)] \in Port
           /\ Head(port[r][role].up) \in Batch
<1>1. port[r][role] \in Port
  BY DEF Ports
<1>2. Tail(port[r][role].up) \in Seq(Batch) /\ Head(port[r][role].up) \in Batch
  BY <1>1, PortFields, HeadTailProperties
<1>3. [port[r][role] EXCEPT !.up = Tail(@)] \in Port
  BY <1>1, <1>2 DEF Port
<1>4. Taken(r, role) \in Ports
  BY <1>3, PortUpdate DEF Taken
<1>5. [port EXCEPT ![r][role].up = Tail(@)] = Taken(r, role)
  BY <1>1 DEF Ports, Port, Taken
<1> QED
  BY <1>2, <1>3, <1>4, <1>5

LEMMA MessageIsQuiet ==
    ASSUME Quiet, port \in Ports, NEW r \in Runs, NEW role \in Roles, PortMessage(r, role)
    PROVE  /\ UNCHANGED <<page, asked>>
           /\ pending = NoRun /\ port[r][role].up # << >>
           /\ r # page.run => port' = Taken(r, role) /\ UNCHANGED <<relay, pending>>
           /\ r = page.run =>
                /\ pending' = page.run
                /\ relay' = [queue |-> << >>, pumping |-> TRUE,
                             traffic |-> [relay.traffic EXCEPT ![role] = @ + 1]]
                /\ port' = Passed(role)
<1> DEFINE m == [from |-> role, batch |-> Head(port[r][role].up)]
           q == Append(relay.queue, m)
           t == [port EXCEPT ![r][role].up = Tail(@)]
<1>1. /\ UNCHANGED <<page, asked>>
      /\ pending = NoRun /\ port[r][role].up # << >>
  BY DEF PortMessage, Handler
<1>2. t = Taken(r, role) /\ t \in Ports
  BY <1>1, TakenPorts
<1>3. r # page.run => port' = Taken(r, role) /\ UNCHANGED <<relay, pending>>
  BY <1>2 DEF PortMessage
<1>4. ASSUME r = page.run
      PROVE  /\ pending' = page.run
             /\ relay' = [queue |-> << >>, pumping |-> TRUE,
                          traffic |-> [relay.traffic EXCEPT ![role] = @ + 1]]
             /\ port' = Passed(role)
  <2>1. ~ relay.pumping /\ relay.queue = << >>
    BY <1>1 DEF Quiet
  <2>2. Shift(q, t)
    BY <1>4, <2>1 DEF PortMessage
  <2>3. /\ q = <<m>> /\ q # << >> /\ Head(q) = m /\ Tail(q) = << >>
        /\ m.from = role
    BY <2>1
  <2> HIDE DEF m, q, t
  <2>4. /\ pending' = page.run
        /\ port' = Forward(m, t)
        /\ relay' = [queue |-> << >>, pumping |-> TRUE,
                     traffic |-> [relay.traffic EXCEPT ![role] = @ + 1]]
    BY <2>2, <2>3 DEF Shift
  <2>5. Forward(m, t) = Passed(role)
    BY <1>2, <1>4, Others DEF Forward, Passed, Ports, Port, m
  <2> QED
    BY <2>4, <2>5
<1> QED
  BY <1>1, <1>3, <1>4

-----------------------------------------------------------------------------
(* The invariant.                                                          *)

\* A run that has not been asked for has left no trace.
Unused ==
    /\ page.run <= asked
    /\ \A j \in page.jobs : j.run <= asked
    /\ \A r \in Runs, role \in Roles : r > asked => port[r][role] = NewPort

\* One direction of run r in the ports p, with the batches the page has counted.
Ordered(p, r, role, counted) ==
    LET from == p[r][role]
        to == p[r][OtherRole(role)]
    IN  /\ InOrder(to.got, to.down, from.up, from.sent)
        /\ counted = to.got + Len(to.down)

Flow == page.run # NoRun =>
          \A role \in Roles : Ordered(port, page.run, role, relay.traffic[role])

RelayInv ==
    /\ page \in CountingOf(Job)
    /\ port \in Ports
    /\ asked \in 0..MaxRuns
    /\ Quiet
    /\ Unused
    /\ Flow
    /\ RunIsAbortable

LEMMA RelayInvOK == RelayInv => TypeOK /\ RunIsAbortable
<1> SUFFICES ASSUME RelayInv
             PROVE  TypeOK
  BY DEF RelayInv
<1>1. page \in Controller /\ page.run \in MaybeRun
  BY DEF RelayInv, CountingOf, Controller, ControllerOf
<1>2. relay.queue = << >>
  BY DEF RelayInv, Quiet
<1>3. << >> \in Seq([from : Roles, batch : Batch])
  BY EmptySeq
<1>4. relay \in [queue : Seq([from : Roles, batch : Batch]), pumping : BOOLEAN,
                 traffic : [Roles -> 0..Batches]]
  BY <1>3 DEF RelayInv, Quiet
<1>5. pending \in MaybeRun
  BY <1>1, RunIds DEF RelayInv, Quiet
<1> QED
  BY <1>1, <1>4, <1>5 DEF RelayInv, TypeOK, Ports

LEMMA RelayInit == Init => RelayInv
<1> SUFFICES ASSUME Init
             PROVE  RelayInv
  OBVIOUS
<1>1. page \in CountingOf(Job)
  BY FreshType DEF Init
<1>2. page.run = NoRun /\ page.jobs = {}
  BY DEF Init, Fresh
<1>3. port \in Ports /\ \A r \in Runs, role \in Roles : port[r][role] = NewPort
  BY NewPortsType DEF Init
<1>4. Quiet
  BY LocalAssumption DEF Init, Quiet, NewRelay
<1>5. Unused /\ asked \in 0..MaxRuns
  BY <1>2, <1>3, MaxRunsAssumption DEF Init, Unused, NoRun
<1>6. Flow /\ RunIsAbortable
  BY <1>2 DEF Init, Flow, RunIsAbortable
<1> QED
  BY <1>1, <1>3, <1>4, <1>5, <1>6 DEF RelayInv

\* A report to the page changes its controller; it never starts a run.
Weaker(c, d) ==
    /\ d.run \in {c.run, NoRun}
    /\ d.jobs \subseteq c.jobs
    /\ d.run # NoRun => d.button = c.button \/ d.button \notin Disabled

LEMMA ReportKeeps ==
    ASSUME RelayInv, page' \in CountingOf(Job), Weaker(page, page'),
           UNCHANGED <<port, relay, pending, asked>>, Handler
    PROVE  RelayInv'
<1>1. Quiet'
  BY DEF RelayInv, Quiet, Handler
<1>2. Unused'
  BY MaxRunsAssumption DEF RelayInv, Unused, Weaker, NoRun
<1>3. Flow'
  BY DEF RelayInv, Flow, Weaker, Ordered
<1>4. RunIsAbortable'
  BY DEF RelayInv, RunIsAbortable, Weaker
<1> QED
  BY <1>1, <1>2, <1>3, <1>4 DEF RelayInv

\* The reports there are.
Report ==
    \/ FetchFailed
    \/ SelectTab
    \/ \E role \in Roles : WorkerReady(role) \/ WorkerBroken(role)
    \/ \E j \in page.jobs : JobDone(j) \/ JobError(j)

LEMMA WithoutType ==
    ASSUME page \in CountingOf(Job), NEW j
    PROVE  /\ Without(j) \in CountingOf(Job)
           /\ Without(j).run = page.run /\ Without(j).button = page.button
           /\ Without(j).jobs \subseteq page.jobs
BY DEF Without, CountingOf, ControllerOf, Loaded

LEMMA RecordFrame ==
    ASSUME NEW c \in CountingOf(Job), NEW role, NEW r, NEW d \in RecordResult(c, role, r)
    PROVE  /\ d.run \in {c.run, NoRun} /\ d.jobs = c.jobs
           /\ d.run # NoRun => d.button = c.button
<1> DEFINE res == [c.results EXCEPT ![role] = r]
<1>1. /\ [c EXCEPT !.results = res].run = c.run
      /\ [c EXCEPT !.results = res].jobs = c.jobs
      /\ [c EXCEPT !.results = res].button = c.button
  BY DEF CountingOf, ControllerOf
<1>2. EndRun(c).run = NoRun /\ EndRun(c).jobs = c.jobs
  BY DEF EndRun, CountingOf, ControllerOf
<1>3. \A ok \in BOOLEAN : FinishRun(c, res, ok).run = NoRun
                          /\ FinishRun(c, res, ok).jobs = c.jobs
  BY DEF FinishRun, EndRun, CountingOf, ControllerOf
<1>4. \/ d = c
      \/ d = [c EXCEPT !.results = res]
      \/ \E ok \in BOOLEAN : d = FinishRun(c, res, ok)
  BY DEF RecordResult
<1> HIDE DEF res
<1> QED
  BY <1>1, <1>3, <1>4

LEMMA ReportIsWeaker ==
    ASSUME RelayInv, Report
    PROVE  /\ page' \in CountingOf(Job) /\ Weaker(page, page')
           /\ UNCHANGED <<port, relay, pending, asked>> /\ Handler
<1> USE DEF Disabled, Buttons
<1>1. page \in CountingOf(Job)
  BY DEF RelayInv
<1>2. "idle" \in Buttons
  OBVIOUS
<1>3. CASE FetchFailed
  BY <1>1, <1>3 DEF FetchFailed, Weaker, CountingOf, ControllerOf, Loaded
<1>4. CASE \E role \in Roles : WorkerReady(role)
  <2>1. PICK role \in Roles : WorkerReady(role)
    BY <1>4
  <2>2. page' \in CountingOf(Job)
    BY <1>1, <1>2, <2>1, WorkerUpType DEF WorkerReady
  <2>3. Weaker(page, page')
    BY <1>1, <1>2, <2>1 DEF WorkerReady, WorkerUp, Weaker, CountingOf, ControllerOf
  <2> QED
    BY <1>1, <2>1, <2>2, <2>3 DEF WorkerReady
<1>5. CASE \E role \in Roles : WorkerBroken(role)
  <2>1. PICK role \in Roles : WorkerBroken(role)
    BY <1>5
  <2> DEFINE c == [page EXCEPT !.worker[role] = "broken"]
  <2>2. c \in CountingOf(Job) /\ page' = WorkerError(c)
    BY <1>1, <2>1, WorkerBrokenType DEF WorkerBroken
  <2>3. c.run = page.run /\ c.jobs = page.jobs
    BY <1>1 DEF CountingOf, ControllerOf
  <2> HIDE DEF c
  <2>4. page' \in CountingOf(Job)
    BY <2>2, WorkerErrorType
  <2>5. Weaker(page, page')
    BY <2>2, <2>3 DEF WorkerError, FailRun, EndRun, Weaker, CountingOf, ControllerOf
  <2> QED
    BY <1>1, <2>1, <2>4, <2>5 DEF WorkerBroken
<1>6. CASE \E j \in page.jobs : JobDone(j)
  <2>1. PICK j \in page.jobs : JobDone(j)
    BY <1>6
  <2> DEFINE c == Without(j)
  <2>2. /\ c \in CountingOf(Job) /\ page' \in RecordResult(c, j.role, j.run)
        /\ c.run = page.run /\ c.jobs \subseteq page.jobs /\ c.button = page.button
    BY <1>1, <2>1, WithoutType DEF JobDone
  <2> HIDE DEF c
  <2>3. page' \in CountingOf(Job)
    BY <1>1, <2>2, JobFields, RecordResultType
  <2>4. /\ page'.run \in {c.run, NoRun} /\ page'.jobs = c.jobs
        /\ page'.run # NoRun => page'.button = c.button
    BY <2>2, RecordFrame
  <2>5. Weaker(page, page')
    BY <2>2, <2>4 DEF Weaker
  <2> QED
    BY <1>1, <2>1, <2>3, <2>5 DEF JobDone
<1>7. CASE \E j \in page.jobs : JobError(j)
  <2>1. PICK j \in page.jobs : JobError(j)
    BY <1>7
  <2> DEFINE c == Without(j)
  <2>2. /\ c \in CountingOf(Job) /\ page' = WorkerError(c)
        /\ c.run = page.run /\ c.jobs \subseteq page.jobs
    BY <1>1, <2>1, WithoutType DEF JobError
  <2> HIDE DEF c
  <2>3. page' \in CountingOf(Job)
    BY <2>2, WorkerErrorType
  <2>4. Weaker(page, page')
    BY <2>2 DEF WorkerError, FailRun, EndRun, Weaker, CountingOf, ControllerOf
  <2> QED
    BY <1>1, <2>1, <2>3, <2>4 DEF JobError
<1>9. CASE SelectTab
  <2> DEFINE look == IF page.nReady = 2 THEN "idle" ELSE "loading"
  <2>1. page' = [page EXCEPT !.button = look] /\ look \in Buttons /\ page.run = NoRun
    BY <1>9, <1>2 DEF SelectTab
  <2> HIDE DEF look
  <2>2. page' \in CountingOf(Job) /\ Weaker(page, page')
    BY <1>1, <2>1 DEF Weaker, CountingOf, ControllerOf, Loaded
  <2> QED
    BY <1>1, <1>9, <2>2 DEF SelectTab
<1> QED
  BY <1>3, <1>4, <1>5, <1>6, <1>7, <1>9 DEF Report

LEMMA ProveKeeps == RelayInv /\ ClickProve => RelayInv'
<1> SUFFICES ASSUME RelayInv, ClickProve
             PROVE  RelayInv'
  OBVIOUS
<1> DEFINE r == asked + 1
           c == NewRun(page, r)
           jobs == c.jobs \cup {[role |-> role, run |-> r] : role \in Roles}
<1>1. /\ r \in Runs /\ asked' = r /\ Handler /\ relay' = NewRelay
      /\ UNCHANGED <<port, pending>>
  BY DEF ClickProve, StartRelay
<1>2. page' = [c EXCEPT !.button = "running", !.jobs = jobs]
  BY DEF ClickProve, NewRun, RelayInv, CountingOf, ControllerOf
<1>3. c \in CountingOf(Job) /\ c.run = r /\ c.jobs = page.jobs
  BY <1>1, NewRunType DEF RelayInv, NewRun, CountingOf, ControllerOf
<1>4. jobs \subseteq Job
  BY <1>1, <1>3 DEF Job, CountingOf, ControllerOf
<1> HIDE DEF c
<1>5. page' \in CountingOf(Job) /\ page'.run = r /\ page'.jobs = jobs
      /\ page'.button = "running"
  BY <1>2, <1>3, <1>4 DEF CountingOf, ControllerOf, Loaded, Buttons
<1>6. asked' \in 0..MaxRuns
  BY <1>1, MaxRunsAssumption DEF Runs
<1>7. Quiet'
  BY <1>1, LocalAssumption DEF Quiet, Handler, NewRelay
<1>8. Unused'
  <2>1. asked \in Nat /\ \A s \in Runs : s \in Nat
    BY RunIds, MaxRunsAssumption DEF RelayInv
  <2>2. \A j \in jobs : j.run <= r
    BY <1>3, <2>1, JobFields DEF RelayInv, Unused
  <2>3. \A s \in Runs, role \in Roles : s > r => port[s][role] = NewPort
    BY <2>1 DEF RelayInv, Unused
  <2> QED
    BY <1>1, <1>5, <2>1, <2>2, <2>3 DEF Unused
<1>9. Flow'
  <2>1. \A role \in Roles : port[r][role] = NewPort
    BY <1>1, RunIds, MaxRunsAssumption DEF RelayInv, Unused
  <2>2. \A role \in Roles : port'[r][role] = NewPort /\ relay'.traffic[role] = 0
    BY <1>1, <2>1 DEF NewRelay
  <2>3. \A role \in Roles : Ordered(port', r, role, relay'.traffic[role])
    BY <2>2, Others, OrderNew DEF Ordered, NewPort
  <2> QED
    BY <1>5, <2>3 DEF Flow
<1>10. RunIsAbortable'
  BY <1>1, <1>5 DEF RelayInv, RunIsAbortable, Disabled
<1> QED
  BY <1>1, <1>5, <1>6, <1>7, <1>8, <1>9, <1>10 DEF RelayInv

LEMMA ClickAbortKeeps == RelayInv /\ ClickAbort => RelayInv'
<1> SUFFICES ASSUME RelayInv, ClickAbort
             PROVE  RelayInv'
  OBVIOUS
<1>1. page' = Abort(page) /\ page.run # NoRun /\ port' = NewPorts /\ Handler
      /\ UNCHANGED <<relay, pending, asked>>
  BY DEF ClickAbort
<1>2. page' \in CountingOf(Job)
  BY <1>1, AbortType DEF RelayInv
<1>3. page'.run = NoRun /\ page'.jobs = {}
  BY <1>1 DEF Abort, Fresh
<1>4. Quiet'
  BY <1>1 DEF RelayInv, Quiet, Handler
<1>5. Unused'
  BY <1>1, <1>3, NewPortsType DEF RelayInv, Unused, NoRun
<1>6. Flow' /\ RunIsAbortable'
  BY <1>1, <1>3 DEF RelayInv, Flow, RunIsAbortable
<1> QED
  BY <1>1, <1>2, <1>4, <1>5, <1>6, NewPortsType DEF RelayInv

LEMMA StepKeeps == RelayInv /\ Step => RelayInv'
<1> SUFFICES ASSUME RelayInv, Step
             PROVE  RelayInv'
  OBVIOUS
<1>1. /\ UNCHANGED <<page, port, asked>>
      /\ pending' = NoRun
      /\ relay' = [relay EXCEPT !.pumping = FALSE]
  BY StepIsQuiet DEF RelayInv
<1>2. Quiet' /\ relay'.traffic = relay.traffic
  BY <1>1 DEF RelayInv, Quiet
<1>3. Unused' /\ Flow' /\ RunIsAbortable'
  BY <1>1, <1>2 DEF RelayInv, Unused, Flow, Ordered, RunIsAbortable
<1> QED
  BY <1>1, <1>2, <1>3 DEF RelayInv

\* A step that changes one port, of a run that has been asked for, and leaves the
\* page alone keeps the rest of the invariant.
LEMMA PortKeeps ==
    ASSUME RelayInv, UNCHANGED <<page, asked>>, port' \in Ports, Quiet', Flow',
           NEW r \in Runs, r <= asked,
           \A s \in Runs, x \in Roles : s # r => port'[s][x] = port[s][x]
    PROVE  RelayInv'
<1>1. \A s \in Runs : s > asked => s # r
  BY RunIds, MaxRunsAssumption DEF RelayInv
<1>2. Unused'
  BY <1>1 DEF RelayInv, Unused
<1>3. RunIsAbortable'
  BY DEF RelayInv, RunIsAbortable
<1> QED
  BY <1>2, <1>3 DEF RelayInv

LEMMA SendKeeps ==
    ASSUME RelayInv, NEW j \in page.jobs, JobSend(j)
    PROVE  RelayInv'
<1> DEFINE q == port[j.run][j.role]
           n == [q EXCEPT !.sent = @ + 1, !.up = Append(@, q.sent + 1)]
<1>1. j \in Job /\ j.run \in Runs /\ j.role \in Roles /\ j.run <= asked
  BY JobFields DEF RelayInv, Unused
<1>2. n \in Port /\ port' = [port EXCEPT ![j.run][j.role] = n]
      /\ UNCHANGED <<page, relay, pending, asked>>
  BY <1>1, SendPorts DEF RelayInv, JobSend
<1>3. q \in Port /\ port \in Ports
  BY <1>1 DEF RelayInv, Ports
<1>4. /\ n.sent = q.sent + 1 /\ n.up = Append(q.up, q.sent + 1)
      /\ n.got = q.got /\ n.down = q.down
  BY <1>3 DEF Port
<1> HIDE DEF n
<1>5. /\ port' \in Ports
      /\ port'[j.run][j.role] = n
      /\ \A s \in Runs, x \in Roles :
           s # j.run \/ x # j.role => port'[s][x] = port[s][x]
  BY <1>1, <1>2, <1>3 DEF Ports
<1>6. Flow'
  <2> SUFFICES ASSUME page.run # NoRun, NEW role \in Roles
               PROVE  Ordered(port', page.run, role, relay.traffic[role])
    BY <1>2 DEF Flow
  <2>1. page.run \in Runs /\ OtherRole(role) \in Roles
    BY RunIds, Others DEF RelayInv, CountingOf, ControllerOf
  <2>2. Ordered(port, page.run, role, relay.traffic[role])
    BY DEF RelayInv, Flow
  <2>3. CASE page.run # j.run
    BY <1>5, <2>1, <2>2, <2>3 DEF Ordered
  <2>4. CASE page.run = j.run /\ role # j.role
    BY <1>1, <1>4, <1>5, <2>1, <2>2, <2>4, Others DEF Ordered
  <2>5. CASE page.run = j.run /\ role = j.role
    <3> DEFINE to == port[j.run][OtherRole(role)]
    <3>1. to \in Port
      BY <2>1, <1>1 DEF RelayInv, Ports
    <3>2. InOrder(to.got, to.down, q.up, q.sent)
      BY <2>2, <2>5 DEF Ordered
    <3> HIDE DEF to, q
    <3>3. /\ to.got \in Nat /\ to.down \in Seq(Nat)
          /\ q.sent \in Nat /\ q.up \in Seq(Nat)
      BY <1>3, <3>1, PortFields
    <3>4. InOrder(to.got, to.down, Append(q.up, q.sent + 1), q.sent + 1)
      BY <3>3, <3>2, OrderSend
    <3>5. InOrder(to.got, to.down, n.up, n.sent)
      BY <1>4, <3>4
    <3> USE DEF to, q
    <3>6. port'[j.run][OtherRole(role)] = to
      BY <1>1, <1>5, <2>1, <2>5, Others
    <3> QED
      BY <1>5, <2>2, <2>5, <3>5, <3>6 DEF Ordered
  <2> QED
    BY <2>3, <2>4, <2>5
<1>7. Quiet'
  BY <1>2 DEF RelayInv, Quiet
<1> QED
  BY <1>1, <1>2, <1>5, <1>6, <1>7, PortKeeps

LEMMA ReceiveKeeps ==
    ASSUME RelayInv, NEW j \in page.jobs, JobReceive(j)
    PROVE  RelayInv'
<1> DEFINE q == port[j.run][j.role]
           n == [q EXCEPT !.got = Head(q.down), !.down = Tail(@)]
<1>1. j \in Job /\ j.run \in Runs /\ j.role \in Roles /\ j.run <= asked
  BY JobFields DEF RelayInv, Unused
<1>2. /\ q.down # << >> /\ n \in Port
      /\ port' = [port EXCEPT ![j.run][j.role] = n]
      /\ UNCHANGED <<page, relay, pending, asked>>
  BY <1>1, ReceivePorts DEF RelayInv, JobReceive
<1>3. q \in Port /\ port \in Ports
  BY <1>1 DEF RelayInv, Ports
<1>4. /\ n.sent = q.sent /\ n.up = q.up
      /\ n.got = Head(q.down) /\ n.down = Tail(q.down)
  BY <1>3 DEF Port
<1> HIDE DEF n
<1>5. /\ port' \in Ports
      /\ port'[j.run][j.role] = n
      /\ \A s \in Runs, x \in Roles :
           s # j.run \/ x # j.role => port'[s][x] = port[s][x]
  BY <1>1, <1>2, <1>3 DEF Ports
<1>6. Flow'
  <2> SUFFICES ASSUME page.run # NoRun, NEW role \in Roles
               PROVE  Ordered(port', page.run, role, relay.traffic[role])
    BY <1>2 DEF Flow
  <2>1. page.run \in Runs /\ OtherRole(role) \in Roles
    BY RunIds, Others DEF RelayInv, CountingOf, ControllerOf
  <2>2. Ordered(port, page.run, role, relay.traffic[role])
    BY DEF RelayInv, Flow
  <2>3. CASE page.run # j.run
    BY <1>5, <2>1, <2>2, <2>3 DEF Ordered
  <2>4. CASE page.run = j.run /\ role = j.role
    BY <1>1, <1>4, <1>5, <2>1, <2>2, <2>4, Others DEF Ordered
  <2>5. CASE page.run = j.run /\ role # j.role
    <3> DEFINE from == port[j.run][role]
    <3>1. from \in Port /\ OtherRole(role) = j.role
      BY <1>1, <1>3, <2>5, Others DEF Ports
    <3>2. InOrder(q.got, q.down, from.up, from.sent)
          /\ relay.traffic[role] = q.got + Len(q.down)
      BY <2>2, <2>5, <3>1 DEF Ordered
    <3>3. port'[j.run][role] = from /\ port'[j.run][OtherRole(role)] = n
      BY <1>1, <1>5, <2>5, <3>1
    <3> HIDE DEF from, q
    <3>4. /\ from.sent \in Nat /\ from.up \in Seq(Nat)
          /\ q.got \in Nat /\ q.down \in Seq(Nat)
      BY <1>3, <3>1, PortFields
    <3>5. /\ Head(q.down) = q.got + 1
          /\ InOrder(Head(q.down), Tail(q.down), from.up, from.sent)
      BY <1>2, <3>2, <3>4, OrderReceive
    <3>6. Len(Tail(q.down)) = Len(q.down) - 1 /\ Len(q.down) \in Nat
      BY <1>2, <3>4, HeadTailProperties, LenProperties
    <3>7. relay.traffic[role] = Head(q.down) + Len(Tail(q.down))
      BY <3>2, <3>4, <3>5, <3>6
    <3> QED
      BY <1>4, <2>5, <3>3, <3>5, <3>7 DEF Ordered
  <2> QED
    BY <2>3, <2>4, <2>5
<1>7. Quiet'
  BY <1>2 DEF RelayInv, Quiet
<1> QED
  BY <1>1, <1>2, <1>5, <1>6, <1>7, PortKeeps

\* The ports of a batch that passes through the page.
LEMMA PassedPorts ==
    ASSUME port \in Ports, page.run \in Runs, NEW role \in Roles,
           port[page.run][role].up # << >>
    PROVE  LET r == page.run
               o == OtherRole(role)
               p == port[r]
               n == Passed(role)
           IN  /\ n \in Ports
               /\ n[r][role] = [p[role] EXCEPT !.up = Tail(@)]
               /\ n[r][o] = [p[o] EXCEPT !.down = Append(@, Head(p[role].up))]
               /\ \A s \in Runs, x \in Roles : s # r => n[s][x] = port[s][x]
<1> DEFINE r == page.run
           o == OtherRole(role)
           t == Taken(r, role)
           q == t[r][o]
           n == [q EXCEPT !.down = Append(@, Head(port[r][role].up))]
<1>1. o \in Roles /\ o # role
  BY Others
<1>2. /\ t \in Ports /\ Head(port[r][role].up) \in Batch
      /\ [port[r][role] EXCEPT !.up = Tail(@)] \in Port
  BY TakenPorts
<1>3. /\ t[r][role] = [port[r][role] EXCEPT !.up = Tail(@)]
      /\ q = port[r][o]
      /\ \A s \in Runs, x \in Roles : s # r => t[s][x] = port[s][x]
  BY <1>1, <1>2 DEF Taken, Ports
<1>4. q \in Port
  BY <1>1, <1>2 DEF Ports
<1> HIDE DEF t, q
<1>5. Append(q.down, Head(port[r][role].up)) \in Seq(Batch)
  BY <1>2, <1>4, PortFields, AppendProperties
<1>6. n \in Port
  BY <1>4, <1>5 DEF Port
<1>7. Passed(role) = [t EXCEPT ![r][o] = n]
  BY DEF Passed, t, q
<1>8. n = [port[r][o] EXCEPT !.down = Append(@, Head(port[r][role].up))]
  BY <1>3
<1> HIDE DEF n
<1>9. /\ Passed(role) \in Ports
      /\ Passed(role)[r][o] = n
      /\ Passed(role)[r][role] = t[r][role]
      /\ \A s \in Runs, x \in Roles : s # r => Passed(role)[s][x] = t[s][x]
  BY <1>1, <1>2, <1>6, <1>7 DEF Ports
<1> QED
  BY <1>3, <1>8, <1>9

\* A batch of an ended run only leaves its port.
LEMMA GarbageKeeps ==
    ASSUME RelayInv, NEW r \in Runs, NEW role \in Roles, PortMessage(r, role), r # page.run
    PROVE  RelayInv'
<1>1. port \in Ports /\ port[r][role].up # << >> /\ port' = Taken(r, role)
      /\ UNCHANGED <<page, relay, pending, asked>>
  BY MessageIsQuiet DEF RelayInv
<1>2. /\ port' \in Ports
      /\ \A s \in Runs, x \in Roles : s # r => port'[s][x] = port[s][x]
  BY <1>1, TakenPorts DEF Taken, Ports
<1>3. r <= asked
  <2>1. port[r][role] # NewPort
    BY <1>1 DEF NewPort
  <2> QED
    BY <2>1, RunIds, MaxRunsAssumption DEF RelayInv, Unused
<1>4. Quiet'
  BY <1>1 DEF RelayInv, Quiet
<1>5. Flow'
  <2> SUFFICES ASSUME page.run # NoRun, NEW x \in Roles
               PROVE  Ordered(port', page.run, x, relay.traffic[x])
    BY <1>1 DEF Flow
  <2>1. page.run \in Runs /\ OtherRole(x) \in Roles
    BY RunIds, Others DEF RelayInv, CountingOf, ControllerOf
  <2>2. Ordered(port, page.run, x, relay.traffic[x])
    BY DEF RelayInv, Flow
  <2> QED
    BY <1>2, <2>1, <2>2 DEF Ordered
<1> QED
  BY <1>1, <1>2, <1>3, <1>4, <1>5, PortKeeps

\* The counter of a direction stays within what is sent in a run.
LEMMA CountBound ==
    ASSUME NEW got \in Nat, NEW sent \in Nat, NEW down \in Seq(Nat), NEW up \in Seq(Nat),
           InOrder(got, down, up, sent), sent <= Batches
    PROVE  got + Len(down) \in 0..Batches
<1>1. Len(down) \in Nat /\ Len(up) \in Nat
  BY LenProperties
<1> QED
  BY <1>1, LocalAssumption DEF InOrder

LEMMA PassKeeps ==
    ASSUME RelayInv, NEW r \in Runs, NEW role \in Roles, PortMessage(r, role), r = page.run
    PROVE  RelayInv'
<1> DEFINE o == OtherRole(role)
           from == port[r][role]
           to == port[r][o]
           up == Tail(from.up)
           down == Append(to.down, Head(from.up))
<1>1. /\ port \in Ports /\ from.up # << >> /\ port' = Passed(role)
      /\ pending' = r /\ r # NoRun
      /\ relay' = [queue |-> << >>, pumping |-> TRUE,
                   traffic |-> [relay.traffic EXCEPT ![role] = @ + 1]]
      /\ UNCHANGED <<page, asked>>
  BY MessageIsQuiet, RunIds DEF RelayInv
<1>2. o \in Roles /\ o # role /\ OtherRole(o) = role
  BY Others
<1>3. from \in Port /\ to \in Port
  BY <1>1, <1>2 DEF Ports
<1>4. /\ port' \in Ports
      /\ port'[r][role] = [from EXCEPT !.up = Tail(@)]
      /\ port'[r][o] = [to EXCEPT !.down = Append(@, Head(from.up))]
      /\ \A s \in Runs, x \in Roles : s # r => port'[s][x] = port[s][x]
  BY <1>1, <1>2, PassedPorts, SMTT(30)
<1>5. Ordered(port, r, role, relay.traffic[role]) /\ Ordered(port, r, o, relay.traffic[o])
  BY <1>1, <1>2 DEF RelayInv, Flow
<1>6. /\ InOrder(to.got, to.down, from.up, from.sent)
      /\ relay.traffic[role] = to.got + Len(to.down)
  BY <1>5 DEF Ordered
<1>7. /\ port'[r][role].up = up /\ port'[r][role].sent = from.sent
      /\ port'[r][role].got = from.got /\ port'[r][role].down = from.down
      /\ port'[r][o].down = down /\ port'[r][o].got = to.got
      /\ port'[r][o].up = to.up /\ port'[r][o].sent = to.sent
  BY <1>3, <1>4 DEF Port
<1>8. Ordered(port', r, o, relay.traffic[o])
  BY <1>2, <1>5, <1>7 DEF Ordered
<1> HIDE DEF from, to
<1>9. /\ from.sent \in Nat /\ from.up \in Seq(Nat) /\ from.sent <= Batches
      /\ to.got \in Nat /\ to.down \in Seq(Nat)
  BY <1>3, PortFields
<1>10. Head(from.up) \in Nat
  BY <1>1, <1>9, HeadTailProperties
<1>11. down \in Seq(Nat) /\ Len(down) = Len(to.down) + 1 /\ Len(to.down) \in Nat
  BY <1>9, <1>10, AppendProperties, LenProperties
<1>12. up \in Seq(Nat)
  BY <1>1, <1>9, HeadTailProperties
<1>13. InOrder(to.got, down, up, from.sent)
  BY <1>1, <1>6, <1>9, OrderForward
<1>14. relay.traffic[role] + 1 = to.got + Len(down)
  <2> DEFINE count == relay.traffic[role]
             old == Len(to.down)
             new == Len(down)
             got == to.got
  <2>1. count = got + old
    BY <1>6
  <2>2. new = old + 1 /\ old \in Nat /\ got \in Nat
    BY <1>9, <1>11
  <2> HIDE DEF count, old, new, got
  <2>3. count + 1 = got + new
    BY <2>1, <2>2
  <2> QED
    BY <2>3 DEF count, got, new
<1> HIDE DEF up, down
<1>15. relay.traffic[role] + 1 \in 0..Batches
  BY <1>9, <1>11, <1>12, <1>13, <1>14, CountBound
<1>16. /\ relay'.traffic \in [Roles -> 0..Batches]
       /\ relay'.traffic[role] = relay.traffic[role] + 1
       /\ relay'.traffic[o] = relay.traffic[o]
  BY <1>1, <1>2, <1>15 DEF RelayInv, Quiet
<1>17. Ordered(port', r, role, relay'.traffic[role])
  BY <1>7, <1>13, <1>14, <1>16 DEF Ordered
<1>18. Flow'
  BY <1>1, <1>8, <1>16, <1>17, Others DEF Flow
<1>19. Quiet'
  BY <1>1, <1>16 DEF Quiet
<1>20. r <= asked
  BY DEF RelayInv, Unused
<1> QED
  BY <1>1, <1>4, <1>18, <1>19, <1>20, PortKeeps

\* The steps by what they do to the pipe.
LEMMA Steps ==
    ASSUME RelayInv, Next
    PROVE  \/ ClickProve
           \/ ClickAbort
           \/ Step
           \/ Report
           \/ \E r \in Runs, role \in Roles : PortMessage(r, role)
           \/ \E j \in page.jobs : JobSend(j) \/ JobReceive(j)
BY DEF Next, Page, Work, Fail, Report

LEMMA RelayNext == RelayInv /\ [Next]_vars => RelayInv'
<1> SUFFICES ASSUME RelayInv, [Next]_vars
             PROVE  RelayInv'
  OBVIOUS
<1>1. CASE ClickProve
  BY <1>1, ProveKeeps
<1>2. CASE ClickAbort
  BY <1>2, ClickAbortKeeps
<1>3. CASE Step
  BY <1>3, StepKeeps
<1>4. CASE Report
  BY <1>4, ReportIsWeaker, ReportKeeps
<1>5. CASE \E r \in Runs, role \in Roles : PortMessage(r, role)
  BY <1>5, GarbageKeeps, PassKeeps
<1>6. CASE \E j \in page.jobs : JobSend(j) \/ JobReceive(j)
  BY <1>6, SendKeeps, ReceiveKeeps
<1>7. CASE UNCHANGED vars
  BY <1>7 DEF vars, RelayInv, Quiet, Unused, Flow, Ordered, RunIsAbortable
<1> QED
  BY <1>1, <1>2, <1>3, <1>4, <1>5, <1>6, <1>7, Steps

\* The state of the page and of the relay keeps its type: the queue, the traffic
\* counters and the readiness counter of a local run (run-controller.ts).
THEOREM LocalTypeCorrect == Spec => []TypeOK
<1>1. Spec => []RelayInv
  BY RelayInit, RelayNext, PTL DEF Spec
<1> QED
  BY <1>1, RelayInvOK, PTL

\* While a run is on, the Prove button can abort it (spawnWorker, RunCallbacks,
\* the fetch of a built-in module): reports of workers and of fetches never disable it.
THEOREM RunIsAbortableHolds == Spec => []RunIsAbortable
<1>1. RelayInv => RunIsAbortable
  BY RelayInvOK
<1>2. Spec => []RelayInv
  BY RelayInit, RelayNext, PTL DEF Spec
<1> QED
  BY <1>1, <1>2, PTL

-----------------------------------------------------------------------------
(* The relay implements the pipe.                                          *)

\* What the page's step does to the abstract state: nothing, or the run stops.
LEMMA PipeSame ==
    ASSUME page'.run = page.run,
           page.run # NoRun =>
             \A role \in Roles : /\ port'[page.run][role].sent = port[page.run][role].sent
                                 /\ port'[page.run][role].got = port[page.run][role].got,
           page.run \in MaybeRun
    PROVE  UNCHANGED P!vars
<1>1. page.run # NoRun => page.run \in Runs
  BY RunIds
<1> QED
  BY <1>1 DEF P!vars, PipeOf, Sent, Got

LEMMA PipeStop ==
    ASSUME page.run # NoRun, page'.run = NoRun
    PROVE  P!Stop
BY DEF P!Stop, P!Nothing, P!Parties, PipeOf, Roles, NoRun

LEMMA PipeStart == RelayInv /\ ClickProve => P!Start
<1> SUFFICES ASSUME RelayInv, ClickProve
             PROVE  P!Start
  OBVIOUS
<1> DEFINE r == asked + 1
<1>1. /\ r \in Runs /\ page.run = NoRun /\ UNCHANGED port
      /\ page' = [NewRun(page, r) EXCEPT
                    !.button = "running",
                    !.jobs = @ \cup {[role |-> role, run |-> r] : role \in Roles}]
  BY DEF ClickProve
<1>2. page'.run = r
  BY <1>1 DEF RelayInv, NewRun, CountingOf, ControllerOf
<1>3. r \in Nat \ {0}
  BY <1>1, RunIds DEF NoRun
<1>4. \A role \in Roles : port'[r][role] = NewPort
  BY <1>1, RunIds, MaxRunsAssumption DEF RelayInv, Unused
<1>5. \A role \in Roles : port'[r][role].sent = 0 /\ port'[r][role].got = 0
  BY <1>4 DEF NewPort
<1> HIDE DEF r
<1>6. PipeOf(Sent)' = P!Nothing
  BY <1>1, <1>2, <1>3, <1>5 DEF PipeOf, Sent, P!Nothing, P!Parties, Roles, NoRun
<1>7. PipeOf(Got)' = P!Nothing
  BY <1>1, <1>2, <1>3, <1>5 DEF PipeOf, Got, P!Nothing, P!Parties, Roles, NoRun
<1> QED
  BY <1>1, <1>2, <1>3, <1>6, <1>7 DEF P!Start, NoRun

LEMMA PipeSend ==
    ASSUME RelayInv, NEW j \in page.jobs, JobSend(j)
    PROVE  P!SendBatch(j.role) \/ UNCHANGED P!vars
<1> DEFINE q == port[j.run][j.role]
           n == [q EXCEPT !.sent = @ + 1, !.up = Append(@, q.sent + 1)]
<1>1. j \in Job /\ j.run \in Runs /\ j.role \in Roles /\ page.run \in MaybeRun
      /\ port \in Ports
  BY JobFields DEF RelayInv, CountingOf, ControllerOf
<1>2. /\ n \in Port /\ q.sent < Batches
      /\ port' = [port EXCEPT ![j.run][j.role] = n]
      /\ UNCHANGED page
  BY <1>1, SendPorts DEF JobSend
<1>3. n.sent = q.sent + 1 /\ n.got = q.got
  BY <1>1 DEF Ports, Port
<1> HIDE DEF n
<1>4. /\ port'[j.run][j.role] = n
      /\ \A s \in Runs, x \in Roles :
           s # j.run \/ x # j.role => port'[s][x] = port[s][x]
  BY <1>1, <1>2 DEF Ports
<1>5. CASE page.run # j.run
  <2>1. page.run # NoRun => page.run \in Runs
    BY <1>1, RunIds
  <2> QED
    BY <1>1, <1>2, <1>4, <1>5, <2>1, PipeSame
<1>6. CASE page.run = j.run
  <2>1. page.run # NoRun /\ page.run # 0
    BY <1>1, <1>6, RunIds DEF NoRun
  <2>2. PipeOf(Sent)' = [PipeOf(Sent) EXCEPT ![j.role] = @ + 1]
    <3>1. PipeOf(Sent) = [x \in Roles |-> port[j.run][x].sent]
      BY <1>1, <1>6, <2>1 DEF PipeOf, Sent
    <3>2. PipeOf(Sent)' = [x \in Roles |-> port'[j.run][x].sent]
      BY <1>1, <1>2, <1>6, <2>1 DEF PipeOf, Sent
    <3>3. port'[j.run][j.role].sent = port[j.run][j.role].sent + 1
      BY <1>3, <1>4
    <3>4. \A x \in Roles : x # j.role => port'[j.run][x].sent = port[j.run][x].sent
      BY <1>1, <1>4
    <3> QED
      BY <1>1, <3>1, <3>2, <3>3, <3>4
  <2>3. PipeOf(Got)' = PipeOf(Got)
    BY <1>1, <1>2, <1>3, <1>4, <1>6, <2>1 DEF PipeOf, Got
  <2>4. PipeOf(Sent)[j.role] < Batches
    BY <1>1, <1>2, <1>6, <2>1 DEF PipeOf, Sent
  <2> QED
    BY <1>2, <2>1, <2>2, <2>3, <2>4 DEF P!SendBatch
<1> QED
  BY <1>5, <1>6

LEMMA PipeReceive ==
    ASSUME RelayInv, NEW j \in page.jobs, JobReceive(j)
    PROVE  P!GetBatch(j.role) \/ UNCHANGED P!vars
<1> DEFINE q == port[j.run][j.role]
           n == [q EXCEPT !.got = Head(q.down), !.down = Tail(@)]
           o == OtherRole(j.role)
           from == port[j.run][o]
<1>1. j \in Job /\ j.run \in Runs /\ j.role \in Roles /\ page.run \in MaybeRun
      /\ port \in Ports
  BY JobFields DEF RelayInv, CountingOf, ControllerOf
<1>2. /\ n \in Port /\ q.down # << >>
      /\ port' = [port EXCEPT ![j.run][j.role] = n]
      /\ UNCHANGED page
  BY <1>1, ReceivePorts DEF JobReceive
<1>3. n.sent = q.sent /\ n.got = Head(q.down)
  BY <1>1 DEF Ports, Port
<1> HIDE DEF n
<1>4. /\ port'[j.run][j.role] = n
      /\ \A s \in Runs, x \in Roles :
           s # j.run \/ x # j.role => port'[s][x] = port[s][x]
  BY <1>1, <1>2 DEF Ports
<1>5. CASE page.run # j.run
  <2>1. page.run # NoRun => page.run \in Runs
    BY <1>1, RunIds
  <2> QED
    BY <1>1, <1>2, <1>4, <1>5, <2>1, PipeSame
<1>6. CASE page.run = j.run
  <2>1. page.run # NoRun /\ page.run # 0
    BY <1>1, <1>6, RunIds DEF NoRun
  <2>2. o \in Roles /\ OtherRole(o) = j.role /\ P!Peer(j.role) = o
    BY <1>1, Others DEF P!Peer, OtherRole
  <2>3. InOrder(q.got, q.down, from.up, from.sent)
    BY <1>6, <2>1, <2>2 DEF RelayInv, Flow, Ordered
  <2>4. q \in Port /\ from \in Port
    BY <1>1, <2>2 DEF Ports
  <2>5. q.got \in Nat /\ q.down \in Seq(Nat) /\ from.sent \in Nat /\ from.up \in Seq(Nat)
    BY <2>4, PortFields
  <2>6. Head(q.down) = q.got + 1 /\ q.got < from.sent
    <3> HIDE DEF q, from
    <3> QED
      BY <1>2, <2>3, <2>5, OrderReceive
  <2>7. PipeOf(Got)' = [PipeOf(Got) EXCEPT ![j.role] = @ + 1]
    <3>1. PipeOf(Got) = [x \in Roles |-> port[j.run][x].got]
      BY <1>1, <1>6, <2>1 DEF PipeOf, Got
    <3>2. PipeOf(Got)' = [x \in Roles |-> port'[j.run][x].got]
      BY <1>1, <1>2, <1>6, <2>1 DEF PipeOf, Got
    <3>3. port'[j.run][j.role].got = port[j.run][j.role].got + 1
      BY <1>3, <1>4, <2>6
    <3>4. \A x \in Roles : x # j.role => port'[j.run][x].got = port[j.run][x].got
      BY <1>1, <1>4
    <3> QED
      BY <1>1, <3>1, <3>2, <3>3, <3>4
  <2>8. PipeOf(Sent)' = PipeOf(Sent)
    BY <1>1, <1>2, <1>3, <1>4, <1>6, <2>1 DEF PipeOf, Sent
  <2>9. PipeOf(Got)[j.role] = q.got /\ PipeOf(Sent)[P!Peer(j.role)] = from.sent
    BY <1>1, <1>6, <2>1, <2>2 DEF PipeOf, Sent, Got
  <2> QED
    BY <1>2, <2>1, <2>6, <2>7, <2>8, <2>9 DEF P!GetBatch
<1> QED
  BY <1>5, <1>6

LEMMA PipeInit == Init => P!Init
BY DEF Init, Fresh, P!Init, P!Nothing, P!Parties, PipeOf, Roles, NoRun

\* Forwarding a batch leaves the parties' counts.
LEMMA MessageCounts ==
    ASSUME RelayInv, NEW r \in Runs, NEW role \in Roles, PortMessage(r, role),
           page.run # NoRun, NEW x \in Roles
    PROVE  /\ port'[page.run][x].sent = port[page.run][x].sent
           /\ port'[page.run][x].got = port[page.run][x].got
<1>1. page.run \in MaybeRun
  BY DEF RelayInv, CountingOf, ControllerOf
<1>2. port \in Ports /\ port[r][role].up # << >> /\ UNCHANGED page
  BY MessageIsQuiet DEF RelayInv
<1>3. page.run \in Runs /\ port[page.run][x] \in Port
  BY <1>1, <1>2, RunIds DEF Ports
<1>4. CASE r # page.run
  <2>1. port' = Taken(r, role)
    BY <1>4, MessageIsQuiet DEF RelayInv
  <2>2. port'[page.run][x] = port[page.run][x]
    BY <1>2, <1>3, <1>4, <2>1 DEF Taken, Ports
  <2> QED
    BY <2>2
<1>5. CASE r = page.run
  <2>1. port' = Passed(role)
    BY <1>5, MessageIsQuiet DEF RelayInv
  <2>2. /\ port'[r][role] = [port[r][role] EXCEPT !.up = Tail(@)]
        /\ port'[r][OtherRole(role)] =
             [port[r][OtherRole(role)] EXCEPT
                !.down = Append(@, Head(port[r][role].up))]
    BY <1>2, <1>3, <1>5, <2>1, PassedPorts
  <2>3. x = role \/ x = OtherRole(role)
    BY Others
  <2> QED
    BY <1>3, <1>5, <2>2, <2>3, SMTT(30) DEF Port
<1> QED
  BY <1>4, <1>5

LEMMA PipeNext == RelayInv /\ [Next]_vars => [P!Next]_(P!vars)
<1> SUFFICES ASSUME RelayInv, [Next]_vars
             PROVE  P!Next \/ UNCHANGED P!vars
  OBVIOUS
<1>1. page.run \in MaybeRun
  BY DEF RelayInv, CountingOf, ControllerOf
<1>2. CASE ClickProve
  BY <1>2, PipeStart DEF P!Next
<1>3. CASE ClickAbort
  <2>1. page.run # NoRun /\ page'.run = NoRun
    BY <1>3 DEF ClickAbort, Abort, Fresh
  <2> QED
    BY <2>1, PipeStop DEF P!Next
<1>4. CASE Step
  <2>1. UNCHANGED <<page, port>>
    BY <1>4, StepIsQuiet DEF RelayInv
  <2> QED
    BY <1>1, <2>1, PipeSame
<1>5. CASE Report
  <2>1. page'.run \in {page.run, NoRun} /\ UNCHANGED port
    BY <1>5, ReportIsWeaker DEF Weaker
  <2>2. CASE page'.run = page.run
    BY <1>1, <2>1, <2>2, PipeSame
  <2>3. CASE page'.run # page.run
    BY <2>1, <2>3, PipeStop DEF P!Next
  <2> QED
    BY <2>2, <2>3
<1>6. CASE \E r \in Runs, role \in Roles : PortMessage(r, role)
  <2>1. PICK r \in Runs, role \in Roles : PortMessage(r, role)
    BY <1>6
  <2>2. UNCHANGED page
    BY <2>1, MessageIsQuiet DEF RelayInv
  <2> QED
    BY <1>1, <2>1, <2>2, MessageCounts, PipeSame
<1>7. CASE \E j \in page.jobs : JobSend(j) \/ JobReceive(j)
  <2>1. PICK j \in page.jobs : JobSend(j) \/ JobReceive(j)
    BY <1>7
  <2>2. j.role \in P!Parties
    BY JobFields DEF RelayInv, P!Parties, Roles
  <2> QED
    BY <2>1, <2>2, PipeSend, PipeReceive DEF P!Next
<1>8. CASE UNCHANGED vars
  BY <1>1, <1>8, PipeSame DEF vars
<1> QED
  BY <1>2, <1>3, <1>4, <1>5, <1>6, <1>7, <1>8, Steps

\* The relay of a local run is a Pipe (startLocalRun, pump, forward): from the
\* start of a run to its end, whatever fails and whoever aborts, each party gets
\* what the other sent, once and in order.
THEOREM RelayedHolds == Spec => Relayed
<1>1. Spec => []RelayInv
  BY RelayInit, RelayNext, PTL DEF Spec
<1>2. Spec => P!Init /\ [][P!Next]_(P!vars)
  BY <1>1, PipeInit, PipeNext, PTL DEF Spec
<1> QED
  BY <1>2 DEF Relayed, P!Spec

-----------------------------------------------------------------------------
(* The traffic shown.                                                      *)

\* A party of this run that is done has sent and received everything.
PartyDone(role) ==
    /\ port[page.run][role].sent = Batches
    /\ port[page.run][role].got = Batches
Finished ==
    page.run # NoRun =>
        \A role \in Roles : page.results[role] = page.run => PartyDone(role)

\* What a report does to the results of the run that is on: nothing, or the run ends,
\* or a party adds its own.
LEMMA ReportResults ==
    ASSUME RelayInv, Report, page.run # NoRun
    PROVE  \/ page'.run = NoRun
           \/ page'.results = page.results
           \/ \E j \in page.jobs :
                 JobDone(j) /\ page'.results = [page.results EXCEPT ![j.role] = j.run]
<1>1. page \in CountingOf(Job)
  BY DEF RelayInv
<1>2. CASE FetchFailed
  BY <1>1, <1>2 DEF FetchFailed, CountingOf, ControllerOf
<1>3. CASE SelectTab
  BY <1>3 DEF SelectTab
<1>4. ASSUME NEW role \in Roles, WorkerReady(role) PROVE page'.results = page.results
  BY <1>1, <1>4 DEF WorkerReady, WorkerUp, CountingOf, ControllerOf
<1>5. ASSUME NEW role \in Roles, WorkerBroken(role) PROVE page'.run = NoRun
  <2> DEFINE c == [page EXCEPT !.worker[role] = "broken"]
  <2>1. page' = WorkerError(c) /\ c \in CountingOf(Job) /\ c.run = page.run
    BY <1>1, <1>5, WorkerBrokenType DEF WorkerBroken, CountingOf, ControllerOf
  <2> HIDE DEF c
  <2> QED
    BY <2>1 DEF WorkerError, FailRun, EndRun, CountingOf, ControllerOf
<1>6. ASSUME NEW j \in page.jobs, JobError(j) PROVE page'.run = NoRun
  <2> DEFINE c == Without(j)
  <2>1. page' = WorkerError(c) /\ c \in CountingOf(Job) /\ c.run = page.run
    BY <1>1, <1>6, WithoutType DEF JobError
  <2> HIDE DEF c
  <2> QED
    BY <2>1 DEF WorkerError, FailRun, EndRun, CountingOf, ControllerOf
<1>7. ASSUME NEW j \in page.jobs, JobDone(j)
      PROVE  page'.run = NoRun \/ page'.results = [page.results EXCEPT ![j.role] = j.run]
  <2> DEFINE c == Without(j)
             res == [page.results EXCEPT ![j.role] = j.run]
  <2>1. /\ page' \in RecordResult(c, j.role, j.run) /\ c \in CountingOf(Job)
        /\ c.run = page.run /\ c.results = page.results
    BY <1>1, <1>7, WithoutType DEF JobDone, Without, CountingOf, ControllerOf
  <2>2. \/ page' = [c EXCEPT !.results = res]
        \/ \E ok \in BOOLEAN : page' = FinishRun(c, res, ok)
    BY <2>1 DEF RecordResult
  <2>3. \A ok \in BOOLEAN : FinishRun(c, res, ok).run = NoRun
    BY <2>1 DEF FinishRun, EndRun, CountingOf, ControllerOf
  <2>4. [c EXCEPT !.results = res].results = res
    BY <2>1 DEF CountingOf, ControllerOf
  <2> QED
    BY <2>2, <2>3, <2>4
<1> QED
  BY <1>2, <1>3, <1>4, <1>5, <1>6, <1>7 DEF Report

\* Sending and receiving are over for a party that is done.
LEMMA NothingLeft ==
    ASSUME RelayInv, page.run # NoRun, NEW role \in Roles, PartyDone(role)
    PROVE  /\ ~(port[page.run][role].sent < Batches)
           /\ port[page.run][role].down = << >>
           /\ relay.traffic[OtherRole(role)] = port[page.run][OtherRole(role)].sent
<1> DEFINE p == port[page.run][role]
           o == port[page.run][OtherRole(role)]
<1>1. page.run \in Runs /\ OtherRole(role) \in Roles /\ OtherRole(OtherRole(role)) = role
  BY RunIds, Others DEF RelayInv, CountingOf, ControllerOf
<1>2. p \in Port /\ o \in Port
  BY <1>1 DEF RelayInv, Ports
<1>3. /\ Len(p.down) \in Nat /\ Len(o.up) \in Nat /\ p.down \in Seq(Batch)
      /\ o.sent \in 0..Batches /\ Batches \in Nat
  BY <1>2, LocalAssumption, LenProperties DEF Port
<1>4. /\ o.sent = p.got + Len(p.down) + Len(o.up)
      /\ relay.traffic[OtherRole(role)] = p.got + Len(p.down)
  BY <1>1 DEF RelayInv, Flow, Ordered, InOrder
<1>5. p.got = Batches /\ p.sent = Batches
  BY DEF PartyDone
<1> HIDE DEF p, o
<1>6. Len(p.down) = 0 /\ Len(o.up) = 0
  <2> DEFINE d == Len(p.down)
             u == Len(o.up)
             n == o.sent
  <2>1. d \in Nat /\ u \in Nat /\ n \in 0..Batches /\ Batches \in Nat
    BY <1>3
  <2>2. n = Batches + d + u
    BY <1>4, <1>5
  <2> HIDE DEF d, u, n
  <2>3. d = 0 /\ u = 0
    BY <2>1, <2>2
  <2> QED
    BY <2>3 DEF d, u
<1>7. p.down = << >>
  BY <1>3, <1>6, EmptySeq
<1>8. relay.traffic[OtherRole(role)] = o.sent /\ ~(p.sent < Batches)
  BY <1>3, <1>4, <1>5, <1>6
<1> QED
  BY <1>7, <1>8 DEF p, o

LEMMA FinishedInit == Init => Finished
  BY DEF Init, Fresh, Finished

LEMMA FinishedNext == RelayInv /\ Finished /\ [Next]_vars => Finished'
<1> SUFFICES ASSUME RelayInv, Finished, [Next]_vars, page'.run # NoRun,
                    NEW role \in Roles, page'.results[role] = page'.run
             PROVE  PartyDone(role)'
  BY DEF Finished
<1>1. page \in CountingOf(Job) /\ page.run \in MaybeRun /\ page.results \in Results
  BY DEF RelayInv, CountingOf, ControllerOf
<1>2. ~ClickProve
  <2> SUFFICES ASSUME ClickProve PROVE FALSE
    OBVIOUS
  <2>1. NewRun(page, asked + 1) \in CountingOf(Job)
    BY <1>1, RunIds DEF ClickProve, NewRun, NoResults, CountingOf, ControllerOf
  <2>2. /\ page'.run = NewRun(page, asked + 1).run
        /\ page'.results = NewRun(page, asked + 1).results
    BY <2>1 DEF ClickProve, CountingOf, ControllerOf
  <2>3. page'.run = asked + 1 /\ page'.results = NoResults
    BY <1>1, <2>2 DEF NewRun, CountingOf, ControllerOf
  <2>4. page'.results[role] = NoRun
    BY <2>3 DEF NoResults
  <2> QED
    BY <2>4
<1>3. ~ClickAbort
  BY <1>1 DEF ClickAbort, Abort, Fresh
<1>4. CASE Step
  <2>1. UNCHANGED <<page, port>>
    BY <1>4, StepIsQuiet DEF RelayInv
  <2> QED
    BY <2>1 DEF Finished, PartyDone
<1>5. CASE Report
  <2>1. page'.run = page.run /\ UNCHANGED port
    BY <1>5, ReportIsWeaker DEF Weaker
  <2>2. CASE page'.results = page.results
    BY <2>1, <2>2 DEF Finished, PartyDone
  <2>3. CASE \E j \in page.jobs :
               JobDone(j) /\ page'.results = [page.results EXCEPT ![j.role] = j.run]
    <3>1. PICK j \in page.jobs :
             JobDone(j) /\ page'.results = [page.results EXCEPT ![j.role] = j.run]
      BY <2>3
    <3>2. CASE j.role = role
      <4>1. j.run = page.run
        BY <1>1, <2>1, <3>1, <3>2 DEF Results
      <4> QED
        BY <2>1, <3>1, <3>2, <4>1 DEF JobDone, PartyDone
    <3>3. CASE j.role # role
      BY <1>1, <2>1, <3>1, <3>3 DEF Results, Finished, PartyDone
    <3> QED
      BY <3>2, <3>3
  <2> QED
    BY <1>5, <2>1, <2>2, <2>3, ReportResults
<1>6. CASE \E r \in Runs, x \in Roles : PortMessage(r, x)
  <2>1. PICK r \in Runs, x \in Roles : PortMessage(r, x)
    BY <1>6
  <2>2. UNCHANGED page
    BY <2>1, MessageIsQuiet DEF RelayInv
  <2> QED
    BY <2>1, <2>2, MessageCounts DEF Finished, PartyDone
<1>7. CASE \E j \in page.jobs : JobSend(j) \/ JobReceive(j)
  <2>1. PICK j \in page.jobs : JobSend(j) \/ JobReceive(j)
    BY <1>7
  <2>2. UNCHANGED page /\ PartyDone(role)
    BY <2>1 DEF JobSend, JobReceive, Finished
  <2>3. j.run # page.run \/ j.role # role
    BY <2>1, <2>2, NothingLeft DEF JobSend, JobReceive
  <2>4. /\ j \in Job /\ j.run \in Runs /\ j.role \in Roles /\ page.run \in Runs
        /\ port \in Ports
    BY <1>1, <2>2, JobFields, RunIds DEF RelayInv
  <2>5. port'[page.run][role] = port[page.run][role]
    <3>1. \E n \in Port : port' = [port EXCEPT ![j.run][j.role] = n]
      <4> DEFINE q == port[j.run][j.role]
                 n1 == [q EXCEPT !.sent = @ + 1, !.up = Append(@, q.sent + 1)]
                 n2 == [q EXCEPT !.got = Head(q.down), !.down = Tail(@)]
      <4>1. CASE JobSend(j)
        <5>1. n1 \in Port /\ port' = [port EXCEPT ![j.run][j.role] = n1]
          BY <2>4, <4>1, SendPorts
        <5> HIDE DEF n1
        <5> QED
          BY <5>1
      <4>2. CASE JobReceive(j)
        <5>1. n2 \in Port /\ port' = [port EXCEPT ![j.run][j.role] = n2]
          BY <2>4, <4>2, ReceivePorts
        <5> HIDE DEF n2
        <5> QED
          BY <5>1
      <4> QED
        BY <2>1, <4>1, <4>2
    <3>2. PICK n \in Port : port' = [port EXCEPT ![j.run][j.role] = n]
      BY <3>1
    <3> QED
      BY <2>3, <2>4, <3>2, PortUpdate
  <2> QED
    BY <2>2, <2>5 DEF PartyDone
<1>8. CASE UNCHANGED vars
  BY <1>8 DEF vars, Finished, PartyDone
<1> QED
  BY <1>2, <1>3, <1>4, <1>5, <1>6, <1>7, <1>8, Steps

\* An error is shown.
LEMMA ErrorShown ==
    ASSUME NEW c \in CountingOf(Job)
    PROVE  WorkerError(c).button = "error"
  BY DEF WorkerError, FailRun, EndRun, CountingOf, ControllerOf

\* A run succeeds in the step in which its second party is done.
LEMMA SucceedsDone ==
    ASSUME RelayInv, Finished, [Next]_vars, Succeeds, NEW role \in Roles
    PROVE  PartyDone(role) /\ UNCHANGED <<port, relay>>
<1>1. page \in CountingOf(Job) /\ page.run # NoRun /\ page.run \in Runs
      /\ page.results \in Results
  BY RunIds DEF RelayInv, Succeeds, CountingOf, ControllerOf
<1>2. /\ page'.run = NoRun /\ page'.button = "done"
      /\ \A x \in Roles : page'.shown.results[x] = page.run
  BY DEF Succeeds
<1>3. PICK j \in page.jobs : JobDone(j)
  <2>1. ~ClickProve
    BY <1>1 DEF ClickProve
  <2>2. ~ClickAbort
    BY <1>1, <1>2 DEF ClickAbort, Abort, Fresh
  <2>3. ~Step /\ ~UNCHANGED vars
    BY <1>1, <1>2 DEF Step, vars
  <2>4. ~(\E r \in Runs, x \in Roles : PortMessage(r, x))
    BY <1>1, <1>2 DEF PortMessage
  <2>5. ~(\E j \in page.jobs : JobSend(j) \/ JobReceive(j))
    BY <1>1, <1>2 DEF JobSend, JobReceive
  <2>6. ~FetchFailed /\ ~SelectTab
    BY <1>1, <1>2 DEF FetchFailed, SelectTab, CountingOf, ControllerOf
  <2>7. ~(\E x \in Roles : WorkerReady(x))
    BY <1>1, <1>2 DEF WorkerReady, WorkerUp, CountingOf, ControllerOf
  <2>8. ~(\E x \in Roles : WorkerBroken(x))
    <3> SUFFICES ASSUME NEW x \in Roles, WorkerBroken(x) PROVE FALSE
      OBVIOUS
    <3> DEFINE c == [page EXCEPT !.worker[x] = "broken"]
    <3>1. page' = WorkerError(c) /\ c \in CountingOf(Job)
      BY <1>1, WorkerBrokenType DEF WorkerBroken
    <3> HIDE DEF c
    <3>2. page'.button = "error"
      BY <3>1, ErrorShown
    <3> QED
      BY <1>2, <3>2
  <2>9. ~(\E j \in page.jobs : JobError(j))
    <3> SUFFICES ASSUME NEW j \in page.jobs, JobError(j) PROVE FALSE
      OBVIOUS
    <3> DEFINE c == Without(j)
    <3>1. page' = WorkerError(c) /\ c \in CountingOf(Job)
      BY <1>1, WithoutType DEF JobError
    <3> HIDE DEF c
    <3>2. page'.button = "error"
      BY <3>1, ErrorShown
    <3> QED
      BY <1>2, <3>2
  <2> QED
    BY <2>1, <2>2, <2>3, <2>4, <2>5, <2>6, <2>7, <2>8, <2>9, Steps DEF Report
<1> DEFINE c == Without(j)
           res == [page.results EXCEPT ![j.role] = j.run]
<1>4. /\ page' \in RecordResult(c, j.role, j.run) /\ c \in CountingOf(Job)
      /\ c.run = page.run /\ c.results = page.results /\ UNCHANGED <<port, relay>>
      /\ j.role \in Roles
  BY <1>1, <1>3, WithoutType, JobFields DEF JobDone, Without, CountingOf, ControllerOf
<1>5. res \in [Roles -> MaybeRun \cup {j.run}]
  BY <1>1 DEF Results
<1>6. page'.shown.results = res
  <2> HIDE DEF c, res
  <2>1. [c EXCEPT !.results = res].run = c.run
    BY <1>4 DEF CountingOf, ControllerOf
  <2>2. PICK ok \in BOOLEAN : page' = FinishRun(c, res, ok)
    BY <1>1, <1>2, <1>4, <2>1 DEF RecordResult, res
  <2>3. ok
    BY <1>2, <1>4, <2>2 DEF FinishRun, EndRun, CountingOf, ControllerOf
  <2> QED
    BY <1>4, <2>2, <2>3 DEF FinishRun, EndRun, CountingOf, ControllerOf
<1>7. \A x \in Roles : res[x] = page.run
  BY <1>2, <1>6
<1>8. CASE role = j.role
  <2>1. j.run = page.run
    BY <1>1, <1>7, <1>8 DEF Results
  <2> QED
    BY <1>3, <1>4, <1>8, <2>1 DEF JobDone, PartyDone
<1>9. CASE role # j.role
  <2>1. page.results[role] = page.run
    BY <1>1, <1>7, <1>9 DEF Results
  <2> QED
    BY <1>1, <1>4, <2>1 DEF Finished
<1> QED
  BY <1>8, <1>9

\* The traffic shown for a run that succeeds is all that its parties sent (finishRun and
\* forward of run-controller.ts).
THEOREM TrafficCompleteHolds == Spec => TrafficComplete
<1> DEFINE Complete == \A role \in Roles : relay.traffic[role] = Sent[page.run][role]
<1>1. RelayInv /\ Finished /\ [Next]_vars => [Succeeds => Complete]_vars
  <2> SUFFICES ASSUME RelayInv, Finished, [Next]_vars, Succeeds, NEW role \in Roles
               PROVE  relay.traffic[role] = Sent[page.run][role]
    OBVIOUS
  <2>1. OtherRole(role) \in Roles /\ OtherRole(OtherRole(role)) = role
    BY Others
  <2>2. PartyDone(OtherRole(role)) /\ page.run # NoRun /\ page.run \in Runs
    BY <2>1, SucceedsDone, RunIds DEF Succeeds, RelayInv, CountingOf, ControllerOf
  <2>3. relay.traffic[role] = port[page.run][role].sent
    BY <2>1, <2>2, NothingLeft
  <2> QED
    BY <2>2, <2>3 DEF Sent
<1>2. Spec => [](RelayInv /\ Finished)
  BY RelayInit, RelayNext, FinishedInit, FinishedNext, PTL DEF Spec
<1> QED
  BY <1>1, <1>2, PTL DEF Spec, TrafficComplete
=============================================================================
