------------------------------ MODULE GuestRun ------------------------------
(***************************************************************************)
(* The orchestration of one run: both workers run the same script against  *)
(* their Party (speakup-wasm's lib.rs), through the role-aware Vm of       *)
(* zkvm.ts.  A script is a sequence of statements, see AllStatements.      *)
(*                                                                         *)
(* A worker is one thread.  Its script runs until it awaits; only then do  *)
(* the futures of its calls get their first poll, in the order the calls   *)
(* were made, and only when those have been polled does anything else      *)
(* happen there: the script resumes, a timer fires, a round ends.          *)
(*                                                                         *)
(* A round of the zk-vm is external: two parties that issue the matching   *)
(* call in the same state of their engines complete it, each in its time.  *)
(***************************************************************************)
EXTENDS Integers, Sequences, FiniteSets

CONSTANTS
    Statements,     \* the statements scripts are made of
    Length,         \* bound: the statements of a script
    MayTrap         \* whether a round that matches may fail all the same

\* call: await guest.f(Private(x)), with arguments no other call has.
\* hold: guest.f(Private(x)), not awaited.   join: await all that is held.
\* probe: try { await vm.call("no such export") } catch {}.
\* misuse: try { await vm.call(f, parameters of no known kind) } catch {}.
\* pause: await a timer.   read: vm.read, or a callLocal that looks at memory.
\* secret: vm.writePrivate.   publish: vm.writePublic.
AllStatements == {"call", "hold", "join", "probe", "misuse",
                  "pause", "read", "secret", "publish"}

ASSUME GuestAssumption ==
    /\ Statements \subseteq AllStatements
    /\ Length \in Nat
    /\ MayTrap \in BOOLEAN

VARIABLES
    script,     \* the script, the same on both sides
    party,      \* per role: the worker that runs it
    wire        \* per role: the calls it has taken to its peer, in order

vars == <<script, party, wire>>

-----------------------------------------------------------------------------
(* Types.                                                                  *)

Roles == {"prover", "verifier"}
Peer(role) == IF role = "prover" THEN "verifier" ELSE "prover"

\* How a party knows a region of memory or a parameter (Write, Param).
Kinds == {"public", "private", "blind"}

\* What the cell of a Party holds: the regions written and the rounds run.
Inner == [memory : Seq(Kinds), rounds : 0..Length]

\* How a statement ended.  busy: the cell was empty.  refused: a call that
\* never got to its round.  failed: its round failed.
Outcomes == {"none", "ok", "busy", "refused", "failed"}
Rejected == {"busy", "refused", "failed"}

Call == [at : 1..Length, param : Kinds, memory : Seq(Kinds)]

\* at: the next statement.  waits: the calls awaited.  queue: the calls whose
\* future has not been polled.  inner: the cell of the Party, empty while a call
\* has the state out.  flight: the calls in their round and the state they own.
\* outcome, answer: per statement, how it ended and, if it is a call or a read,
\* how many rounds the Party had run when it answered.
Worker ==
    [at : 1..Length + 1,
     state : {"running", "awaiting", "paused", "done", "error"},
     waits : SUBSET (1..Length), queue : Seq(1..Length),
     inner : SUBSET Inner, flight : SUBSET [at : 1..Length, inner : Inner],
     outcome : [1..Length -> Outcomes], answer : [1..Length -> 0..Length]]

TypeOK ==
    /\ script \in [1..Length -> Statements]
    /\ party \in [Roles -> Worker]
    /\ wire \in [Roles -> Seq(Call)]

-----------------------------------------------------------------------------
(* The Vm: what a statement becomes in each role.                          *)

\* Mutant: the verifier is given the bytes as the prover is.
PrivateRegion_verbatim(role) == "private"

\* vm.writePrivate: the prover contributes the bytes, the verifier reserves a
\* blind region.
PrivateRegion(role) == IF role = "prover" THEN "private" ELSE "blind"

\* mapParams: the same for a private parameter.
PrivateParam(role) == IF role = "prover" THEN "private" ELSE "blind"

\* What the verifier must hold for what the prover holds.
Blinded(memory) ==
    [i \in DOMAIN memory |-> IF memory[i] = "private" THEN "blind" ELSE memory[i]]

-----------------------------------------------------------------------------
(* The script's own steps.                                                 *)

NewParty(role) ==
    [at |-> 1, state |-> "running", waits |-> {}, queue |-> <<>>,
     inner |-> {[memory |-> <<>>, rounds |-> 0]}, flight |-> {},
     outcome |-> [i \in 1..Length |-> "none"], answer |-> [i \in 1..Length |-> 0]]

Init ==
    /\ script \in [1..Length -> Statements]
    /\ party = [role \in Roles |-> NewParty(role)]
    /\ wire = [role \in Roles |-> <<>>]

\* The next statement of a running script is one of these.
Reaches(role, statements) ==
    /\ party[role].state = "running" /\ party[role].at <= Length
    /\ script[party[role].at] \in statements

\* party.call: the future is queued, nothing else happens yet.
IssueCall(role) ==
    /\ Reaches(role, {"call", "hold", "probe", "misuse"})
    /\ LET n == party[role].at
           held == script[n] = "hold"
       IN party' = [party EXCEPT ![role].at = n + 1,
                        ![role].queue = Append(@, n),
                        ![role].state = IF held THEN "running" ELSE "awaiting",
                        ![role].waits = IF held THEN {} ELSE {n}]
    /\ UNCHANGED <<script, wire>>

Join(role) ==
    /\ Reaches(role, {"join"})
    /\ LET n == party[role].at
       IN party' = [party EXCEPT ![role].at = n + 1, ![role].state = "awaiting",
                        ![role].waits = {i \in 1..n : script[i] = "hold"}]
    /\ UNCHANGED <<script, wire>>

Pause(role) ==
    /\ Reaches(role, {"pause"})
    /\ party' = [party EXCEPT ![role].at = @ + 1, ![role].state = "paused"]
    /\ UNCHANGED <<script, wire>>

\* Mutant: a read looks at the state wherever it is.
Read_borrowed(role) ==
    /\ Reaches(role, {"read"})
    /\ LET n == party[role].at
       IN \E inner \in party[role].inner \cup {call.inner : call \in party[role].flight} :
             party' = [party EXCEPT ![role].at = n + 1, ![role].outcome[n] = "ok",
                           ![role].answer[n] = inner.rounds]
    /\ UNCHANGED <<script, wire>>

\* The synchronous methods of Party borrow the cell; empty, they throw.
Read(role) ==
    /\ Reaches(role, {"read"})
    /\ LET n == party[role].at
       IN \/ /\ party[role].inner = {}
             /\ party' = [party EXCEPT ![role].state = "error", ![role].outcome[n] = "busy"]
          \/ \E inner \in party[role].inner :
                party' = [party EXCEPT ![role].at = n + 1, ![role].outcome[n] = "ok",
                              ![role].answer[n] = inner.rounds]
    /\ UNCHANGED <<script, wire>>

Write(role) ==
    /\ Reaches(role, {"secret", "publish"})
    /\ LET n == party[role].at
           kind == IF script[n] = "publish" THEN "public" ELSE PrivateRegion(role)
       IN \/ /\ party[role].inner = {}
             /\ party' = [party EXCEPT ![role].state = "error", ![role].outcome[n] = "busy"]
          \/ \E inner \in party[role].inner :
                party' = [party EXCEPT ![role].at = n + 1, ![role].outcome[n] = "ok",
                              ![role].inner = {[inner EXCEPT !.memory = Append(@, kind)]}]
    /\ UNCHANGED <<script, wire>>

\* The worker posts `done`; what the script held may still be under way.
Finish(role) ==
    /\ party[role].state = "running" /\ party[role].at = Length + 1
    /\ party' = [party EXCEPT ![role].state = "done"]
    /\ UNCHANGED <<script, wire>>

-----------------------------------------------------------------------------
(* The futures of the calls.                                               *)

\* The script is suspended and every future has had its first poll.
Idle(role) == party[role].state # "running" /\ party[role].queue = <<>>

\* What the first poll of a future looks at: it parses the parameters, takes the
\* state out of the cell and looks the export up.
Polls(role) == party[role].state # "running" /\ party[role].queue # <<>>
Polled(role) == [party[role] EXCEPT !.queue = Tail(@)]
Parses(role) == script[Head(party[role].queue)] # "misuse"
Known(role) == script[Head(party[role].queue)] # "probe"
Enters(role) == Parses(role) /\ party[role].inner # {} /\ Known(role)

\* Mutant: an unknown export does not put the state back.
RefuseCall_loses(role) ==
    /\ Polls(role) /\ ~Enters(role)
    /\ LET n == Head(party[role].queue)
       IN party' = [party EXCEPT ![role] =
                       [Polled(role) EXCEPT !.outcome[n] = "refused",
                                            !.inner = IF Known(role) THEN @ ELSE {}]]
    /\ UNCHANGED <<script, wire>>

\* Of an unknown export the state goes back into the cell.
RefuseCall(role) ==
    /\ Polls(role) /\ ~Enters(role)
    /\ LET n == Head(party[role].queue)
           busy == Parses(role) /\ party[role].inner = {}
       IN party' = [party EXCEPT ![role] =
                       [Polled(role) EXCEPT
                          !.outcome[n] = IF busy THEN "busy" ELSE "refused"]]
    /\ UNCHANGED <<script, wire>>

EnterRound(role) ==
    /\ Polls(role) /\ Enters(role)
    /\ LET n == Head(party[role].queue)
       IN \E inner \in party[role].inner :
             /\ party' = [party EXCEPT ![role] =
                    [Polled(role) EXCEPT !.inner = {},
                                         !.flight = {[at |-> n, inner |-> inner]}]]
             /\ wire' = [wire EXCEPT ![role] = Append(@,
                    [at |-> n, param |-> PrivateParam(role), memory |-> inner.memory])]
    /\ UNCHANGED script

\* The round a party is in, its last, as the two parties entered it.
Met(role) == Len(wire[Peer(role)]) >= Len(wire[role])
Matched(role) ==
    LET round == Len(wire[role])
        proves == wire["prover"][round]
        verifies == wire["verifier"][round]
    IN /\ proves.at = verifies.at
       /\ proves.param = "private" /\ verifies.param = "blind"
       /\ verifies.memory = Blinded(proves.memory)

\* The state goes back into the cell, whatever became of the round, and then
\* the promise settles.
Settle(role, outcome) ==
    /\ \E call \in party[role].flight :
          LET inner == [call.inner EXCEPT !.rounds = @ + 1]
          IN party' = [party EXCEPT ![role].inner = {inner}, ![role].flight = {},
                           ![role].outcome[call.at] = outcome,
                           ![role].answer[call.at] = inner.rounds]
    /\ UNCHANGED <<script, wire>>

RoundDone(role) ==
    /\ Idle(role) /\ party[role].flight # {} /\ Met(role)
    /\ Matched(role)
    /\ Settle(role, "ok")

RoundFailed(role) ==
    /\ Idle(role) /\ party[role].flight # {} /\ Met(role)
    /\ ~Matched(role) \/ MayTrap
    /\ Settle(role, "failed")

\* An awaited promise has settled, or the timer has fired.  The script catches
\* what it provoked itself and nothing else.
Wake(role) ==
    LET p == party[role]
        rejected == {i \in p.waits : p.outcome[i] \in Rejected}
        caught == \A i \in rejected : script[i] \in {"probe", "misuse"}
    IN /\ Idle(role) /\ p.state \in {"awaiting", "paused"}
       /\ \/ rejected # {}
          \/ \A i \in p.waits : p.outcome[i] = "ok"
       /\ party' = [party EXCEPT ![role].waits = {},
                        ![role].state = IF caught THEN "running" ELSE "error"]
       /\ UNCHANGED <<script, wire>>

-----------------------------------------------------------------------------
(* The specification.                                                      *)

Runs(role) ==
    \/ IssueCall(role) \/ Join(role) \/ Pause(role)
    \/ Read(role) \/ Write(role) \/ Finish(role)
    \/ RefuseCall(role) \/ EnterRound(role) \/ Wake(role)

Rounds(role) == RoundDone(role) \/ RoundFailed(role)

Next == \E role \in Roles : Runs(role) \/ Rounds(role)

Spec == Init /\ [][Next]_vars

\* A worker's event loop runs what is ready, and a round that both parties have
\* entered ends.
FairSpec == Spec /\ \A role \in Roles : WF_vars(Runs(role)) /\ WF_vars(Rounds(role))

-----------------------------------------------------------------------------
(* Properties.                                                             *)

\* The state of a Party is never lost and never doubled: it is in its cell or
\* with the one call that took it, whichever way that call ends.
\* (call in lib.rs: unknown exports, overlapping calls, failed rounds.)
OneOwner ==
    \A role \in Roles :
        \/ /\ party[role].flight = {}
           /\ \E inner \in party[role].inner : party[role].inner = {inner}
        \/ /\ party[role].inner = {}
           /\ \E call \in party[role].flight : party[role].flight = {call}

\* The state of a Party, wherever it is.
Engine(role) == CHOOSE inner \in party[role].inner \cup
                                 {call.inner : call \in party[role].flight} : TRUE

\* Where both scripts have come equally far, the verifier's memory is the
\* prover's with what is private blinded: one script, no branch on the role,
\* and no private byte on the verifier's side.
\* (writePrivate in zkvm.ts; the synchronous methods while a call is in flight.)
SameMemory ==
    party["prover"].at = party["verifier"].at =>
        Engine("verifier").memory = Blinded(Engine("prover").memory)

\* Both parties are in round m or past it, and entered it with different calls.
Crossed(m) ==
    /\ \A role \in Roles : m \in DOMAIN wire[role]
    /\ wire["prover"][m].at # wire["verifier"][m].at

\* What the two scripts see at a statement was seen after the same rounds, whatever
\* calls overlap and whatever rounds fail: a Party in a round refuses rather than
\* answers from before it or in the middle of it, and a failed round counts on both
\* sides.  A call has its answer from the same round on both sides, always.  A read
\* may see a round that its peer does not, but only one that the two scripts entered
\* with different calls, because one of them found the Party busy and the other did
\* not.  (call, callLocal and read of lib.rs.)
AnswersAgree ==
    \A i \in 1..Length :
        (\A role \in Roles : party[role].outcome[i] = "ok") =>
            \A role \in Roles :
                party[role].answer[i] > party[Peer(role)].answer[i] =>
                    script[i] = "read" /\ Crossed(party[role].answer[i])

\* A script that awaits each of its calls runs to its end on both sides, whatever
\* it probes on the way, unless a round fails: no statement finds the Party busy
\* and no round waits for a call the other side does not make.
ScriptsSucceed ==
    (\A i \in 1..Length : script[i] # "hold") =>
        <>(\/ \A role \in Roles : party[role].state = "done"
           \/ \E role \in Roles : \E i \in 1..Length : party[role].outcome[i] = "failed")
=============================================================================
