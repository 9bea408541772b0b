--------------------------- MODULE GuestRun_proofs ---------------------------
(***************************************************************************)
(* Proofs about GuestRun, for scripts of any length, with calls that       *)
(* overlap and rounds that fail.                                           *)
(***************************************************************************)
EXTENDS GuestRun, SequenceTheorems, FiniteSetTheorems, TLAPS

\* A worker, whose rounds are not bounded: that a script of Length statements runs no
\* more rounds takes counting, and does not matter here.
Cell == [memory : Seq(Kinds), rounds : Nat]
Flight == [at : 1..Length, inner : Cell]
AnyWorker ==
    [at : 1..Length + 1,
     state : {"running", "awaiting", "paused", "done", "error"},
     waits : SUBSET (1..Length), queue : Seq(1..Length),
     inner : SUBSET Cell, flight : SUBSET Flight,
     outcome : [1..Length -> Outcomes], answer : [1..Length -> Nat]]

\* The state of a Party, in its cell or with a call.
Cells(w) == w.inner \cup {call.inner : call \in w.flight}

Owned(w) ==
    \/ w.flight = {} /\ \E inner \in Cell : w.inner = {inner}
    \/ w.inner = {} /\ \E call \in Flight : w.flight = {call}

\* What a statement of the prover adds to memory, and what its own party holds of it.
Extended(memory, statement) ==
    CASE statement = "publish" -> Append(memory, "public")
      [] statement = "secret" -> Append(memory, "private")
      [] OTHER -> memory
Grown(role, memory, statement) ==
    CASE statement = "publish" -> Append(memory, "public")
      [] statement = "secret" -> Append(memory, PrivateRegion(role))
      [] OTHER -> memory
SeenBy(role, memory) == IF role = "prover" THEN memory ELSE Blinded(memory)

\* history[n] is the prover's memory before statement n, as far as either party has
\* come; each party's memory is what it sees of it.  It is one history for both, which
\* is why parties that have come equally far agree.
Remembers(history) ==
    /\ \A role \in Roles :
          /\ \A inner \in Cells(party[role]) :
                inner.memory = SeenBy(role, history[party[role].at])
          /\ \A n \in 1..Length :
                n < party[role].at => history[n + 1] = Extended(history[n], script[n])

ScriptInv ==
    /\ script \in [1..Length -> AllStatements]
    /\ party \in [Roles -> AnyWorker]
    /\ \A role \in Roles : Owned(party[role])
    /\ \E history \in [1..Length + 1 -> Seq(Kinds)] : Remembers(history)

-----------------------------------------------------------------------------

\* A party in one place has one state.
LEMMA OneCell ==
    ASSUME NEW w \in AnyWorker, Owned(w)
    PROVE  \E inner \in Cell : Cells(w) = {inner}
<1>1. CASE w.flight = {} /\ \E inner \in Cell : w.inner = {inner} BY <1>1 DEF Cells
<1>2. CASE w.inner = {} /\ \E call \in Flight : w.flight = {call}
  <2>1. PICK call \in Flight : w.flight = {call} BY <1>2
  <2>2. Cells(w) = {call.inner} /\ call.inner \in Cell BY <1>2, <2>1 DEF Cells, Flight
  <2>. QED BY <2>2
<1>. QED BY <1>1, <1>2 DEF Owned

\* Blinding what is appended.
LEMMA BlindedAppend ==
    ASSUME NEW memory \in Seq(Kinds), NEW kind \in Kinds
    PROVE  /\ Blinded(memory) \in Seq(Kinds)
           /\ Blinded(Append(memory, kind)) =
                 Append(Blinded(memory), IF kind = "private" THEN "blind" ELSE kind)
<1>. DEFINE b == IF kind = "private" THEN "blind" ELSE kind
<1>1. Blinded(memory) \in Seq(Kinds) /\ Len(Blinded(memory)) = Len(memory)
  BY DEF Blinded, Kinds
<1>2. Append(memory, kind) \in Seq(Kinds) /\ Len(Append(memory, kind)) = Len(memory) + 1
  OBVIOUS
<1>3. /\ Blinded(Append(memory, kind)) \in Seq(Kinds)
      /\ Len(Blinded(Append(memory, kind))) = Len(memory) + 1
  BY <1>2 DEF Blinded, Kinds
<1>4. b \in Kinds BY DEF Kinds
<1>5. /\ Append(Blinded(memory), b) \in Seq(Kinds)
      /\ Len(Append(Blinded(memory), b)) = Len(memory) + 1
  BY <1>1, <1>4
<1>6. ASSUME NEW i \in 1..(Len(memory) + 1)
      PROVE  Blinded(Append(memory, kind))[i] = Append(Blinded(memory), b)[i]
  <2>1. CASE i \in 1..Len(memory)
    <3>1. Append(memory, kind)[i] = memory[i] BY <2>1
    <3>2. Append(Blinded(memory), b)[i] = Blinded(memory)[i] BY <1>1, <1>4, <2>1
    <3>. QED BY <1>2, <2>1, <3>1, <3>2 DEF Blinded
  <2>2. CASE i = Len(memory) + 1
    <3>1. Append(memory, kind)[i] = kind BY <2>2
    <3>2. Append(Blinded(memory), b)[i] = b BY <1>1, <1>4, <2>2
    <3>. QED BY <1>2, <2>2, <3>1, <3>2 DEF Blinded
  <2>3. ASSUME NEW n \in Nat, NEW k \in 1..(n + 1) PROVE k \in 1..n \/ k = n + 1
    OBVIOUS
  <2>4. Len(memory) \in Nat OBVIOUS
  <2>5. i \in 1..Len(memory) \/ i = Len(memory) + 1 BY <2>3, <2>4
  <2>. QED BY <2>1, <2>2, <2>5
<1>7. Blinded(Append(memory, kind)) = Append(Blinded(memory), b)
  BY <1>3, <1>5, <1>6, SeqEqual
<1>. QED BY <1>1, <1>7

\* Either party's memory stays what it sees of the prover's.
LEMMA GrownSees ==
    ASSUME NEW role \in Roles, NEW memory \in Seq(Kinds), NEW statement \in AllStatements
    PROVE  /\ Extended(memory, statement) \in Seq(Kinds)
           /\ Grown(role, SeenBy(role, memory), statement) =
                 SeenBy(role, Extended(memory, statement))
<1>0. "public" \in Kinds /\ "private" \in Kinds BY DEF Kinds
<1>1. CASE role = "prover"
  BY <1>0, <1>1 DEF Extended, Grown, SeenBy, PrivateRegion
<1>2. CASE role # "prover"
  <2>1. Blinded(Append(memory, "public")) = Append(Blinded(memory), "public")
    BY <1>0, BlindedAppend
  <2>2. Blinded(Append(memory, "private")) = Append(Blinded(memory), "blind")
    BY <1>0, BlindedAppend
  <2>3. CASE statement = "publish"
    BY <1>0, <1>2, <2>1, <2>3 DEF Extended, Grown, SeenBy
  <2>4. CASE statement = "secret"
    BY <1>0, <1>2, <2>2, <2>4 DEF Extended, Grown, SeenBy, PrivateRegion
  <2>5. CASE statement \notin {"publish", "secret"}
    BY <2>5 DEF Extended, Grown
  <2>. QED BY <2>3, <2>4, <2>5
<1>. QED BY <1>1, <1>2

\* A step that leaves a party where it is, with the memory it has, or takes it past a
\* statement, with the memory that adds.
Goes(role, w) ==
    \/ /\ w.at = party[role].at
       /\ \A c \in Cells(w) : \E d \in Cells(party[role]) : c.memory = d.memory
    \/ /\ party[role].at \in 1..Length /\ w.at = party[role].at + 1
       /\ \A c \in Cells(w) : \E d \in Cells(party[role]) :
             c.memory = Grown(role, d.memory, script[party[role].at])

\* A worker that goes on as the history says keeps the invariant.
LEMMA GoesKeeps ==
    ASSUME ScriptInv, script' = script, NEW role \in Roles, NEW w \in AnyWorker,
           party' = [party EXCEPT ![role] = w], Owned(w), Goes(role, w)
    PROVE  ScriptInv'
<1>1. PICK history \in [1..Length + 1 -> Seq(Kinds)] : Remembers(history)
  BY DEF ScriptInv
<1>2. /\ party \in [Roles -> AnyWorker] /\ party' \in [Roles -> AnyWorker]
      /\ party'[role] = w /\ \A other \in Roles \ {role} : party'[other] = party[other]
  BY DEF ScriptInv
<1>3. \A other \in Roles : Owned(party'[other])
  BY <1>2 DEF ScriptInv
<1>4. \A other \in Roles :
        party[other].at \in 1..Length + 1 /\ party'[other].at \in 1..Length + 1
  BY <1>2 DEF AnyWorker
<1>5. ASSUME w.at = party[role].at,
             \A c \in Cells(w) : \E d \in Cells(party[role]) : c.memory = d.memory
      PROVE  Remembers(history)'
  BY <1>1, <1>2, <1>5 DEF Remembers
<1>6. ASSUME NEW n \in 1..Length, n = party[role].at, w.at = n + 1,
             \A c \in Cells(w) : \E d \in Cells(party[role]) :
                 c.memory = Grown(role, d.memory, script[n])
      PROVE  \E h \in [1..Length + 1 -> Seq(Kinds)] : Remembers(h)'
  <2>. DEFINE ext == Extended(history[n], script[n])
  <2>1. /\ Length \in Nat /\ n \in 1..Length + 1 /\ n + 1 \in 1..Length + 1
        /\ history[n] \in Seq(Kinds) /\ script[n] \in AllStatements
    BY GuestAssumption DEF ScriptInv
  <2>2. ext \in Seq(Kinds) BY <2>1, GrownSees
  <2>3. PICK h \in [1..Length + 1 -> Seq(Kinds)] :
            /\ h[n + 1] = ext
            /\ \A k \in 1..Length + 1 : k # n + 1 => h[k] = history[k]
    <3>1. [history EXCEPT ![n + 1] = ext] \in [1..Length + 1 -> Seq(Kinds)] BY <2>1, <2>2
    <3>. QED BY <2>1, <3>1
  <2>4. ASSUME NEW other \in Roles, party[other].at > n PROVE h = history
    <3>1. history[n + 1] = ext BY <1>1, <2>4 DEF Remembers
    <3>2. \A k \in 1..Length + 1 : h[k] = history[k] BY <2>3, <3>1
    <3>3. h = [k \in 1..Length + 1 |-> h[k]] OBVIOUS
    <3>4. history = [k \in 1..Length + 1 |-> history[k]] OBVIOUS
    <3>. QED BY <3>2, <3>3, <3>4, Zenon
  <2>5. ASSUME NEW inner \in Cells(w) PROVE inner.memory = SeenBy(role, h[w.at])
    <3>1. PICK d \in Cells(party[role]) : inner.memory = Grown(role, d.memory, script[n])
      BY <1>6
    <3>2. d.memory = SeenBy(role, history[n]) BY <1>1, <1>6 DEF Remembers
    <3>. QED BY <1>6, <2>1, <2>3, <3>1, <3>2, GrownSees, SMTT(30)
  <2>6. ASSUME NEW k \in 1..Length, k < w.at PROVE h[k + 1] = Extended(h[k], script[k])
    <3>1. CASE k = n BY <2>1, <2>3, <3>1
    <3>2. CASE k # n
      <4>1. k < n /\ k \in 1..Length + 1 /\ k + 1 \in 1..Length + 1
        BY <1>6, <2>1, <2>6, <3>2
      <4>2. h[k] = history[k] /\ h[k + 1] = history[k + 1] BY <2>1, <2>3, <4>1, <3>2
      <4>3. history[k + 1] = Extended(history[k], script[k])
        BY <1>1, <1>6, <4>1 DEF Remembers
      <4>. QED BY <4>2, <4>3
    <3>. QED BY <3>1, <3>2
  <2>7. ASSUME NEW other \in Roles \ {role}
        PROVE  /\ \A inner \in Cells(party[other]) :
                     inner.memory = SeenBy(other, h[party[other].at])
               /\ \A k \in 1..Length :
                     k < party[other].at => h[k + 1] = Extended(h[k], script[k])
    <3>1. CASE party[other].at > n
      <4>1. h = history BY <2>4, <3>1
      <4>. QED BY <1>1, <4>1 DEF Remembers
    <3>2. CASE ~(party[other].at > n)
      <4>1. party[other].at <= n BY <1>4, <2>1, <3>2
      <4>2. h[party[other].at] = history[party[other].at]
        BY <1>4, <2>1, <2>3, <4>1
      <4>3. ASSUME NEW k \in 1..Length, k < party[other].at
            PROVE  h[k + 1] = history[k + 1] /\ h[k] = history[k]
        <5>1. k < n /\ k \in 1..Length + 1 /\ k + 1 \in 1..Length + 1
          BY <1>4, <2>1, <4>1, <4>3
        <5>. QED BY <2>1, <2>3, <5>1
      <4>. QED BY <1>1, <4>2, <4>3 DEF Remembers
    <3>. QED BY <3>1, <3>2
  <2>8. Remembers(h)'
    <3>1. ASSUME NEW other \in Roles
          PROVE  /\ \A inner \in Cells(party'[other]) :
                       inner.memory = SeenBy(other, h[party'[other].at])
                 /\ \A k \in 1..Length :
                       k < party'[other].at => h[k + 1] = Extended(h[k], script'[k])
      <4>1. CASE other = role BY <1>2, <2>5, <2>6, <4>1
      <4>2. CASE other # role BY <1>2, <2>7, <4>2
      <4>. QED BY <4>1, <4>2
    <3>. QED BY <3>1 DEF Remembers, Cells, SeenBy
  <2>. QED BY <2>8
<1>7. \E h \in [1..Length + 1 -> Seq(Kinds)] : Remembers(h)'
  BY <1>1, <1>5, <1>6 DEF Goes
<1>8. script' \in [1..Length -> AllStatements] BY DEF ScriptInv
<1>. QED BY <1>2, <1>3, <1>7, <1>8 DEF ScriptInv

-----------------------------------------------------------------------------
(* The steps.                                                              *)

\* A worker with a next statement.
LEMMA Next1 ==
    ASSUME ScriptInv, NEW role \in Roles,
           party[role].state = "running", party[role].at <= Length
    PROVE  party[role].at \in 1..Length /\ party[role].at + 1 \in 1..Length + 1
BY GuestAssumption DEF ScriptInv, AnyWorker

\* A statement that is neither a write nor a read changes nothing but the script's
\* own progress.
LEMMA ScriptSteps ==
    ASSUME ScriptInv, NEW role \in Roles,
           IssueCall(role) \/ Join(role) \/ Pause(role) \/ Finish(role)
    PROVE  ScriptInv'
<1>. DEFINE p == party[role]  n == p.at
<1>1. /\ party \in [Roles -> AnyWorker] /\ p \in AnyWorker /\ Owned(p)
      /\ script \in [1..Length -> AllStatements]
  BY DEF ScriptInv
<1>2. ASSUME Reaches(role, AllStatements \ {"secret", "publish"}),
             NEW w \in AnyWorker, w.at = n + 1, w.inner = p.inner, w.flight = p.flight
      PROVE  Owned(w) /\ Goes(role, w)
  <2>1. n \in 1..Length BY <1>2, Next1 DEF Reaches
  <2>2. Owned(w) BY <1>1, <1>2 DEF Owned
  <2>3. Cells(w) = Cells(p) BY <1>2 DEF Cells
  <2>4. script[n] \in AllStatements \ {"secret", "publish"} BY <1>2 DEF Reaches
  <2>5. \A m : Grown(role, m, script[n]) = m BY <2>4 DEF Grown
  <2>. QED BY <1>2, <2>1, <2>2, <2>3, <2>5 DEF Goes
<1>3. CASE IssueCall(role)
  <2>1. Reaches(role, AllStatements \ {"secret", "publish"}) /\ n \in 1..Length
    BY <1>3, Next1 DEF IssueCall, Reaches, AllStatements
  <2>2. n + 1 \in 1..Length + 1 BY <2>1, Next1 DEF Reaches
  <2>. DEFINE held == script[n] = "hold"
              q == Append(p.queue, n)
              s == IF held THEN "running" ELSE "awaiting"
              a == IF held THEN {} ELSE {n}
              w == [p EXCEPT !.at = n + 1, !.queue = q, !.state = s, !.waits = a]
  <2>2a. /\ p.queue \in Seq(1..Length) /\ q \in Seq(1..Length)
         /\ s \in {"running", "awaiting"} /\ a \in SUBSET (1..Length)
    BY <1>1, <2>1 DEF AnyWorker
  <2>. HIDE DEF q, s, a
  <2>3. w \in AnyWorker /\ w.at = n + 1 /\ w.inner = p.inner /\ w.flight = p.flight
    BY <1>1, <2>2, <2>2a DEF AnyWorker
  <2>4. party' = [party EXCEPT ![role] = w] /\ script' = script
    BY <1>3 DEF IssueCall, q, s, a
  <2>. QED BY <1>2, <2>1, <2>3, <2>4, GoesKeeps
<1>4. CASE Join(role)
  <2>1. Reaches(role, AllStatements \ {"secret", "publish"}) /\ n \in 1..Length
    BY <1>4, Next1 DEF Join, Reaches, AllStatements
  <2>2. n + 1 \in 1..Length + 1 BY <2>1, Next1 DEF Reaches
  <2>. DEFINE w == [p EXCEPT !.at = n + 1, !.state = "awaiting",
                             !.waits = {i \in 1..n : script[i] = "hold"}]
  <2>3. {i \in 1..n : script[i] = "hold"} \subseteq 1..Length BY <2>1, GuestAssumption
  <2>4. w \in AnyWorker /\ w.at = n + 1 /\ w.inner = p.inner /\ w.flight = p.flight
    BY <1>1, <2>1, <2>2, <2>3 DEF AnyWorker
  <2>5. party' = [party EXCEPT ![role] = w] /\ script' = script BY <1>4 DEF Join
  <2>. QED BY <1>2, <2>1, <2>4, <2>5, GoesKeeps
<1>5. CASE Pause(role)
  <2>1. Reaches(role, AllStatements \ {"secret", "publish"})
    BY <1>5 DEF Pause, Reaches, AllStatements
  <2>2. n + 1 \in 1..Length + 1 BY <2>1, Next1 DEF Reaches
  <2>. DEFINE w == [p EXCEPT !.at = n + 1, !.state = "paused"]
  <2>3. w \in AnyWorker /\ w.at = n + 1 /\ w.inner = p.inner /\ w.flight = p.flight
    BY <1>1, <2>2 DEF AnyWorker
  <2>4. party' = [party EXCEPT ![role] = w] /\ script' = script BY <1>5 DEF Pause
  <2>. QED BY <1>2, <2>1, <2>3, <2>4, GoesKeeps
<1>6. CASE Finish(role)
  <2>. DEFINE w == [p EXCEPT !.state = "done"]
  <2>1. w \in AnyWorker /\ w.at = n /\ w.inner = p.inner /\ w.flight = p.flight
    BY <1>1 DEF AnyWorker
  <2>2. party' = [party EXCEPT ![role] = w] /\ script' = script BY <1>6 DEF Finish
  <2>3. Owned(w) BY <1>1, <2>1 DEF Owned
  <2>4. Goes(role, w) BY <2>1 DEF Goes, Cells
  <2>. QED BY <2>1, <2>2, <2>3, <2>4, GoesKeeps
<1>. QED BY <1>3, <1>4, <1>5, <1>6

\* A step that changes neither place nor state of the Party.
LEMMA StaysKeeps ==
    ASSUME ScriptInv, script' = script, NEW role \in Roles, NEW w \in AnyWorker,
           party' = [party EXCEPT ![role] = w],
           w.at = party[role].at, w.inner = party[role].inner, w.flight = party[role].flight
    PROVE  ScriptInv'
<1>1. Owned(party[role]) BY DEF ScriptInv
<1>2. Owned(w) BY <1>1 DEF Owned
<1>3. Goes(role, w) BY DEF Goes, Cells
<1>. QED BY <1>2, <1>3, GoesKeeps

\* A read looks at the cell, and a write appends to what is in it, or finds it empty.
LEMMA MemorySteps ==
    ASSUME ScriptInv, NEW role \in Roles, Read(role) \/ Write(role)
    PROVE  ScriptInv'
<1>. DEFINE p == party[role]  n == p.at
<1>1. /\ party \in [Roles -> AnyWorker] /\ p \in AnyWorker /\ Owned(p)
      /\ script \in [1..Length -> AllStatements]
  BY DEF ScriptInv
<1>2. script' = script /\ p.state = "running" /\ n <= Length BY DEF Read, Write, Reaches
<1>3. n \in 1..Length /\ n + 1 \in 1..Length + 1 BY <1>2, Next1
<1>4. ASSUME party' = [party EXCEPT ![role].state = "error", ![role].outcome[n] = "busy"]
      PROVE  ScriptInv'
  <2>. DEFINE w == [p EXCEPT !.state = "error", !.outcome[n] = "busy"]
  <2>1. w \in AnyWorker /\ w.at = n /\ w.inner = p.inner /\ w.flight = p.flight
    BY <1>1, <1>3 DEF AnyWorker, Outcomes
  <2>2. party' = [party EXCEPT ![role] = w] BY <1>1, <1>4
  <2>. QED BY <1>2, <2>1, <2>2, StaysKeeps
<1>5. ASSUME NEW inner \in p.inner, Reaches(role, {"read"}),
             party' = [party EXCEPT ![role].at = n + 1, ![role].outcome[n] = "ok",
                           ![role].answer[n] = inner.rounds]
      PROVE  ScriptInv'
  <2>. DEFINE w == [p EXCEPT !.at = n + 1, !.outcome[n] = "ok", !.answer[n] = inner.rounds]
  <2>1. inner \in Cell BY <1>1 DEF AnyWorker
  <2>2. inner.rounds \in Nat BY <2>1 DEF Cell
  <2>3. w \in AnyWorker /\ w.at = n + 1 /\ w.inner = p.inner /\ w.flight = p.flight
    BY <1>1, <1>3, <2>2 DEF AnyWorker, Outcomes
  <2>4. party' = [party EXCEPT ![role] = w] BY <1>1, <1>5
  <2>5. Owned(w) BY <1>1, <2>3 DEF Owned
  <2>6. \A m : Grown(role, m, script[n]) = m BY <1>5 DEF Grown, Reaches
  <2>7. Goes(role, w) BY <1>3, <2>3, <2>6 DEF Goes, Cells
  <2>. QED BY <1>2, <2>3, <2>4, <2>5, <2>7, GoesKeeps
<1>6. ASSUME NEW inner \in p.inner, NEW kind,
             Reaches(role, {"secret", "publish"}),
             kind = IF script[n] = "publish" THEN "public" ELSE PrivateRegion(role),
             party' = [party EXCEPT ![role].at = n + 1, ![role].outcome[n] = "ok",
                           ![role].inner = {[inner EXCEPT !.memory = Append(@, kind)]}]
      PROVE  ScriptInv'
  <2>. DEFINE cell == [inner EXCEPT !.memory = Append(@, kind)]
              w == [p EXCEPT !.at = n + 1, !.outcome[n] = "ok", !.inner = {cell}]
  <2>1. inner \in Cell /\ kind \in Kinds BY <1>1, <1>6 DEF AnyWorker, Kinds, PrivateRegion
  <2>2. cell \in Cell /\ cell.memory = Append(inner.memory, kind) BY <2>1 DEF Cell
  <2>3. cell.memory = Grown(role, inner.memory, script[n])
    BY <1>6, <2>2 DEF Grown, Reaches
  <2>. HIDE DEF cell
  <2>4. w \in AnyWorker /\ w.at = n + 1 /\ w.inner = {cell} /\ w.flight = p.flight
    BY <1>1, <1>3, <2>2 DEF AnyWorker, Outcomes
  <2>5. party' = [party EXCEPT ![role] = w] BY <1>1, <1>6 DEF cell
  <2>6. p.flight = {} BY <1>1 DEF Owned
  <2>7. Owned(w) /\ Cells(w) = {cell} BY <2>2, <2>4, <2>6 DEF Owned, Cells
  <2>8. inner \in Cells(p) BY DEF Cells
  <2>9. Goes(role, w) BY <1>3, <2>3, <2>4, <2>7, <2>8 DEF Goes
  <2>. QED BY <1>2, <2>4, <2>5, <2>7, <2>9, GoesKeeps
<1>. QED BY <1>4, <1>5, <1>6 DEF Read, Write

\* The first poll of a future that does not get to its round leaves the state where
\* it is, and one that does takes it along.
LEMMA PollSteps ==
    ASSUME ScriptInv, NEW role \in Roles, RefuseCall(role) \/ EnterRound(role)
    PROVE  ScriptInv'
<1>. DEFINE p == party[role]  n == Head(p.queue)
<1>1. party \in [Roles -> AnyWorker] /\ p \in AnyWorker /\ Owned(p) BY DEF ScriptInv
<1>2. script' = script /\ p.queue # <<>> BY DEF RefuseCall, EnterRound, Polls
<1>3. n \in 1..Length /\ Tail(p.queue) \in Seq(1..Length)
  <2>1. p.queue \in Seq(1..Length) BY <1>1 DEF AnyWorker
  <2>2. ASSUME NEW S, NEW q \in Seq(S), q # <<>> PROVE Head(q) \in S /\ Tail(q) \in Seq(S)
    BY <2>2
  <2>. QED BY <1>2, <2>1, <2>2
<1>4. CASE RefuseCall(role)
  <2>. DEFINE busy == Parses(role) /\ p.inner = {}
              o == IF busy THEN "busy" ELSE "refused"
              w == [Polled(role) EXCEPT !.outcome[n] = o]
  <2>1. o \in Outcomes BY DEF Outcomes
  <2>. HIDE DEF o
  <2>2. w \in AnyWorker /\ w.at = p.at /\ w.inner = p.inner /\ w.flight = p.flight
    BY <1>1, <1>3, <2>1 DEF AnyWorker, Polled
  <2>3. party' = [party EXCEPT ![role] = w] BY <1>4 DEF RefuseCall, o
  <2>. QED BY <1>2, <2>2, <2>3, StaysKeeps
<1>5. CASE EnterRound(role)
  <2>1. PICK inner \in p.inner :
            party' = [party EXCEPT ![role] =
                [Polled(role) EXCEPT !.inner = {},
                                     !.flight = {[at |-> n, inner |-> inner]}]]
    BY <1>5 DEF EnterRound
  <2>. DEFINE call == [at |-> n, inner |-> inner]
              w == [Polled(role) EXCEPT !.inner = {}, !.flight = {call}]
  <2>2. call \in Flight /\ call.inner = inner BY <1>1, <1>3 DEF AnyWorker, Flight
  <2>3. w \in AnyWorker /\ w.at = p.at /\ w.inner = {} /\ w.flight = {call}
    BY <1>1, <1>3, <2>2 DEF AnyWorker, Polled
  <2>4. Owned(w) /\ Cells(w) = {inner} BY <2>2, <2>3 DEF Owned, Cells
  <2>5. inner \in Cells(p) BY DEF Cells
  <2>6. Goes(role, w) BY <2>3, <2>4, <2>5 DEF Goes
  <2>7. party' = [party EXCEPT ![role] = w] BY <2>1
  <2>. QED BY <1>2, <2>3, <2>4, <2>6, <2>7, GoesKeeps
<1>. QED BY <1>4, <1>5

\* The end of a round brings the state back.
LEMMA SettleStep ==
    ASSUME ScriptInv, NEW role \in Roles, NEW outcome \in Outcomes, Settle(role, outcome)
    PROVE  ScriptInv'
<1>. DEFINE p == party[role]
<1>1. party \in [Roles -> AnyWorker] /\ p \in AnyWorker /\ Owned(p) BY DEF ScriptInv
<1>2. PICK call \in p.flight :
          LET inner == [call.inner EXCEPT !.rounds = @ + 1]
          IN  party' = [party EXCEPT ![role].inner = {inner}, ![role].flight = {},
                            ![role].outcome[call.at] = outcome,
                            ![role].answer[call.at] = inner.rounds]
  BY DEF Settle
<1>. DEFINE inner == [call.inner EXCEPT !.rounds = @ + 1]
            w == [p EXCEPT !.inner = {inner}, !.flight = {},
                           !.outcome[call.at] = outcome, !.answer[call.at] = inner.rounds]
<1>3. call \in Flight BY <1>1 DEF AnyWorker
<1>4. call.at \in 1..Length /\ call.inner \in Cell BY <1>3 DEF Flight
<1>5. inner \in Cell /\ inner.rounds \in Nat /\ inner.memory = call.inner.memory
  BY <1>4 DEF Cell
<1>2a. party' = [party EXCEPT ![role].inner = {inner}, ![role].flight = {},
                             ![role].outcome[call.at] = outcome,
                             ![role].answer[call.at] = inner.rounds]
  BY <1>2
<1>. HIDE DEF inner
<1>6a. script' = script BY DEF Settle
<1>6b. party' = [party EXCEPT ![role] = w] BY <1>1, <1>2a
<1>6. party' = [party EXCEPT ![role] = w] /\ script' = script BY <1>6a, <1>6b
<1>7. w \in AnyWorker /\ w.at = p.at /\ w.inner = {inner} /\ w.flight = {}
  BY <1>1, <1>4, <1>5 DEF AnyWorker
<1>8. Owned(w) /\ Cells(w) = {inner} BY <1>5, <1>7 DEF Owned, Cells
<1>9. call.inner \in Cells(p) BY DEF Cells
<1>10. Goes(role, w) BY <1>5, <1>7, <1>8, <1>9 DEF Goes
<1>. HIDE DEF w
<1>. QED BY <1>6, <1>7, <1>8, <1>10, GoesKeeps

\* A script that goes on touches nothing.
LEMMA WakeStep ==
    ASSUME ScriptInv, NEW role \in Roles, Wake(role)
    PROVE  ScriptInv'
<1>. DEFINE p == party[role]
<1>1. party \in [Roles -> AnyWorker] /\ p \in AnyWorker BY DEF ScriptInv
<1>2. PICK s \in {"running", "error"} :
          party' = [party EXCEPT ![role].waits = {}, ![role].state = s]
  BY DEF Wake
<1>. DEFINE w == [p EXCEPT !.waits = {}, !.state = s]
<1>3. w \in AnyWorker /\ w.at = p.at /\ w.inner = p.inner /\ w.flight = p.flight
  BY <1>1 DEF AnyWorker
<1>4. party' = [party EXCEPT ![role] = w] /\ script' = script BY <1>1, <1>2 DEF Wake
<1>. QED BY <1>3, <1>4, StaysKeeps

\* Both parties start with empty memories.
LEMMA ScriptInit == Init => ScriptInv
<1>1. SUFFICES ASSUME Init PROVE ScriptInv OBVIOUS
<1>. DEFINE cell == [memory |-> <<>>, rounds |-> 0]
<1>2. cell \in Cell /\ cell.memory = <<>> BY DEF Cell
<1>. HIDE DEF cell
<1>3. ASSUME NEW role \in Roles
      PROVE  /\ NewParty(role) \in AnyWorker /\ NewParty(role).at = 1
             /\ NewParty(role).inner = {cell} /\ NewParty(role).flight = {}
  BY <1>2, GuestAssumption DEF NewParty, AnyWorker, Outcomes, cell
<1>4. /\ party \in [Roles -> AnyWorker]
      /\ \A role \in Roles : /\ party[role].at = 1 /\ party[role].inner = {cell}
                             /\ party[role].flight = {}
  BY <1>1, <1>3 DEF Init
<1>5. \A role \in Roles : Owned(party[role]) /\ Cells(party[role]) = {cell}
  BY <1>2, <1>4 DEF Owned, Cells
<1>. DEFINE history == [n \in 1..Length + 1 |-> <<>>]
<1>6. history \in [1..Length + 1 -> Seq(Kinds)] /\ history[1] = <<>>
  BY GuestAssumption
<1>7. Blinded(<<>>) = <<>> BY DEF Blinded
<1>. HIDE DEF history
<1>8. Remembers(history)
  BY <1>2, <1>4, <1>5, <1>6, <1>7, GuestAssumption DEF Remembers, SeenBy
<1>9. script \in [1..Length -> AllStatements] BY <1>1, GuestAssumption DEF Init
<1>. QED BY <1>4, <1>5, <1>6, <1>8, <1>9 DEF ScriptInv

\* Every step keeps the invariant.
LEMMA ScriptNext == ScriptInv /\ [Next]_vars => ScriptInv'
<1>1. SUFFICES ASSUME ScriptInv, [Next]_vars PROVE ScriptInv' OBVIOUS
<1>2. CASE UNCHANGED vars
  BY <1>1, <1>2 DEF ScriptInv, Remembers, vars
<1>3. ASSUME NEW role \in Roles, Runs(role) PROVE ScriptInv'
  BY <1>1, <1>3, ScriptSteps, MemorySteps, PollSteps, WakeStep DEF Runs
<1>4. ASSUME NEW role \in Roles, Rounds(role) PROVE ScriptInv'
  <2>1. {"ok", "failed"} \subseteq Outcomes BY DEF Outcomes
  <2>. QED BY <1>1, <1>4, <2>1, SettleStep DEF Rounds, RoundDone, RoundFailed
<1>. QED BY <1>1, <1>2, <1>3, <1>4 DEF Next

\* The invariant holds.
LEMMA ScriptInvHolds == Spec => []ScriptInv
BY ScriptInit, ScriptNext, PTL DEF Spec

-----------------------------------------------------------------------------
(* The theorems.                                                           *)

\* The state of a Party is never lost and never doubled, for scripts of any length and
\* whatever they let overlap (call of lib.rs).
THEOREM OneOwnerHolds == Spec => []OneOwner
<1>1. ScriptInv => OneOwner BY DEF ScriptInv, OneOwner, Owned
<1>. QED BY <1>1, ScriptInvHolds, PTL

\* The verifier's memory is the prover's, blinded, wherever the two scripts have come
\* equally far (the Vm of zkvm.ts).
THEOREM SameMemoryHolds == Spec => []SameMemory
<1>1. ScriptInv => SameMemory
  <2>1. SUFFICES ASSUME ScriptInv, party["prover"].at = party["verifier"].at
                 PROVE  Engine("verifier").memory = Blinded(Engine("prover").memory)
    BY DEF SameMemory
  <2>2. PICK history \in [1..Length + 1 -> Seq(Kinds)] : Remembers(history)
    BY <2>1 DEF ScriptInv
  <2>3. ASSUME NEW role \in Roles
        PROVE  Engine(role).memory = SeenBy(role, history[party[role].at])
    <3>1. party[role] \in AnyWorker /\ Owned(party[role]) BY <2>1 DEF ScriptInv
    <3>2. Engine(role) \in Cells(party[role]) BY <3>1, OneCell DEF Engine, Cells
    <3>. QED BY <2>2, <3>2 DEF Remembers
  <2>. QED BY <2>1, <2>3 DEF Roles, SeenBy
<1>. QED BY <1>1, ScriptInvHolds, PTL

-----------------------------------------------------------------------------
(* What the two scripts see.  A call that succeeds was, on both sides, in  *)
(* the round it answers with.  Which of the calls a party has taken to its *)
(* peer a read has behind it depends only on the script: all that were     *)
(* issued before the script was last suspended, and no other; so two reads *)
(* can differ only by a round that was of two calls.                       *)

\* The script gives control away between statement i and statement k.
Suspending == {"call", "probe", "misuse", "join", "pause"}
Suspended(i, k) == \E s \in i..(k - 1) : script[s] \in Suspending

\* A Party has run the rounds it has entered, but for the one it is in.
Counts(role) ==
    /\ \A inner \in party[role].inner : inner.rounds = Len(wire[role])
    /\ \A call \in party[role].flight :
          /\ wire[role] # <<>> /\ wire[role][Len(wire[role])].at = call.at
          /\ call.inner.rounds + 1 = Len(wire[role])

\* Calls are polled in the order of the script, each once.
InOrder(role) ==
    LET w == party[role]  taken == wire[role]
    IN  /\ \A m \in DOMAIN taken :
              /\ taken[m].at < w.at /\ script[taken[m].at] \in {"call", "hold"}
              /\ \A k \in DOMAIN taken : m < k => taken[m].at < taken[k].at
              /\ \A k \in DOMAIN w.queue : taken[m].at < w.queue[k]
        /\ \A k \in DOMAIN w.queue :
              /\ w.queue[k] < w.at
              /\ script[w.queue[k]] \in {"call", "hold", "probe", "misuse"}
              /\ \A j \in DOMAIN w.queue : j < k => w.queue[j] < w.queue[k]

\* While the script runs, the calls that have been polled are those issued before it
\* was last suspended.
PolledSo(role) ==
    LET w == party[role]
    IN  /\ w.state \in {"running", "awaiting", "paused"} =>
              \A m \in DOMAIN wire[role] : Suspended(wire[role][m].at, w.at)
        /\ w.state = "running" => \A k \in DOMAIN w.queue : ~Suspended(w.queue[k], w.at)
        /\ w.state \in {"awaiting", "paused"} =>
              \A k \in DOMAIN w.queue : Suspended(w.queue[k], w.at)

\* A call answers with the number of its round, a read with how many rounds there were
\* when the script was last suspended.
Answered(role) ==
    LET w == party[role]  taken == wire[role]
    IN  \A i \in 1..Length :
          /\ script[i] \notin {"call", "hold", "read"} => w.answer[i] = 0
          /\ w.outcome[i] = "ok" =>
               /\ i < w.at
               /\ \A cell \in Cells(w) : w.answer[i] <= cell.rounds
               /\ script[i] \in {"call", "hold"} =>
                    w.answer[i] \in DOMAIN taken /\ taken[w.answer[i]].at = i
               /\ script[i] = "read" =>
                    /\ \A m \in DOMAIN taken :
                          m <= w.answer[i] <=> Suspended(taken[m].at, i)
                    /\ \A k \in DOMAIN w.queue : ~Suspended(w.queue[k], i)

\* The rounds a party has run its peer has entered too; a call that succeeded was of
\* the same call there.
Together(role) ==
    LET w == party[role]  theirs == wire[Peer(role)]
    IN  /\ \A cell \in Cells(w) : \A m \in 1..cell.rounds :
              m \in DOMAIN wire[role] /\ m \in DOMAIN theirs
        /\ \A i \in 1..Length :
              w.outcome[i] = "ok" /\ script[i] \in {"call", "hold"} =>
                 w.answer[i] \in DOMAIN theirs /\ theirs[w.answer[i]].at = i

AnswerInv ==
    /\ wire \in [Roles -> Seq(Call)]
    /\ \A role \in Roles :
          /\ Counts(role) /\ InOrder(role) /\ PolledSo(role)
          /\ Answered(role) /\ Together(role)

\* Later statements only add to what has been suspended for.
LEMMA SuspendedNext ==
    ASSUME NEW k \in Nat, NEW i \in 1..k
    PROVE  Suspended(i, k + 1) <=> Suspended(i, k) \/ script[k] \in Suspending
<1>1. i..(k + 1 - 1) = i..(k - 1) \cup {k} OBVIOUS
<1>. QED BY <1>1 DEF Suspended

LEMMA SuspendedFrom ==
    ASSUME NEW k \in Nat, NEW i \in Nat, k <= i
    PROVE  ~Suspended(i, k)
BY DEF Suspended

\* Types.
LEMMA AnswerTypes ==
    ASSUME ScriptInv, wire \in [Roles -> Seq(Call)], NEW role \in Roles
    PROVE  /\ Length \in Nat /\ party[role] \in AnyWorker /\ Owned(party[role])
           /\ party[role].at \in Nat /\ party[role].queue \in Seq(1..Length)
           /\ \A k \in DOMAIN party[role].queue : party[role].queue[k] \in 1..Length
           /\ wire[role] \in Seq(Call) /\ Len(wire[role]) \in Nat
           /\ DOMAIN wire[role] = 1..Len(wire[role])
           /\ \A m \in DOMAIN wire[role] : wire[role][m].at \in 1..Length
           /\ \A cell \in Cells(party[role]) : cell \in Cell /\ cell.rounds \in Nat
           /\ \E cell \in Cells(party[role]) : Cells(party[role]) = {cell}
<1>1. Length \in Nat /\ party[role] \in AnyWorker /\ Owned(party[role])
  BY GuestAssumption DEF ScriptInv
<1>2. party[role].at \in Nat /\ party[role].queue \in Seq(1..Length) BY <1>1 DEF AnyWorker
<1>3. PICK cell \in Cell : Cells(party[role]) = {cell} BY <1>1, OneCell
<1>4. \A S : \A q \in Seq(S) : \A k \in DOMAIN q : q[k] \in S OBVIOUS
<1>5. wire[role] \in Seq(Call) OBVIOUS
<1>6. \A m \in DOMAIN wire[role] : wire[role][m] \in Call BY <1>4, <1>5
<1>. QED BY <1>1, <1>2, <1>3, <1>4, <1>5, <1>6, SMTT(30) DEF Cell, Call

\* A step of one party adds to its own calls at most.
LEMMA AnswerKeeps ==
    ASSUME ScriptInv, ScriptInv', AnswerInv, script' = script, NEW role \in Roles, NEW w,
           party' = [party EXCEPT ![role] = w], wire' \in [Roles -> Seq(Call)],
           \A other \in Roles \ {role} : wire'[other] = wire[other],
           \A m \in DOMAIN wire[role] :
               m \in DOMAIN wire'[role] /\ wire'[role][m] = wire[role][m],
           Counts(role)', InOrder(role)', PolledSo(role)', Answered(role)', Together(role)'
    PROVE  AnswerInv'
<1>1. party'[role] = w /\ \A other \in Roles \ {role} : party'[other] = party[other]
  BY DEF ScriptInv
<1>2. ASSUME NEW other \in Roles \ {role}
      PROVE  /\ Counts(other)' /\ InOrder(other)' /\ PolledSo(other)' /\ Answered(other)'
             /\ Together(other)'
  <2>1. /\ Counts(other) /\ InOrder(other) /\ PolledSo(other) /\ Answered(other)
        /\ Together(other)
        /\ party'[other] = party[other] /\ wire'[other] = wire[other]
    BY <1>1 DEF AnswerInv
  <2>2. Cells(party[other])' = Cells(party[other]) BY <2>1 DEF Cells
  <2>3. Counts(other)' BY <2>1 DEF Counts
  <2>4. InOrder(other)' BY <2>1 DEF InOrder
  <2>5. PolledSo(other)' BY <2>1 DEF PolledSo, Suspended
  <2>6. Answered(other)' BY <2>1, <2>2 DEF Answered, Suspended
  <2>7. Peer(other) = role /\ Peer(other)' = role BY DEF Peer, Roles
  <2>8. Together(other)' BY <2>1, <2>2, <2>7 DEF Together
  <2>. QED BY <2>3, <2>4, <2>5, <2>6, <2>8
<1>. QED BY <1>2 DEF AnswerInv

\* A step that takes no call and answers none.
LEMMA AnswerQuiet ==
    ASSUME ScriptInv, ScriptInv', AnswerInv, script' = script, wire' = wire,
           NEW role \in Roles, NEW w \in AnyWorker, party' = [party EXCEPT ![role] = w],
           w.at \in {party[role].at, party[role].at + 1}, w.queue = party[role].queue,
           w.flight = party[role].flight, w.answer = party[role].answer,
           \A c \in w.inner : \E d \in party[role].inner : c.rounds = d.rounds,
           \A i \in 1..Length :
              \/ w.outcome[i] = party[role].outcome[i]
              \/ i = party[role].at /\ w.outcome[i] = "busy"
              \/ /\ i = party[role].at /\ w.outcome[i] = "ok"
                 /\ w.at = i + 1 /\ script[i] \in {"secret", "publish"},
           PolledSo(role)'
    PROVE  AnswerInv'
<1>. DEFINE p == party[role]  taken == wire[role]
<1>1. /\ wire \in [Roles -> Seq(Call)] /\ party'[role] = w /\ wire'[role] = taken
      /\ Counts(role) /\ InOrder(role) /\ Answered(role) /\ Together(role)
  BY DEF ScriptInv, AnswerInv
<1>2. /\ p.at \in Nat /\ p.queue \in Seq(1..Length) /\ p.at <= w.at
      /\ \A m \in DOMAIN taken : taken[m].at \in 1..Length
      /\ \A k \in DOMAIN p.queue : p.queue[k] \in 1..Length
  BY <1>1, AnswerTypes
<1>3. \A c \in Cells(w) : \E d \in Cells(p) : c.rounds = d.rounds
  BY DEF Cells
<1>4. Counts(role)' BY <1>1 DEF Counts
<1>5. InOrder(role)' BY <1>1, <1>2 DEF InOrder
<1>6. ASSUME NEW i \in 1..Length, w.outcome[i] = "ok", i # p.at
      PROVE  p.outcome[i] = "ok"
  BY <1>6
<1>7. Answered(role)'
  <2>1. ASSUME NEW i \in 1..Length, script[i] \notin {"call", "hold", "read"}
        PROVE  w.answer[i] = 0
    BY <1>1, <2>1 DEF Answered
  <2>2. ASSUME NEW i \in 1..Length, w.outcome[i] = "ok"
        PROVE  /\ i < w.at
               /\ \A cell \in Cells(w) : w.answer[i] <= cell.rounds
               /\ script[i] \in {"call", "hold"} =>
                    w.answer[i] \in DOMAIN taken /\ taken[w.answer[i]].at = i
               /\ script[i] = "read" =>
                    /\ \A m \in DOMAIN taken :
                          m <= w.answer[i] <=> Suspended(taken[m].at, i)
                    /\ \A k \in DOMAIN w.queue : ~Suspended(w.queue[k], i)
    <3>1. CASE p.outcome[i] = "ok"
      BY <1>1, <1>2, <1>3, <3>1 DEF Answered
    <3>2. CASE p.outcome[i] # "ok"
      <4>1. i = p.at /\ w.at = i + 1 /\ script[i] \in {"secret", "publish"}
        BY <2>2, <3>2
      <4>2. w.answer[i] = 0 BY <2>1, <4>1
      <4>3. \A cell \in Cells(p) : cell.rounds \in Nat BY <1>1, AnswerTypes
      <4>. QED BY <1>3, <4>1, <4>2, <4>3
    <3>. QED BY <3>1, <3>2
  <2>. QED BY <1>1, <2>1, <2>2 DEF Answered, Suspended
<1>8. Together(role)'
  <2>1. ASSUME NEW c \in Cells(w), NEW m \in 1..c.rounds
        PROVE  m \in DOMAIN taken /\ m \in DOMAIN wire[Peer(role)]
    BY <1>1, <1>3 DEF Together
  <2>2. ASSUME NEW i \in 1..Length, w.outcome[i] = "ok", script[i] \in {"call", "hold"}
        PROVE  w.answer[i] \in DOMAIN wire[Peer(role)] /\ wire[Peer(role)][w.answer[i]].at = i
    <3>1. p.outcome[i] = "ok" BY <2>2
    <3>. QED BY <1>1, <2>2, <3>1 DEF Together
  <2>. QED BY <1>1, <2>1, <2>2 DEF Together, Peer
<1>. QED BY <1>1, <1>4, <1>5, <1>7, <1>8, AnswerKeeps

\* The script's own steps.
LEMMA AnswerScript ==
    ASSUME ScriptInv, ScriptInv', AnswerInv, NEW role \in Roles,
           Join(role) \/ Pause(role) \/ Finish(role) \/ Wake(role)
    PROVE  AnswerInv'
<1>. DEFINE p == party[role]  taken == wire[role]
<1>1. /\ p \in AnyWorker /\ wire \in [Roles -> Seq(Call)] /\ p.at \in Nat
      /\ \A k \in DOMAIN p.queue : p.queue[k] \in 1..Length
      /\ \A m \in DOMAIN taken : taken[m].at \in 1..Length
      /\ PolledSo(role) /\ InOrder(role)
  BY AnswerTypes DEF AnswerInv
<1>2. \A i \in 1..Length : i < p.at => i \in 1..p.at BY <1>1
<1>3. /\ script' = script /\ wire' = wire /\ ScriptInv
      /\ party \in [Roles -> AnyWorker] /\ party' \in [Roles -> AnyWorker]
  BY DEF Join, Pause, Finish, Wake, ScriptInv
<1>4. PICK w : /\ party' = [party EXCEPT ![role] = w] /\ w \in AnyWorker
               /\ w.queue = p.queue /\ w.flight = p.flight /\ w.answer = p.answer
               /\ w.inner = p.inner /\ w.outcome = p.outcome
               /\ \/ /\ w.at = p.at + 1 /\ w.state \in {"awaiting", "paused"}
                     /\ p.state = "running" /\ script[p.at] \in Suspending
                  \/ w.at = p.at /\ w.state \in {"done", "error"}
                  \/ /\ w.at = p.at /\ w.state = "running" /\ p.queue = <<>>
                     /\ p.state \in {"awaiting", "paused"}
  <2>. DEFINE w == party'[role]
  <2>1. w \in AnyWorker BY <1>3
  <2>2. CASE Join(role)
    <3>1. PICK a : party' = [party EXCEPT ![role].at = p.at + 1, ![role].state = "awaiting",
                                          ![role].waits = a]
      BY <2>2 DEF Join
    <3>2. w = [p EXCEPT !.at = p.at + 1, !.state = "awaiting", !.waits = a] BY <1>3, <3>1
    <3>3. p.state = "running" /\ script[p.at] \in Suspending
      BY <2>2 DEF Join, Reaches, Suspending
    <3>4. party' = [party EXCEPT ![role] = w] BY <1>3, <3>1, <3>2
    <3>. QED BY <1>1, <2>1, <3>2, <3>3, <3>4 DEF AnyWorker
  <2>3. CASE Pause(role)
    BY <1>3, <2>1, <2>3 DEF Pause, Reaches, Suspending, AnyWorker
  <2>4. CASE Finish(role)
    BY <1>3, <2>1, <2>4 DEF Finish, AnyWorker
  <2>5. CASE Wake(role)
    <3>1. PICK s \in {"running", "error"} :
              party' = [party EXCEPT ![role].waits = {}, ![role].state = s]
      BY <2>5 DEF Wake
    <3>2. w = [p EXCEPT !.waits = {}, !.state = s] BY <1>3, <3>1
    <3>3. p.queue = <<>> /\ p.state \in {"awaiting", "paused"} BY <2>5 DEF Wake, Idle
    <3>4. party' = [party EXCEPT ![role] = w] BY <1>3, <3>1, <3>2
    <3>. QED BY <1>1, <2>1, <3>2, <3>3, <3>4 DEF AnyWorker
  <2>. QED BY <2>2, <2>3, <2>4, <2>5
<1>5. party'[role] = w /\ wire'[role] = taken BY <1>3, <1>4
<1>6. PolledSo(role)'
  <2>1. CASE w.at = p.at + 1 /\ w.state \in {"awaiting", "paused"}
             /\ p.state = "running" /\ script[p.at] \in Suspending
    <3>1. \A i \in 1..p.at : Suspended(i, p.at + 1) BY <1>1, <2>1, SuspendedNext
    <3>2. \A m \in DOMAIN taken : Suspended(taken[m].at, w.at)
      BY <1>1, <1>2, <2>1, <3>1 DEF InOrder
    <3>3. \A k \in DOMAIN p.queue : Suspended(p.queue[k], w.at)
      BY <1>1, <1>2, <2>1, <3>1 DEF InOrder
    <3>. QED BY <1>3, <1>4, <1>5, <2>1, <3>2, <3>3 DEF PolledSo, Suspended
  <2>2. CASE w.at = p.at /\ w.state \in {"done", "error"}
    BY <1>5, <2>2 DEF PolledSo
  <2>3. CASE w.at = p.at /\ w.state = "running" /\ p.queue = <<>>
             /\ p.state \in {"awaiting", "paused"}
    BY <1>1, <1>3, <1>4, <1>5, <2>3 DEF PolledSo, Suspended
  <2>. QED BY <1>4, <2>1, <2>2, <2>3
<1>. QED BY <1>3, <1>4, <1>6, AnswerQuiet

\* A statement that does not suspend the script.
LEMMA PolledOn ==
    ASSUME ScriptInv, AnswerInv, NEW role \in Roles, party[role].state = "running",
           script' = script, wire' = wire, party'[role].at = party[role].at + 1,
           party'[role].state = "running", party'[role].queue = party[role].queue,
           script[party[role].at] \notin Suspending
    PROVE  PolledSo(role)'
<1>. DEFINE p == party[role]  taken == wire[role]
<1>1. /\ p.at \in Nat /\ PolledSo(role) /\ InOrder(role)
      /\ \A k \in DOMAIN p.queue : p.queue[k] \in 1..Length
      /\ \A m \in DOMAIN taken : taken[m].at \in 1..Length
  BY AnswerTypes DEF AnswerInv
<1>2. \A i \in 1..p.at : Suspended(i, p.at + 1) <=> Suspended(i, p.at)
  BY <1>1, SuspendedNext
<1>3. \A m \in DOMAIN taken : Suspended(taken[m].at, p.at + 1)
  BY <1>1, <1>2 DEF InOrder, PolledSo
<1>4. \A k \in DOMAIN p.queue : ~Suspended(p.queue[k], p.at + 1)
  BY <1>1, <1>2 DEF InOrder, PolledSo
<1>. QED BY <1>3, <1>4 DEF PolledSo, Suspended

\* A call is issued behind those that wait to be polled.
LEMMA AnswerIssue ==
    ASSUME ScriptInv, ScriptInv', AnswerInv, NEW role \in Roles, IssueCall(role)
    PROVE  AnswerInv'
<1>. DEFINE p == party[role]  taken == wire[role]  n == p.at  w == party'[role]
            q == Append(p.queue, n)
            held == script[n] = "hold"
<1>1. /\ p \in AnyWorker /\ p.at \in Nat /\ p.queue \in Seq(1..Length) /\ n \in 1..Length
      /\ wire \in [Roles -> Seq(Call)]
      /\ \A m \in DOMAIN taken : taken[m].at \in 1..Length
      /\ \A k \in DOMAIN p.queue : p.queue[k] \in 1..Length
      /\ Counts(role) /\ InOrder(role) /\ PolledSo(role) /\ Answered(role)
      /\ Together(role)
  BY AnswerTypes, Next1 DEF AnswerInv, IssueCall, Reaches
<1>2. /\ q \in Seq(1..Length) /\ DOMAIN q = 1..(Len(p.queue) + 1)
      /\ \A k \in DOMAIN p.queue : k \in DOMAIN q /\ q[k] = p.queue[k] /\ k < Len(p.queue) + 1
      /\ \A k \in DOMAIN q : k \in DOMAIN p.queue \/ (k = Len(p.queue) + 1 /\ q[k] = n)
  <2>1. /\ q \in Seq(1..Length) /\ Len(q) = Len(p.queue) + 1 /\ q[Len(q)] = n
        /\ \A k \in 1..Len(p.queue) : q[k] = p.queue[k]
    BY <1>1, AppendProperties
  <2>2. DOMAIN q = 1..Len(q) /\ DOMAIN p.queue = 1..Len(p.queue) /\ Len(p.queue) \in Nat
    BY <1>1, <2>1
  <2>. HIDE DEF q
  <2>. QED BY <2>1, <2>2
<1>. HIDE DEF q
<1>3. /\ script' = script /\ wire' = wire /\ party \in [Roles -> AnyWorker]
      /\ party' \in [Roles -> AnyWorker] /\ party' = [party EXCEPT ![role] = w]
      /\ w.at = n + 1 /\ w.queue = q /\ w.inner = p.inner /\ w.flight = p.flight
      /\ w.outcome = p.outcome /\ w.answer = p.answer
      /\ w.state = IF held THEN "running" ELSE "awaiting"
      /\ p.state = "running" /\ script[n] \in {"call", "hold", "probe", "misuse"}
  <2>1. /\ script' = script /\ wire' = wire /\ party \in [Roles -> AnyWorker]
        /\ party' \in [Roles -> AnyWorker]
        /\ p.state = "running" /\ script[n] \in {"call", "hold", "probe", "misuse"}
    BY DEF IssueCall, Reaches, ScriptInv
  <2>2. PICK a : party' = [party EXCEPT ![role].at = n + 1, ![role].queue = q,
                        ![role].state = IF held THEN "running" ELSE "awaiting",
                        ![role].waits = a]
    BY DEF IssueCall, q
  <2>3. w = [p EXCEPT !.at = n + 1, !.queue = q,
                      !.state = IF held THEN "running" ELSE "awaiting", !.waits = a]
    BY <2>1, <2>2
  <2>4. party' = [party EXCEPT ![role] = w] BY <2>1, <2>2, <2>3
  <2>. QED BY <1>1, <2>1, <2>3, <2>4 DEF AnyWorker
<1>4. Cells(w) = Cells(p) BY <1>3 DEF Cells
<1>5. Counts(role)' BY <1>1, <1>3 DEF Counts
<1>6. InOrder(role)'
  <2>1. ASSUME NEW m \in DOMAIN taken
        PROVE  /\ taken[m].at < n + 1 /\ script[taken[m].at] \in {"call", "hold"}
               /\ \A k \in DOMAIN taken : m < k => taken[m].at < taken[k].at
               /\ \A k \in DOMAIN q : taken[m].at < q[k]
    BY <1>1, <1>2 DEF InOrder
  <2>2. ASSUME NEW k \in DOMAIN q
        PROVE  /\ q[k] < n + 1 /\ script[q[k]] \in {"call", "hold", "probe", "misuse"}
               /\ \A j \in DOMAIN q : j < k => q[j] < q[k]
    BY <1>1, <1>2, <1>3 DEF InOrder
  <2>. QED BY <1>3, <2>1, <2>2 DEF InOrder
<1>7. PolledSo(role)'
  <2>1. \A i \in 1..n : Suspended(i, n + 1) <=> Suspended(i, n) \/ ~held
    BY <1>1, <1>3, SuspendedNext DEF Suspending
  <2>2. \A m \in DOMAIN taken : Suspended(taken[m].at, n + 1)
    BY <1>1, <1>3, <2>1 DEF InOrder, PolledSo
  <2>3. \A k \in DOMAIN q : q[k] \in 1..n BY <1>1, <1>2 DEF InOrder
  <2>4. ASSUME held PROVE \A k \in DOMAIN q : ~Suspended(q[k], n + 1)
    BY <1>1, <1>2, <1>3, <2>1, <2>3, <2>4, SuspendedFrom DEF PolledSo
  <2>5. ASSUME ~held PROVE \A k \in DOMAIN q : Suspended(q[k], n + 1)
    BY <2>1, <2>3, <2>5
  <2>. QED BY <1>3, <2>2, <2>4, <2>5 DEF PolledSo, Suspended
<1>8. Answered(role)'
  <2>1. ASSUME NEW i \in 1..Length, p.outcome[i] = "ok"
        PROVE  i < n /\ \A k \in DOMAIN q : script[i] = "read" => ~Suspended(q[k], i)
    <3>1. i < n BY <1>1, <2>1 DEF Answered
    <3>2. ~Suspended(n, i) BY <1>1, <3>1, SuspendedFrom
    <3>. QED BY <1>1, <1>2, <2>1, <3>1, <3>2 DEF Answered
  <2>2. ASSUME NEW i \in 1..Length, p.outcome[i] = "ok"
        PROVE  /\ i < n + 1
               /\ \A cell \in Cells(w) : w.answer[i] <= cell.rounds
               /\ script[i] \in {"call", "hold"} =>
                    w.answer[i] \in DOMAIN taken /\ taken[w.answer[i]].at = i
               /\ script[i] = "read" =>
                    /\ \A m \in DOMAIN taken :
                          m <= w.answer[i] <=> Suspended(taken[m].at, i)
                    /\ \A k \in DOMAIN q : ~Suspended(q[k], i)
    BY <1>1, <1>3, <1>4, <2>1, <2>2, SMTT(30) DEF Answered
  <2>3. \A i \in 1..Length : script[i] \notin {"call", "hold", "read"} => w.answer[i] = 0
    BY <1>1, <1>3 DEF Answered
  <2>. QED BY <1>3, <2>2, <2>3 DEF Answered, Suspended
<1>9. Together(role)' BY <1>1, <1>3, <1>4 DEF Together, Peer
<1>. QED
  BY <1>1, <1>3, <1>5, <1>6, <1>7, <1>8, <1>9, AnswerKeeps

\* A write, or a statement that finds the cell empty, answers nothing.
LEMMA AnswerWrite ==
    ASSUME ScriptInv, ScriptInv', AnswerInv, NEW role \in Roles,
           \/ Write(role)
           \/ Read(role) /\ party[role].inner = {}
    PROVE  AnswerInv'
<1>. DEFINE p == party[role]  n == p.at  w == party'[role]
<1>1. /\ p \in AnyWorker /\ n \in 1..Length /\ wire \in [Roles -> Seq(Call)]
      /\ p.state = "running"
  BY AnswerTypes, Next1 DEF AnswerInv, Read, Write, Reaches
<1>2. /\ script' = script /\ wire' = wire /\ party \in [Roles -> AnyWorker]
      /\ party' \in [Roles -> AnyWorker]
  BY DEF Read, Write, ScriptInv
<1>3. CASE party' = [party EXCEPT ![role].state = "error", ![role].outcome[n] = "busy"]
  <2>1. w = [p EXCEPT !.state = "error", !.outcome[n] = "busy"] BY <1>2, <1>3
  <2>2. party' = [party EXCEPT ![role] = w] BY <1>2, <1>3, <2>1
  <2>3. /\ w \in AnyWorker /\ w.at = p.at /\ w.queue = p.queue /\ w.flight = p.flight
        /\ w.answer = p.answer /\ w.inner = p.inner /\ w.state = "error"
        /\ \A i \in 1..Length : w.outcome[i] = p.outcome[i] \/ (i = n /\ w.outcome[i] = "busy")
    BY <1>1, <1>2, <2>1 DEF AnyWorker
  <2>4. PolledSo(role)' BY <2>3 DEF PolledSo
  <2>. QED BY <1>2, <2>2, <2>3, <2>4, AnswerQuiet
<1>4. ASSUME NEW inner \in p.inner, NEW kind, script[n] \in {"secret", "publish"},
             party' = [party EXCEPT ![role].at = n + 1, ![role].outcome[n] = "ok",
                           ![role].inner = {[inner EXCEPT !.memory = Append(@, kind)]}]
      PROVE  AnswerInv'
  <2>. DEFINE cell == [inner EXCEPT !.memory = Append(@, kind)]
  <2>0. inner \in Cell /\ cell.rounds = inner.rounds BY <1>1 DEF AnyWorker, Cell
  <2>1. w = [p EXCEPT !.at = n + 1, !.outcome[n] = "ok", !.inner = {cell}]
    BY <1>2, <1>4
  <2>2. party' = [party EXCEPT ![role] = w] BY <1>2, <1>4, <2>1
  <2>. HIDE DEF cell
  <2>3. /\ w \in AnyWorker /\ w.at = n + 1 /\ w.queue = p.queue /\ w.flight = p.flight
        /\ w.answer = p.answer /\ w.inner = {cell} /\ w.state = "running"
        /\ \A i \in 1..Length : w.outcome[i] = p.outcome[i] \/ (i = n /\ w.outcome[i] = "ok")
    BY <1>1, <1>2, <2>1 DEF AnyWorker
  <2>4. \A c \in w.inner : \E d \in p.inner : c.rounds = d.rounds BY <2>0, <2>3
  <2>5. PolledSo(role)'
    BY <1>1, <1>2, <1>4, <2>3, PolledOn DEF Suspending
  <2>6. \A i \in 1..Length :
           \/ w.outcome[i] = p.outcome[i]
           \/ i = p.at /\ w.outcome[i] = "busy"
           \/ /\ i = p.at /\ w.outcome[i] = "ok"
              /\ w.at = i + 1 /\ script[i] \in {"secret", "publish"}
    BY <1>4, <2>3
  <2>7. w.at \in {p.at, p.at + 1} BY <2>3
  <2>. HIDE DEF w
  <2>. QED BY <1>2, <2>2, <2>3, <2>4, <2>5, <2>6, <2>7, AnswerQuiet
<1>. QED BY <1>3, <1>4, SMTT(30) DEF Read, Write, Reaches

\* A read answers with the rounds so far: the Party is in none, and the calls it has
\* taken are those from before the script was last suspended.
LEMMA AnswerRead ==
    ASSUME ScriptInv, ScriptInv', AnswerInv, NEW role \in Roles, Read(role),
           party[role].inner # {}
    PROVE  AnswerInv'
<1>. DEFINE p == party[role]  taken == wire[role]  n == p.at  w == party'[role]
<1>1. /\ p \in AnyWorker /\ p.at \in Nat /\ n \in 1..Length /\ n + 1 \in 1..Length + 1
      /\ wire \in [Roles -> Seq(Call)] /\ Len(taken) \in Nat /\ DOMAIN taken = 1..Len(taken)
      /\ \A m \in DOMAIN taken : taken[m].at \in 1..Length
      /\ \A k \in DOMAIN p.queue : p.queue[k] \in 1..Length
      /\ Counts(role) /\ InOrder(role) /\ PolledSo(role) /\ Answered(role)
      /\ Together(role) /\ Owned(p)
      /\ p.state = "running" /\ script[n] = "read"
  BY AnswerTypes, Next1 DEF AnswerInv, Read, Reaches
<1>2. /\ script' = script /\ wire' = wire /\ party \in [Roles -> AnyWorker]
      /\ party' \in [Roles -> AnyWorker]
  BY DEF Read, ScriptInv
<1>3. PICK inner \in p.inner :
          party' = [party EXCEPT ![role].at = n + 1, ![role].outcome[n] = "ok",
                        ![role].answer[n] = inner.rounds]
  BY DEF Read
<1>4. inner.rounds = Len(taken) /\ Cells(p) = {inner}
  BY <1>1 DEF Counts, Owned, Cells
<1>5. w = [p EXCEPT !.at = n + 1, !.outcome[n] = "ok", !.answer[n] = Len(taken)]
  BY <1>2, <1>3, <1>4
<1>6. party' = [party EXCEPT ![role] = w] BY <1>2, <1>3, <1>4, <1>5
<1>7. /\ w.at = n + 1 /\ w.queue = p.queue /\ w.flight = p.flight /\ w.inner = p.inner
      /\ w.state = "running" /\ w.outcome[n] = "ok" /\ w.answer[n] = Len(taken)
      /\ \A i \in 1..Length : i # n => /\ w.outcome[i] = p.outcome[i]
                                       /\ w.answer[i] = p.answer[i]
      /\ Cells(w) = Cells(p)
  <2>1. /\ w.at = n + 1 /\ w.queue = p.queue /\ w.flight = p.flight /\ w.inner = p.inner
        /\ w.state = "running" /\ w.outcome = [p.outcome EXCEPT ![n] = "ok"]
        /\ w.answer = [p.answer EXCEPT ![n] = Len(taken)]
    BY <1>1, <1>5 DEF AnyWorker
  <2>2. DOMAIN p.outcome = 1..Length /\ DOMAIN p.answer = 1..Length BY <1>1 DEF AnyWorker
  <2>. QED BY <1>1, <2>1, <2>2 DEF Cells
<1>8. Counts(role)' BY <1>1, <1>2, <1>7 DEF Counts
<1>9. InOrder(role)' BY <1>1, <1>2, <1>7 DEF InOrder
<1>10. PolledSo(role)'
  BY <1>1, <1>2, <1>7, PolledOn DEF Suspending
<1>11. Answered(role)'
  <2>1. \A i \in 1..Length : script[i] \notin {"call", "hold", "read"} => w.answer[i] = 0
    BY <1>1, <1>7 DEF Answered
  <2>2. ASSUME NEW i \in 1..Length, w.outcome[i] = "ok"
        PROVE  /\ i < n + 1
               /\ \A cell \in Cells(w) : w.answer[i] <= cell.rounds
               /\ script[i] \in {"call", "hold"} =>
                    w.answer[i] \in DOMAIN taken /\ taken[w.answer[i]].at = i
               /\ script[i] = "read" =>
                    /\ \A m \in DOMAIN taken :
                          m <= w.answer[i] <=> Suspended(taken[m].at, i)
                    /\ \A k \in DOMAIN w.queue : ~Suspended(w.queue[k], i)
    <3>1. CASE i = n
      BY <1>1, <1>4, <1>7, <3>1 DEF PolledSo
    <3>2. CASE i # n
      BY <1>1, <1>7, <2>2, <3>2 DEF Answered
    <3>. QED BY <3>1, <3>2
  <2>. QED BY <1>2, <1>7, <2>1, <2>2 DEF Answered, Suspended
<1>12. Together(role)' BY <1>1, <1>2, <1>7 DEF Together, Peer
<1>. QED
  BY <1>1, <1>2, <1>6, <1>8, <1>9, <1>10, <1>11, <1>12, AnswerKeeps

\* The first of the calls that wait is behind those taken and before the rest.
LEMMA FirstPolled ==
    ASSUME ScriptInv, AnswerInv, NEW role \in Roles, party[role].queue # <<>>
    PROVE  LET q == party[role].queue  h == Head(q)  taken == wire[role]
           IN  /\ h \in 1..Length /\ h < party[role].at
               /\ script[h] \in {"call", "hold", "probe", "misuse"}
               /\ \A m \in DOMAIN taken : taken[m].at < h
               /\ \A k \in DOMAIN Tail(q) : h < Tail(q)[k]
               /\ \A k \in DOMAIN Tail(q) : \E j \in DOMAIN q : Tail(q)[k] = q[j]
               /\ \A j, k \in DOMAIN Tail(q) : j < k => Tail(q)[j] < Tail(q)[k]
               /\ \E j \in DOMAIN q : q[j] = h
<1>. DEFINE q == party[role].queue  h == Head(q)  t == Tail(q)
<1>1. /\ q \in Seq(1..Length) /\ q # <<>> /\ InOrder(role)
      /\ \A k \in DOMAIN q : q[k] \in 1..Length
  BY AnswerTypes DEF AnswerInv
<1>2. /\ 1 \in DOMAIN q /\ h = q[1] /\ DOMAIN q = 1..Len(q) /\ Len(q) \in Nat
      /\ DOMAIN t = 1..(Len(q) - 1) /\ \A k \in DOMAIN t : t[k] = q[k + 1]
  BY <1>1
<1>3. \A k \in DOMAIN t : k + 1 \in DOMAIN q /\ 1 < k + 1 /\ t[k] = q[k + 1] BY <1>2
<1>4. \A j, k \in DOMAIN t : j < k => j + 1 < k + 1 BY <1>2
<1>. HIDE DEF h, t
<1>5. \A j, k \in DOMAIN t : j < k => t[j] < t[k] BY <1>1, <1>3, <1>4 DEF InOrder
<1>6. \A k \in DOMAIN t : h < t[k] BY <1>1, <1>2, <1>3 DEF InOrder
<1>7. /\ h \in 1..Length /\ h < party[role].at
      /\ script[h] \in {"call", "hold", "probe", "misuse"}
      /\ \A m \in DOMAIN wire[role] : wire[role][m].at < h
  BY <1>1, <1>2 DEF InOrder
<1>. QED BY <1>2, <1>3, <1>5, <1>6, <1>7 DEF h, t

\* A call that is refused is gone.
LEMMA AnswerRefuse ==
    ASSUME ScriptInv, ScriptInv', AnswerInv, NEW role \in Roles, RefuseCall(role)
    PROVE  AnswerInv'
<1>. DEFINE p == party[role]  taken == wire[role]  w == party'[role]
            q == p.queue  h == Head(q)  t == Tail(q)
<1>1. /\ p \in AnyWorker /\ p.at \in Nat /\ q # <<>> /\ wire \in [Roles -> Seq(Call)]
      /\ q \in Seq(1..Length)
      /\ Counts(role) /\ InOrder(role) /\ PolledSo(role) /\ Answered(role)
      /\ Together(role) /\ p.state # "running"
  BY AnswerTypes DEF AnswerInv, RefuseCall, Polls
<1>2. /\ h \in 1..Length /\ h < p.at /\ \A m \in DOMAIN taken : taken[m].at < h
      /\ \A k \in DOMAIN t : \E j \in DOMAIN q : t[k] = q[j]
      /\ \A j, k \in DOMAIN t : j < k => t[j] < t[k]
      /\ \A m \in DOMAIN taken : taken[m].at \in 1..Length
  BY <1>1, FirstPolled, AnswerTypes
<1>3. /\ script' = script /\ wire' = wire /\ party \in [Roles -> AnyWorker]
      /\ party' \in [Roles -> AnyWorker]
  BY DEF RefuseCall, ScriptInv
<1>4. PICK o \in {"busy", "refused"} :
          party' = [party EXCEPT ![role] = [Polled(role) EXCEPT !.outcome[h] = o]]
  BY DEF RefuseCall
<1>5. w = [p EXCEPT !.queue = t, !.outcome[h] = o]
  BY <1>1, <1>3, <1>4 DEF Polled, AnyWorker
<1>6. /\ w.at = p.at /\ w.queue = t /\ w.flight = p.flight /\ w.inner = p.inner
      /\ w.answer = p.answer /\ w.state = p.state /\ Cells(w) = Cells(p)
      /\ party' = [party EXCEPT ![role] = w]
      /\ w.outcome = [p.outcome EXCEPT ![h] = o] /\ DOMAIN p.outcome = 1..Length
  BY <1>1, <1>3, <1>4, <1>5 DEF AnyWorker, Cells
<1>. HIDE DEF t, h
<1>7. Counts(role)' BY <1>1, <1>3, <1>6 DEF Counts
<1>8. InOrder(role)' BY <1>1, <1>2, <1>3, <1>6 DEF InOrder
<1>9. PolledSo(role)' BY <1>1, <1>2, <1>3, <1>6 DEF PolledSo, Suspended
<1>10. \A i \in 1..Length : w.outcome[i] = "ok" => p.outcome[i] = "ok" BY <1>6
<1>11. Answered(role)'
  <2>1. ASSUME NEW i \in 1..Length, w.outcome[i] = "ok"
        PROVE  /\ i < p.at
               /\ \A cell \in Cells(p) : p.answer[i] <= cell.rounds
               /\ script[i] \in {"call", "hold"} =>
                    p.answer[i] \in DOMAIN taken /\ taken[p.answer[i]].at = i
               /\ script[i] = "read" =>
                    /\ \A m \in DOMAIN taken :
                          m <= p.answer[i] <=> Suspended(taken[m].at, i)
                    /\ \A k \in DOMAIN t : ~Suspended(t[k], i)
    BY <1>1, <1>2, <1>10, <2>1 DEF Answered
  <2>2. \A i \in 1..Length : script[i] \notin {"call", "hold", "read"} => p.answer[i] = 0
    BY <1>1 DEF Answered
  <2>. QED BY <1>3, <1>6, <2>1, <2>2 DEF Answered, Suspended
<1>12. Together(role)'
  <2>1. /\ party'[role] = w /\ wire'[role] = taken
        /\ wire'[Peer(role)] = wire[Peer(role)] /\ Peer(role)' = Peer(role)
    BY <1>1, <1>3, <1>6 DEF Peer
  <2>2. \A cell \in Cells(w) : \A m \in 1..cell.rounds :
           m \in DOMAIN taken /\ m \in DOMAIN wire[Peer(role)]
    BY <1>1, <1>6 DEF Together
  <2>3. ASSUME NEW i \in 1..Length, w.outcome[i] = "ok", script[i] \in {"call", "hold"}
        PROVE  /\ w.answer[i] \in DOMAIN wire[Peer(role)]
               /\ wire[Peer(role)][w.answer[i]].at = i
    BY <1>1, <1>6, <1>10, <2>3 DEF Together
  <2>. QED BY <1>3, <2>1, <2>2, <2>3 DEF Together
<1>. QED
  BY <1>1, <1>3, <1>6, <1>7, <1>8, <1>9, <1>11, <1>12, AnswerKeeps

\* A call that enters its round is the party's next, behind all it has taken.
LEMMA AnswerEnter ==
    ASSUME ScriptInv, ScriptInv', AnswerInv, NEW role \in Roles, EnterRound(role)
    PROVE  AnswerInv'
<1>. DEFINE p == party[role]  taken == wire[role]  w == party'[role]
            q == p.queue  h == Head(q)  t == Tail(q)  last == Len(taken) + 1
<1>1. /\ p \in AnyWorker /\ p.at \in Nat /\ q # <<>> /\ wire \in [Roles -> Seq(Call)]
      /\ q \in Seq(1..Length) /\ taken \in Seq(Call) /\ Len(taken) \in Nat
      /\ DOMAIN taken = 1..Len(taken) /\ Owned(p) /\ p.inner # {}
      /\ Counts(role) /\ InOrder(role) /\ PolledSo(role) /\ Answered(role)
      /\ Together(role) /\ p.state # "running" /\ script[h] \notin {"misuse", "probe"}
  BY AnswerTypes DEF AnswerInv, EnterRound, Polls, Enters, Parses, Known
<1>2. /\ h \in 1..Length /\ h < p.at /\ \A m \in DOMAIN taken : taken[m].at < h
      /\ \A k \in DOMAIN t : h < t[k] /\ \E j \in DOMAIN q : t[k] = q[j]
      /\ \A j, k \in DOMAIN t : j < k => t[j] < t[k]
      /\ \E j \in DOMAIN q : h = q[j]
      /\ \A m \in DOMAIN taken : taken[m].at \in 1..Length
      /\ script[h] \in {"call", "hold"}
  BY <1>1, FirstPolled, AnswerTypes
<1>3. /\ script' = script /\ party \in [Roles -> AnyWorker]
      /\ party' \in [Roles -> AnyWorker]
  BY DEF EnterRound, ScriptInv
<1>4. PICK inner \in p.inner :
         /\ party' = [party EXCEPT ![role] =
                [Polled(role) EXCEPT !.inner = {},
                                     !.flight = {[at |-> h, inner |-> inner]}]]
         /\ wire' = [wire EXCEPT ![role] = Append(@,
                [at |-> h, param |-> PrivateParam(role), memory |-> inner.memory])]
  BY DEF EnterRound
<1>. DEFINE call == [at |-> h, inner |-> inner]
            new == [at |-> h, param |-> PrivateParam(role), memory |-> inner.memory]
<1>5. w = [p EXCEPT !.queue = t, !.inner = {}, !.flight = {call}]
  BY <1>1, <1>3, <1>4 DEF Polled, AnyWorker
<1>6. /\ inner \in Cell /\ Cells(p) = {inner} /\ inner.rounds = Len(taken)
  BY <1>1 DEF AnyWorker, Owned, Cells, Counts
<1>7. /\ w.at = p.at /\ w.queue = t /\ w.flight = {call} /\ w.inner = {}
      /\ w.answer = p.answer /\ w.state = p.state /\ w.outcome = p.outcome
      /\ party' = [party EXCEPT ![role] = w]
  BY <1>1, <1>3, <1>4, <1>5 DEF AnyWorker
<1>8. Cells(w) = Cells(p) BY <1>6, <1>7 DEF Cells
<1>9. new \in Call
  BY <1>2, <1>6 DEF Call, Cell, PrivateParam, Kinds
<1>10. /\ wire'[role] \in Seq(Call) /\ DOMAIN wire'[role] = 1..last
       /\ wire'[role][last] = new /\ Len(wire'[role]) = last
       /\ \A m \in DOMAIN taken :
             m \in DOMAIN wire'[role] /\ wire'[role][m] = taken[m] /\ m < last
       /\ \A m \in DOMAIN wire'[role] : m \in DOMAIN taken \/ m = last
       /\ last \in Nat /\ last > Len(taken) /\ last \notin DOMAIN taken
  <2>1. wire'[role] = Append(taken, new) BY <1>1, <1>4
  <2>2. /\ wire'[role] \in Seq(Call) /\ Len(wire'[role]) = last /\ wire'[role][last] = new
        /\ \A m \in 1..Len(taken) : wire'[role][m] = taken[m]
    BY <1>1, <1>9, <2>1, AppendProperties
  <2>3. DOMAIN wire'[role] = 1..last BY <2>2
  <2>. QED BY <1>1, <2>2, <2>3
<1>11. /\ wire' \in [Roles -> Seq(Call)]
       /\ \A other \in Roles \ {role} : wire'[other] = wire[other]
  <2>1. Append(taken, new) \in Seq(Call) BY <1>1, <1>9
  <2>. QED BY <1>1, <1>4, <2>1
<1>12. new.at = h /\ call.at = h /\ call.inner = inner OBVIOUS
<1>. HIDE DEF t, h, new, call, last
<1>13. Counts(role)'
  <2>1. inner.rounds + 1 = last BY <1>6 DEF last
  <2>2. wire'[role] # <<>> BY <1>10
  <2>. QED BY <1>7, <1>10, <1>12, <2>1, <2>2 DEF Counts
<1>14. InOrder(role)'
  <2>1. ASSUME NEW m \in DOMAIN wire'[role]
        PROVE  /\ wire'[role][m].at < p.at
               /\ script[wire'[role][m].at] \in {"call", "hold"}
               /\ \A k \in DOMAIN wire'[role] :
                     m < k => wire'[role][m].at < wire'[role][k].at
               /\ \A k \in DOMAIN t : wire'[role][m].at < t[k]
    <3>1. CASE m \in DOMAIN taken BY <1>1, <1>2, <1>10, <1>12, <3>1, ZenonT(30) DEF InOrder
    <3>2. CASE m = last
      <4>1. \A k \in DOMAIN wire'[role] : ~(last < k) BY <1>10
      <4>. QED BY <1>2, <1>10, <1>12, <3>2, <4>1
    <3>. QED BY <1>10, <3>1, <3>2
  <2>2. ASSUME NEW k \in DOMAIN t
        PROVE  /\ t[k] < p.at /\ script[t[k]] \in {"call", "hold", "probe", "misuse"}
               /\ \A j \in DOMAIN t : j < k => t[j] < t[k]
    BY <1>1, <1>2 DEF InOrder
  <2>. QED BY <1>3, <1>7, <2>1, <2>2 DEF InOrder
<1>15. PolledSo(role)'
  <2>1. ASSUME p.state \in {"awaiting", "paused"}
        PROVE  /\ \A m \in DOMAIN wire'[role] : Suspended(wire'[role][m].at, p.at)
               /\ \A k \in DOMAIN t : Suspended(t[k], p.at)
    BY <1>1, <1>2, <1>10, <1>12, <2>1 DEF PolledSo
  <2>. QED BY <1>1, <1>3, <1>7, <2>1 DEF PolledSo, Suspended
<1>16. Answered(role)'
  <2>1. ASSUME NEW i \in 1..Length, p.outcome[i] = "ok"
        PROVE  /\ i < p.at
               /\ \A cell \in Cells(p) : p.answer[i] <= cell.rounds
               /\ script[i] \in {"call", "hold"} =>
                    /\ p.answer[i] \in DOMAIN wire'[role]
                    /\ wire'[role][p.answer[i]].at = i
               /\ script[i] = "read" =>
                    /\ \A m \in DOMAIN wire'[role] :
                          m <= p.answer[i] <=> Suspended(wire'[role][m].at, i)
                    /\ \A k \in DOMAIN t : ~Suspended(t[k], i)
    <3>1. /\ i < p.at /\ \A cell \in Cells(p) : p.answer[i] <= cell.rounds
          /\ script[i] \in {"call", "hold"} =>
                p.answer[i] \in DOMAIN taken /\ taken[p.answer[i]].at = i
          /\ script[i] = "read" =>
                /\ \A m \in DOMAIN taken : m <= p.answer[i] <=> Suspended(taken[m].at, i)
                /\ \A k \in DOMAIN q : ~Suspended(q[k], i)
      BY <1>1, <2>1 DEF Answered
    <3>2. p.answer[i] \in Nat BY <1>1 DEF AnyWorker
    <3>3. ~(last <= p.answer[i]) BY <1>1, <1>6, <1>10, <3>1, <3>2
    <3>. QED BY <1>2, <1>10, <1>12, <3>1, <3>3
  <2>2. \A i \in 1..Length : script[i] \notin {"call", "hold", "read"} => p.answer[i] = 0
    BY <1>1 DEF Answered
  <2>. QED BY <1>3, <1>7, <1>8, <2>1, <2>2 DEF Answered, Suspended
<1>17. Together(role)'
  <2>1. Peer(role) \in Roles \ {role} BY DEF Peer, Roles
  <2>. QED BY <1>1, <1>3, <1>7, <1>8, <1>10, <1>11, <2>1 DEF Together, Peer
<1>. QED
  BY <1>1, <1>3, <1>7, <1>10, <1>11, <1>13, <1>14, <1>15, <1>16, <1>17, AnswerKeeps

\* A round that ends is the last the party has entered; one that matches is its peer's.
LEMMA AnswerSettle ==
    ASSUME ScriptInv, ScriptInv', AnswerInv, NEW role \in Roles,
           NEW o \in {"ok", "failed"}, Settle(role, o),
           Met(role), o = "ok" => Matched(role)
    PROVE  AnswerInv'
<1>. DEFINE p == party[role]  taken == wire[role]  w == party'[role]  round == Len(taken)
<1>1. /\ p \in AnyWorker /\ p.at \in Nat /\ wire \in [Roles -> Seq(Call)]
      /\ taken \in Seq(Call) /\ round \in Nat /\ DOMAIN taken = 1..round
      /\ \A m \in DOMAIN taken : taken[m].at \in 1..Length
      /\ Counts(role) /\ InOrder(role) /\ PolledSo(role) /\ Answered(role)
      /\ Together(role) /\ Owned(p)
  BY AnswerTypes DEF AnswerInv
<1>2. /\ script' = script /\ wire' = wire /\ party \in [Roles -> AnyWorker]
      /\ party' \in [Roles -> AnyWorker]
  BY DEF Settle, ScriptInv
<1>3. PICK call \in p.flight :
          LET inner == [call.inner EXCEPT !.rounds = @ + 1]
          IN  party' = [party EXCEPT ![role].inner = {inner}, ![role].flight = {},
                            ![role].outcome[call.at] = o,
                            ![role].answer[call.at] = inner.rounds]
  BY DEF Settle
<1>. DEFINE inner == [call.inner EXCEPT !.rounds = @ + 1]  h == call.at
<1>4. /\ call \in Flight /\ h \in 1..Length /\ call.inner \in Cell
      /\ taken # <<>> /\ taken[round].at = h /\ call.inner.rounds + 1 = round
      /\ Cells(p) = {call.inner}
  BY <1>1 DEF AnyWorker, Flight, Counts, Owned, Cells
<1>5. inner.rounds = round /\ round \in DOMAIN taken BY <1>1, <1>4 DEF Cell
<1>6. party' = [party EXCEPT ![role].inner = {inner}, ![role].flight = {},
                            ![role].outcome[h] = o, ![role].answer[h] = inner.rounds]
  BY <1>3
<1>. HIDE DEF inner
<1>7. w = [p EXCEPT !.inner = {inner}, !.flight = {}, !.outcome[h] = o, !.answer[h] = round]
  BY <1>2, <1>5, <1>6
<1>8. /\ w.at = p.at /\ w.queue = p.queue /\ w.flight = {} /\ w.inner = {inner}
      /\ w.state = p.state /\ w.outcome = [p.outcome EXCEPT ![h] = o]
      /\ w.answer = [p.answer EXCEPT ![h] = round]
      /\ DOMAIN p.outcome = 1..Length /\ DOMAIN p.answer = 1..Length
      /\ party' = [party EXCEPT ![role] = w]
  <2>1. DOMAIN p.outcome = 1..Length /\ DOMAIN p.answer = 1..Length
    BY <1>1 DEF AnyWorker
  <2>2. \A other \in Roles : other # role => party'[other] = party[other]
    BY <1>2, <1>6
  <2>3. party' = [party EXCEPT ![role] = w]
    BY <1>2, <2>2
  <2> HIDE DEF w
  <2>4. /\ w.at = p.at /\ w.queue = p.queue /\ w.flight = {} /\ w.inner = {inner}
        /\ w.state = p.state /\ w.outcome = [p.outcome EXCEPT ![h] = o]
        /\ w.answer = [p.answer EXCEPT ![h] = round]
    <3>1. /\ w.at = p.at /\ w.queue = p.queue /\ w.flight = {} /\ w.inner = {inner}
          /\ w.state = p.state
      BY <1>1, <1>7 DEF AnyWorker
    <3>2. w.outcome = [p.outcome EXCEPT ![h] = o]
      BY <1>1, <1>7 DEF AnyWorker
    <3>3. w.answer = [p.answer EXCEPT ![h] = round]
      BY <1>1, <1>7 DEF AnyWorker
    <3>. QED BY <3>1, <3>2, <3>3
  <2>. QED BY <2>1, <2>3, <2>4
<1>9. Cells(w) = {inner} BY <1>8 DEF Cells
<1>10. h < p.at /\ script[h] \in {"call", "hold"} BY <1>1, <1>4, <1>5 DEF InOrder
<1>. HIDE DEF h
<1>11. Counts(role)' BY <1>2, <1>5, <1>8 DEF Counts
<1>12. InOrder(role)' BY <1>1, <1>2, <1>8 DEF InOrder
<1>13. PolledSo(role)' BY <1>1, <1>2, <1>8 DEF PolledSo, Suspended
<1>14. Answered(role)'
  <2>1. ASSUME NEW i \in 1..Length, w.outcome[i] = "ok"
        PROVE  /\ i < p.at
               /\ w.answer[i] <= inner.rounds
               /\ script[i] \in {"call", "hold"} =>
                    w.answer[i] \in DOMAIN taken /\ taken[w.answer[i]].at = i
               /\ script[i] = "read" =>
                    /\ \A m \in DOMAIN taken :
                          m <= w.answer[i] <=> Suspended(taken[m].at, i)
                    /\ \A k \in DOMAIN p.queue : ~Suspended(p.queue[k], i)
    <3>1. CASE i = h
      <4>1. w.answer[i] = round BY <1>8, <3>1
      <4>2. taken[round].at = i BY <1>4, <3>1 DEF h
      <4>3. script[i] # "read" BY <1>10, <3>1
      <4>. QED BY <1>1, <1>5, <1>10, <3>1, <4>1, <4>2, <4>3
    <3>2. CASE i # h
      <4>1. w.answer[i] = p.answer[i] /\ p.outcome[i] = "ok" BY <1>8, <2>1, <3>2
      <4>2. p.answer[i] <= call.inner.rounds BY <1>1, <1>4, <4>1 DEF Answered
      <4>3. p.answer[i] \in Nat /\ call.inner.rounds \in Nat
        BY <1>1, <1>4 DEF AnyWorker, Cell
      <4>4. p.answer[i] <= round BY <1>1, <1>4, <4>2, <4>3
      <4>. QED BY <1>1, <1>5, <4>1, <4>4 DEF Answered
    <3>. QED BY <3>1, <3>2
  <2>2. \A i \in 1..Length : script[i] \notin {"call", "hold", "read"} => w.answer[i] = 0
    BY <1>1, <1>8, <1>10 DEF Answered
  <2>. QED BY <1>2, <1>8, <1>9, <2>1, <2>2 DEF Answered, Suspended
<1>15. Together(role)'
  <2>. DEFINE theirs == wire[Peer(role)]
  <2>1. Peer(role) \in Roles /\ theirs \in Seq(Call) BY <1>1 DEF Peer, Roles
  <2>2. round \in DOMAIN theirs
    <3>1. Len(theirs) >= round BY DEF Met
    <3>2. \A s \in Seq(Call) : Len(s) >= round => round \in DOMAIN s BY <1>1, <1>5
    <3>. QED BY <2>1, <3>1, <3>2
  <2>3. ASSUME o = "ok" PROVE theirs[round].at = h
    <3>1. wire["prover"][round].at = wire["verifier"][round].at BY <2>3 DEF Matched
    <3>2. taken[round].at = theirs[round].at BY <3>1 DEF Peer, Roles
    <3>. QED BY <1>4, <3>2 DEF h
  <2>4. ASSUME NEW m \in 1..round PROVE m \in DOMAIN taken /\ m \in DOMAIN theirs
    <3>0. call.inner.rounds \in Nat /\ call.inner.rounds + 1 = round BY <1>4 DEF Cell
    <3>1. m = round \/ m \in 1..call.inner.rounds BY <3>0
    <3>. QED BY <1>1, <1>4, <1>5, <2>2, <3>1 DEF Together
  <2>5. ASSUME NEW i \in 1..Length, w.outcome[i] = "ok", script[i] \in {"call", "hold"}
        PROVE  w.answer[i] \in DOMAIN theirs /\ theirs[w.answer[i]].at = i
    <3>1. CASE i = h BY <1>8, <2>2, <2>3, <2>5, <3>1
    <3>2. CASE i # h
      <4>1. w.answer[i] = p.answer[i] /\ p.outcome[i] = "ok" BY <1>8, <2>5, <3>2
      <4>. QED BY <1>1, <2>5, <4>1 DEF Together
    <3>. QED BY <3>1, <3>2
  <2>. QED BY <1>2, <1>5, <1>8, <1>9, <2>4, <2>5 DEF Together, Peer
<1>. QED
  BY <1>1, <1>2, <1>8, <1>11, <1>12, <1>13, <1>14, <1>15, AnswerKeeps

LEMMA AnswerInit == Init => AnswerInv
<1>1. SUFFICES ASSUME Init PROVE AnswerInv OBVIOUS
<1>2. ASSUME NEW role \in Roles
      PROVE  /\ wire[role] = <<>> /\ party[role].queue = <<>>
             /\ party[role].state = "running" /\ party[role].flight = {}
             /\ \A cell \in party[role].inner : cell.rounds = 0
             /\ \A i \in 1..Length : party[role].outcome[i] = "none" /\ party[role].answer[i] = 0
  <2>1. party[role] = NewParty(role) /\ wire[role] = <<>> BY <1>1 DEF Init
  <2>. QED BY <2>1 DEF NewParty
<1>3. <<>> \in Seq(Call) /\ Len(<<>>) = 0 /\ DOMAIN <<>> = {} BY DEF Call
<1>4. wire \in [Roles -> Seq(Call)] BY <1>1, <1>3 DEF Init
<1>5. ASSUME NEW role \in Roles
      PROVE  /\ Counts(role) /\ InOrder(role) /\ PolledSo(role) /\ Answered(role)
             /\ Together(role)
  <2>1. \A cell \in Cells(party[role]) : cell.rounds = 0 BY <1>2 DEF Cells
  <2>2. Counts(role) BY <1>2, <1>3 DEF Counts
  <2>3. InOrder(role) BY <1>2, <1>3 DEF InOrder
  <2>4. PolledSo(role) BY <1>2, <1>3 DEF PolledSo
  <2>5. Answered(role) BY <1>2 DEF Answered
  <2>6. Together(role) BY <1>2, <2>1 DEF Together
  <2>. QED BY <2>2, <2>3, <2>4, <2>5, <2>6
<1>. QED BY <1>4, <1>5 DEF AnswerInv

LEMMA AnswerNext == ScriptInv /\ ScriptInv' /\ AnswerInv /\ [Next]_vars => AnswerInv'
<1>1. SUFFICES ASSUME ScriptInv, ScriptInv', AnswerInv, [Next]_vars PROVE AnswerInv' OBVIOUS
<1>2. CASE UNCHANGED vars
  BY <1>1, <1>2 DEF AnswerInv, Counts, InOrder, PolledSo, Answered, Together,
                    Suspended, Cells, vars
<1>3. ASSUME NEW role \in Roles, Runs(role) PROVE AnswerInv'
  BY <1>1, <1>3, AnswerIssue, AnswerScript, AnswerRead, AnswerWrite, AnswerRefuse,
     AnswerEnter DEF Runs
<1>4. ASSUME NEW role \in Roles, Rounds(role) PROVE AnswerInv'
  BY <1>1, <1>4, AnswerSettle DEF Rounds, RoundDone, RoundFailed
<1>. QED BY <1>1, <1>2, <1>3, <1>4 DEF Next

\* What the two scripts see at a statement was seen after the same rounds, whatever
\* overlaps and whatever fails; only a read may see a round more than its peer does, and
\* then one that the scripts entered with different calls.  For scripts of any length
\* (call, callLocal and read of lib.rs).
THEOREM AnswersAgreeHolds == Spec => []AnswersAgree
<1>1. ScriptInv /\ AnswerInv => AnswersAgree
  <2>1. SUFFICES ASSUME ScriptInv, AnswerInv, NEW i \in 1..Length,
                        \A role \in Roles : party[role].outcome[i] = "ok",
                        NEW role \in Roles,
                        party[Peer(role)].answer[i] < party[role].answer[i]
                 PROVE  script[i] = "read" /\ Crossed(party[role].answer[i])
    <3>1. ASSUME ScriptInv, NEW i \in 1..Length, NEW role \in Roles,
                 party[role].answer[i] > party[Peer(role)].answer[i]
          PROVE  party[Peer(role)].answer[i] < party[role].answer[i]
      <4>1. party[role] \in AnyWorker /\ party[Peer(role)] \in AnyWorker
        BY <3>1 DEF ScriptInv, Peer, Roles
      <4>. QED BY <3>1, <4>1 DEF AnyWorker
    <3>. QED BY <3>1 DEF AnswersAgree
  <2>. DEFINE many == party[role].answer[i]  few == party[Peer(role)].answer[i]
              ours == wire[role]  theirs == wire[Peer(role)]
  <2>2. Peer(role) \in Roles /\ Peer(Peer(role)) = role BY DEF Peer, Roles
  <2>3. /\ party[role] \in AnyWorker /\ party[Peer(role)] \in AnyWorker
        /\ Answered(role) /\ Together(role)
        /\ Answered(Peer(role)) /\ InOrder(Peer(role))
    BY <2>1, <2>2 DEF ScriptInv, AnswerInv
  <2>4. few \in Nat /\ many \in Nat /\ ~(many <= few)
    <3>1. few \in Nat /\ many \in Nat BY <2>1, <2>3 DEF AnyWorker
    <3>. QED BY <2>1, <3>1
  <2>5. PICK cell \in Cells(party[role]) : many <= cell.rounds /\ cell.rounds \in Nat
    BY <2>1, <2>3, AnswerTypes DEF AnswerInv, Answered
  <2>6. many \in DOMAIN ours /\ many \in DOMAIN theirs
    <3>1. many \in 1..cell.rounds BY <2>4, <2>5
    <3>. QED BY <2>3, <3>1 DEF Together
  \* A call that succeeds on both sides was in one round on both.
  <2>7. script[i] \notin {"call", "hold"}
    <3>1. SUFFICES ASSUME script[i] \in {"call", "hold"} PROVE FALSE OBVIOUS
    <3>2. theirs[many].at = i BY <2>1, <2>3, <3>1 DEF Together
    <3>3. few \in DOMAIN theirs /\ theirs[few].at = i BY <2>1, <2>2, <2>3, <3>1 DEF Answered
    <3>4. theirs[few].at < theirs[many].at BY <2>1, <2>3, <2>6, <3>3 DEF InOrder
    <3>. QED BY <3>2, <3>3, <3>4
  <2>8. script[i] = "read" BY <2>1, <2>2, <2>3, <2>4, <2>7 DEF Answered
  \* The script was suspended behind one of the calls and not behind the other.
  <2>9. ours[many].at # theirs[many].at
    <3>1. Suspended(ours[many].at, i) BY <2>1, <2>3, <2>4, <2>6, <2>8 DEF Answered
    <3>2. ~Suspended(theirs[many].at, i) BY <2>1, <2>2, <2>3, <2>4, <2>6, <2>8 DEF Answered
    <3>. QED BY <3>1, <3>2
  <2>. QED BY <2>6, <2>8, <2>9 DEF Crossed, Peer, Roles
<1>. QED BY <1>1, ScriptInit, ScriptNext, AnswerInit, AnswerNext, PTL DEF Spec

-----------------------------------------------------------------------------
(* The bounds of the types.                                                *)

\* No more calls are taken than the script has statements, as no two are of the same.
LEMMA TakenFew ==
    ASSUME ScriptInv, AnswerInv, NEW role \in Roles
    PROVE  /\ Len(wire[role]) \in 0..Length
           /\ \A cell \in Cells(party[role]) : cell.rounds \in 0..Length
<1>. DEFINE taken == wire[role]
            f == [m \in 1..Len(taken) |-> taken[m].at]
<1>1. /\ Length \in Nat /\ Len(taken) \in Nat /\ DOMAIN taken = 1..Len(taken)
      /\ \A m \in DOMAIN taken : taken[m].at \in 1..Length
      /\ \A cell \in Cells(party[role]) : cell.rounds \in Nat
      /\ Counts(role) /\ InOrder(role)
  BY AnswerTypes DEF AnswerInv
<1>2. f \in [1..Len(taken) -> 1..Length] BY <1>1
<1>3. ASSUME NEW m \in 1..Len(taken), NEW k \in 1..Len(taken), f[m] = f[k] PROVE m = k
  <2>1. m < k => f[m] < f[k] BY <1>1 DEF InOrder
  <2>2. k < m => f[k] < f[m] BY <1>1 DEF InOrder
  <2>3. f[m] \in Nat /\ f[k] \in Nat BY <1>2
  <2>. QED BY <1>1, <1>3, <2>1, <2>2, <2>3
<1>4. f \in Injection(1..Len(taken), 1..Length) 
  <2>. HIDE DEF f
  <2>. QED BY <1>2, <1>3 DEF Injection, IsInjective
<1>5. /\ IsFiniteSet(1..Length) /\ Cardinality(1..Length) = Length
      /\ Cardinality(1..Len(taken)) = Len(taken)
  <2>. DEFINE l == Len(taken)
  <2>1. ASSUME NEW n \in Nat PROVE IsFiniteSet(1..n) /\ Cardinality(1..n) = n
    BY FS_Interval
  <2>2. l \in Nat BY <1>1
  <2>. QED BY <1>1, <2>1, <2>2
<1>6. Len(taken) <= Length
  <2>. HIDE DEF f
  <2>1. Cardinality(1..Len(taken)) <= Cardinality(1..Length) BY <1>4, <1>5, FS_Injection
  <2>. QED BY <1>5, <2>1
<1>7. ASSUME NEW cell \in Cells(party[role]) PROVE cell.rounds <= Len(taken)
  <2>1. cell.rounds = Len(taken) \/ cell.rounds + 1 = Len(taken)
    BY <1>1 DEF Cells, Counts
  <2>. QED BY <1>1, <2>1
<1>. QED BY <1>1, <1>6, <1>7

\* What a statement is answered is what it was, or the rounds its Party has now run.
LEMMA AnswersFrom ==
    ASSUME ScriptInv, [Next]_vars, NEW role \in Roles, NEW i \in 1..Length
    PROVE  \/ party'[role].answer[i] = party[role].answer[i]
           \/ \E cell \in Cells(party'[role]) : party'[role].answer[i] = cell.rounds
<1>1. party \in [Roles -> AnyWorker] BY DEF ScriptInv
<1>. DEFINE Same(x) == party'[x].answer = party[x].answer
            Answers(x) == \A k \in 1..Length :
                \/ party'[x].answer[k] = party[x].answer[k]
                \/ \E cell \in Cells(party'[x]) : party'[x].answer[k] = cell.rounds
<1>2. CASE UNCHANGED vars BY <1>2 DEF vars
<1>3. ASSUME NEW x \in Roles, Runs(x) \/ Rounds(x)
      PROVE  Answers(x) /\ \A y \in Roles \ {x} : Same(y)
  <2>1. CASE Join(x) \/ Pause(x)
    BY <1>1, <2>1 DEF Join, Pause, AnyWorker
  <2>2. CASE Finish(x)
    BY <1>1, <2>2 DEF Finish, AnyWorker
  <2>3. CASE IssueCall(x)
    BY <1>1, <2>3 DEF IssueCall, AnyWorker
  <2>4. CASE Write(x)
    <3>. DEFINE n == party[x].at
    <3>1. CASE party' = [party EXCEPT ![x].state = "error", ![x].outcome[n] = "busy"]
      BY <1>1, <3>1 DEF AnyWorker
    <3>2. ASSUME NEW new, party' = [party EXCEPT ![x].at = n + 1, ![x].outcome[n] = "ok",
                                                 ![x].inner = new]
          PROVE  Answers(x) /\ \A y \in Roles \ {x} : Same(y)
      BY <1>1, <3>2 DEF AnyWorker
    <3>. QED BY <2>4, <3>1, <3>2 DEF Write
  <2>5. CASE RefuseCall(x)
    BY <1>1, <2>5 DEF RefuseCall, Polled, AnyWorker
  <2>6. CASE EnterRound(x)
    BY <1>1, <2>6 DEF EnterRound, Polled, AnyWorker
  <2>7. CASE Wake(x)
    BY <1>1, <2>7 DEF Wake, AnyWorker
  <2>8. CASE Read(x)
    <3>. DEFINE n == party[x].at
    <3>1. CASE party' = [party EXCEPT ![x].state = "error", ![x].outcome[n] = "busy"]
      BY <1>1, <3>1 DEF AnyWorker
    <3>2. ASSUME NEW inner \in party[x].inner,
                 party' = [party EXCEPT ![x].at = n + 1, ![x].outcome[n] = "ok",
                                        ![x].answer[n] = inner.rounds]
          PROVE  Answers(x) /\ \A y \in Roles \ {x} : Same(y)
      <4>1. /\ party'[x].inner = party[x].inner
            /\ \A y \in Roles \ {x} : Same(y)
            /\ party'[x].answer = [party[x].answer EXCEPT ![n] = inner.rounds]
        BY <1>1, <3>2 DEF AnyWorker
      <4>2. inner \in Cells(party'[x]) BY <4>1 DEF Cells
      <4>3. DOMAIN party[x].answer = 1..Length BY <1>1 DEF AnyWorker
      <4>. QED BY <4>1, <4>2, <4>3
    <3>. QED BY <2>8, <3>1, <3>2 DEF Read
  <2>9. CASE Rounds(x)
    <3>1. PICK outcome : Settle(x, outcome) BY <2>9 DEF Rounds, RoundDone, RoundFailed
    <3>2. PICK call \in party[x].flight :
             LET inner == [call.inner EXCEPT !.rounds = @ + 1]
             IN party' = [party EXCEPT ![x].inner = {inner}, ![x].flight = {},
                              ![x].outcome[call.at] = outcome,
                              ![x].answer[call.at] = inner.rounds]
      BY <3>1 DEF Settle
    <3>. DEFINE inner == [call.inner EXCEPT !.rounds = @ + 1]
    <3>3. /\ party'[x].inner = {inner}
          /\ \A y \in Roles \ {x} : Same(y)
          /\ party'[x].answer = [party[x].answer EXCEPT ![call.at] = inner.rounds]
      <4>. HIDE DEF inner
      <4>. QED BY <1>1, <3>2 DEF AnyWorker, inner
    <3>4. inner \in Cells(party'[x]) BY <3>3 DEF Cells
    <3>5. DOMAIN party[x].answer = 1..Length BY <1>1 DEF AnyWorker
    <3>. HIDE DEF inner
    <3>. QED BY <3>3, <3>4, <3>5
  <2>. QED BY <1>3, <2>1, <2>2, <2>3, <2>4, <2>5, <2>6, <2>7, <2>8, <2>9 DEF Runs
<1>. QED BY <1>2, <1>3 DEF Next

Bounded ==
    /\ script \in [1..Length -> Statements]
    /\ \A role \in Roles : \A i \in 1..Length : party[role].answer[i] <= Length

\* The workers are what they are declared to be; in particular no script runs more
\* rounds than it has statements, though a Party counts its rounds without a bound.
THEOREM GuestTypeCorrect == Spec => []TypeOK
<1>1. Init => Bounded
  <2>1. ASSUME Init, NEW role \in Roles, NEW i \in 1..Length PROVE party[role].answer[i] = 0
    BY <2>1 DEF Init, NewParty
  <2>. QED BY <2>1, GuestAssumption DEF Init, Bounded
<1>2. ScriptInv /\ ScriptInv' /\ AnswerInv' /\ Bounded /\ [Next]_vars => Bounded'
  <2>1. SUFFICES ASSUME ScriptInv, ScriptInv', AnswerInv', Bounded, [Next]_vars
                 PROVE  Bounded'
    OBVIOUS
  <2>2. script' = script
    BY <2>1, ZenonT(30)
       DEF Next, Runs, Rounds, IssueCall, Join, Pause, Read, Write, Finish, RefuseCall,
           EnterRound, Wake, RoundDone, RoundFailed, Settle, vars
  <2>3. ASSUME NEW role \in Roles
        PROVE  \A cell \in Cells(party'[role]) : cell.rounds <= Length
    <3>1. (\A cell \in Cells(party[role]) : cell.rounds \in 0..Length)'
      BY <2>1, TakenFew, PTL
    <3>. QED BY <3>1, GuestAssumption DEF Cells
  <2>4. ASSUME NEW role \in Roles, NEW i \in 1..Length
        PROVE  party'[role].answer[i] <= Length
    BY <2>1, <2>3, AnswersFrom DEF Bounded
  <2>. QED BY <2>1, <2>2, <2>4 DEF Bounded
<1>3. ScriptInv /\ AnswerInv /\ Bounded => TypeOK
  <2>1. SUFFICES ASSUME ScriptInv, AnswerInv, Bounded, NEW role \in Roles
                 PROVE  party[role] \in Worker
    BY DEF TypeOK, ScriptInv, AnswerInv, Bounded
  <2>. DEFINE w == party[role]
  <2>2. w \in AnyWorker /\ \A cell \in Cells(w) : cell.rounds \in 0..Length
    BY <2>1, TakenFew DEF ScriptInv
  <2>3. w.inner \in SUBSET Inner
    BY <2>2 DEF AnyWorker, Cells, Cell, Inner
  <2>4. w.flight \in SUBSET [at : 1..Length, inner : Inner]
    BY <2>2 DEF AnyWorker, Cells, Flight, Cell, Inner
  <2>5. w.answer \in [1..Length -> 0..Length]
    BY <2>1, <2>2, GuestAssumption DEF AnyWorker, Bounded
  <2>. QED BY <2>2, <2>3, <2>4, <2>5 DEF AnyWorker, Worker
<1>. QED
  <2>1. Init => ScriptInv /\ AnswerInv BY ScriptInit, AnswerInit
  <2>. QED BY <1>1, <1>2, <1>3, <2>1, ScriptNext, AnswerNext, PTL DEF Spec
=============================================================================
