------------------------------- MODULE PortIo -------------------------------
(***************************************************************************)
(* The byte stream that port_io.rs makes of a MessagePort, in one          *)
(* direction: the PortIo of the party that writes, the task that owns its  *)
(* port, and the PortIo of the party that reads.  Between the two ports    *)
(* lies the page (module LocalRun) or the link (module PeerSession); here  *)
(* it is a queue of messages that is external.                             *)
(***************************************************************************)
EXTENDS Integers, Sequences, FiniteSetsExt

CONSTANTS
    MaxBytes,   \* bound: the bytes written, numbered from 1
    MaxChunk,   \* bound: the bytes of one write or one read
    MayBreak    \* whether a message may be refused by the port

ASSUME PortAssumption ==
    /\ MaxBytes \in Nat /\ MaxChunk \in Nat \ {0}
    /\ MayBreak \in BOOLEAN

VARIABLES
    written,    \* the number of bytes written so far
    wbuf,       \* bytes written but not yet flushed
    outgoing,   \* the batches flushed, for the task that owns the port
    task,       \* that task: draining, or gone once the port refused a message
    broken,     \* the writer has been told that the port is closed
    port,       \* external: the messages between the two ports
    incoming,   \* the batches received
    buf,        \* bytes received but not yet read out
    bytes       \* the bytes read, in the order they were read

vars == <<written, wbuf, outgoing, task, broken, port, incoming, buf, bytes>>

Bytes == 1..MaxBytes
Batches == Seq(Seq(Bytes))

TypeOK ==
    /\ written \in 0..MaxBytes /\ wbuf \in Seq(Bytes) /\ bytes \in Seq(Bytes)
    /\ outgoing \in Batches /\ port \in Batches /\ incoming \in Batches
    /\ buf \in Seq(Bytes)
    /\ task \in {"draining", "gone"} /\ broken \in BOOLEAN
    /\ task = "gone" => outgoing = <<>>
    /\ broken => task = "gone" /\ wbuf = <<>>

Init ==
    /\ written = 0 /\ wbuf = <<>> /\ outgoing = <<>>
    /\ task = "draining" /\ broken = FALSE
    /\ port = <<>> /\ incoming = <<>> /\ buf = <<>> /\ bytes = <<>>

-----------------------------------------------------------------------------
(* The writer.                                                             *)

PollWrite ==
    /\ ~broken
    /\ \E n \in 1..MaxChunk :
          /\ written + n <= MaxBytes
          /\ written' = written + n
          /\ wbuf' = wbuf \o [i \in 1..n |-> written + i]
    /\ UNCHANGED <<outgoing, task, broken, port, incoming, buf, bytes>>

\* What was written since the last flush becomes one batch; once the task is
\* gone the batch is lost and the writer is told, which ends its connection.
PollFlush ==
    /\ wbuf # <<>>
    /\ wbuf' = <<>>
    /\ IF task = "draining"
       THEN outgoing' = Append(outgoing, wbuf) /\ UNCHANGED broken
       ELSE broken' = TRUE /\ UNCHANGED outgoing
    /\ UNCHANGED <<written, task, port, incoming, buf, bytes>>

\* The task posts a batch as one message.
Drain ==
    /\ task = "draining" /\ outgoing # <<>>
    /\ port' = Append(port, Head(outgoing)) /\ outgoing' = Tail(outgoing)
    /\ UNCHANGED <<written, wbuf, task, broken, incoming, buf, bytes>>

\* Mutant: the task carries on after a message the port refused.
Break_carriesOn ==
    /\ MayBreak /\ task = "draining" /\ outgoing # <<>>
    /\ outgoing' = Tail(outgoing)
    /\ UNCHANGED <<written, wbuf, task, broken, port, incoming, buf, bytes>>

\* The port refuses the message: the task ends, its queue closes.
Break ==
    /\ MayBreak /\ task = "draining" /\ outgoing # <<>>
    /\ task' = "gone" /\ outgoing' = <<>>
    /\ UNCHANGED <<written, wbuf, broken, port, incoming, buf, bytes>>

-----------------------------------------------------------------------------
(* The reader.                                                             *)

OnMessage ==
    /\ port # <<>>
    /\ incoming' = Append(incoming, Head(port)) /\ port' = Tail(port)
    /\ UNCHANGED <<written, wbuf, outgoing, task, broken, buf, bytes>>

\* Mutant: what does not fit into a read is dropped.
PollRead_drops(room) ==
    LET refill == buf = <<>>
        held == IF refill THEN Head(incoming) ELSE buf
        n == Min({room, Len(held)})
    IN /\ refill => incoming # <<>>
       /\ incoming' = IF refill THEN Tail(incoming) ELSE incoming
       /\ bytes' = bytes \o SubSeq(held, 1, n)
       /\ buf' = <<>>
       /\ UNCHANGED <<written, wbuf, outgoing, task, broken, port>>

\* A read takes the next batch only when the last is used up, and as much of it
\* as it has room for.
PollRead(room) ==
    LET refill == buf = <<>>
        held == IF refill THEN Head(incoming) ELSE buf
        n == Min({room, Len(held)})
    IN /\ refill => incoming # <<>>
       /\ incoming' = IF refill THEN Tail(incoming) ELSE incoming
       /\ bytes' = bytes \o SubSeq(held, 1, n)
       /\ buf' = SubSeq(held, n + 1, Len(held))
       /\ UNCHANGED <<written, wbuf, outgoing, task, broken, port>>

-----------------------------------------------------------------------------
(* The specification.                                                      *)

Reads == \E room \in 1..MaxChunk : PollRead(room)

Next == PollWrite \/ PollFlush \/ Drain \/ Break \/ OnMessage \/ Reads

Spec == Init /\ [][Next]_vars

\* The event loops run the task and the callback, the page forwards, and the
\* connection above keeps polling for input.  Nobody has to write or flush.
FairSpec == Spec /\ WF_vars(Drain \/ Break) /\ WF_vars(OnMessage) /\ WF_vars(Reads)

-----------------------------------------------------------------------------
(* Properties.                                                             *)

Flushed == written - Len(wbuf)

\* The pipeline is a byte stream: nothing is lost, doubled or reordered in it,
\* whatever the sizes of the writes, the batches and the reads, and after a
\* message the port refused nothing arrives any more rather than the rest.
\* (port_io.rs, "Boundaries don't matter: this is a byte stream".)
Stream == INSTANCE ByteStream WITH flushed <- Flushed
IsStream == Stream!Spec

\* What is flushed is read in the end, unless the port refuses a message.
FlushedArrive ==
    \A n \in Bytes : Flushed >= n ~> Len(bytes) >= n \/ task = "gone"
=============================================================================
