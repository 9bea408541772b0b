----------------------------- MODULE ByteStream -----------------------------
(***************************************************************************)
(* What port_io.rs promises the codec above it, in one direction: the      *)
(* bytes that are read are those that were flushed, each once and in       *)
(* order, however they were cut into messages on the way.  Bytes may stop  *)
(* arriving for good, but none is ever skipped.                            *)
(***************************************************************************)
EXTENDS Integers, Sequences

CONSTANT MaxBytes   \* bound: the bytes written, numbered from 1

VARIABLES
    written,    \* the number of bytes written
    flushed,    \* the number of bytes flushed
    bytes       \* the bytes read, in the order they were read

vars == <<written, flushed, bytes>>

Upto(n) == [i \in 1..n |-> i]

Init == written = 0 /\ flushed = 0 /\ bytes = <<>>

Write ==
    /\ written' \in written + 1..MaxBytes
    /\ UNCHANGED <<flushed, bytes>>

Flush ==
    /\ flushed' = written
    /\ UNCHANGED <<written, bytes>>

Read ==
    /\ \E n \in Len(bytes) + 1..flushed : bytes' = Upto(n)
    /\ UNCHANGED <<written, flushed>>

Next == Write \/ Flush \/ Read

Spec == Init /\ [][Next]_vars
=============================================================================
