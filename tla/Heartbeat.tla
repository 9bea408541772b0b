------------------------------ MODULE Heartbeat ------------------------------
(***************************************************************************)
(* What a page shows of the peer behind its link: the ping of the remote   *)
(* session (remote-session.ts) and the table of the control pane           *)
(* (control-pane.ts), with the address and how it is reached (remote.ts).  *)
(*                                                                         *)
(* Time is in steps of a clock.  A link is named by its number.  A link    *)
(* may open while another is in use, and may outlive its session: see      *)
(* Invite.  A peer echoes the pings it gets, and may fall silent.          *)
(***************************************************************************)
EXTENDS Integers, Sequences

CONSTANTS
    Period, Patience,  \* the code's 2 and 6 seconds
    Jitter,            \* how late an interval may fire
    Trip,              \* how long a ping and its pong may take
    MaxTime, MaxLinks  \* bounds

ASSUME PingAssumption ==
    /\ {Period, Patience, Jitter, Trip, MaxTime, MaxLinks} \subseteq Nat
    /\ Period > 0

Links == 1..MaxLinks
NoLink == 0
Times == 0..MaxTime

VARIABLES
    now,
    remote,       \* the link of the session
    opened,       \* number of links so far
    alive,        \* the links whose data channel is open
    timers,       \* the intervals that are set, with the time each fires next
    pingTimer,    \* the interval the session knows of
    lastPongAt,
    flight,       \* per link: the times of the pings that have no pong yet
    shown,        \* the ping in the table, or Offline
    info,         \* the link whose address the table shows
    lookups,      \* the links whose endpoint is being looked up
    silent,       \* the links whose peer does not answer
    patient       \* history: the peer of the session's link has always answered

session == <<remote, opened, alive, timers, pingTimer>>
table == <<lastPongAt, shown, info>>
pingVars == <<now, session, table, flight, lookups, silent, patient>>

Offline == -1

PingTypeOK ==
    /\ now \in Times /\ lastPongAt \in Times
    /\ remote \in Links \cup {NoLink} /\ pingTimer \in Links \cup {NoLink}
    /\ opened \in 0..MaxLinks
    /\ alive \subseteq Links /\ silent \subseteq Links
    /\ timers \subseteq [of : Links, due : Nat]
    /\ flight \in [Links -> Seq(Times)]
    /\ shown \in Times \cup {Offline}
    /\ info \in Links \cup {NoLink}
    /\ lookups \subseteq [of : Links, try : 1..2]
    /\ patient \in BOOLEAN

PingInit ==
    /\ now = 0 /\ lastPongAt = 0
    /\ remote = NoLink /\ pingTimer = NoLink /\ opened = 0
    /\ alive = {} /\ silent = {} /\ timers = {} /\ lookups = {}
    /\ flight = [l \in Links |-> <<>>]
    /\ shown = Offline /\ info = NoLink
    /\ patient = TRUE

-----------------------------------------------------------------------------
(* The session.  A definition X_y above X is a mutant of it.               *)

\* Of the intervals ts, those that are left when the one the session knows of is
\* cleared.
StopPing(ts) == {t \in ts : t.of # pingTimer}

NewTimer(l) == [of |-> l, due |-> now + Period]

Started_again(l) == timers \cup {NewTimer(l)}

\* startPing's intervals.
Started(l) == StopPing(timers) \cup {NewTimer(l)}

\* markConnected or markGuestConnected, then beginPeerSession.
Open ==
    LET l == opened + 1
    IN  /\ l \in Links
        /\ opened' = l /\ remote' = l /\ alive' = alive \cup {l}
        /\ lastPongAt' = now
        /\ flight' = [flight EXCEPT ![l] = <<now>>]
        /\ timers' = Started(l)
        /\ pingTimer' = l
        /\ shown' = Offline /\ info' = NoLink
        /\ lookups' = lookups \cup {[of |-> l, try |-> 1]}
        /\ patient' = TRUE
        /\ UNCHANGED <<now, silent>>

Closed_unstopped ==
    /\ remote # NoLink
    /\ remote' = NoLink /\ shown' = Offline
    /\ UNCHANGED <<timers, pingTimer>>

\* onClose.
Closed ==
    IF remote = NoLink
    THEN UNCHANGED <<remote, timers, pingTimer, shown>>
    ELSE /\ remote' = NoLink /\ shown' = Offline
         /\ timers' = StopPing(timers) /\ pingTimer' = NoLink

\* A link closes, on purpose or not: the session closes whichever link it is of.
Close(l) ==
    /\ l \in alive
    /\ alive' = alive \ {l}
    /\ flight' = [flight EXCEPT ![l] = <<>>]
    /\ Closed
    /\ UNCHANGED <<now, opened, lastPongAt, info, lookups, silent, patient>>

Fired(t) == (timers \ {t}) \cup {[t EXCEPT !.due = now + Period]}

Tick_hasty(t) ==
    /\ t \in timers /\ now >= t.due
    /\ timers' = Fired(t)
    /\ shown' = IF now - lastPongAt > Period THEN Offline ELSE shown
    /\ flight' = [flight EXCEPT ![t.of] = IF t.of \in alive THEN Append(@, now) ELSE @]
    /\ UNCHANGED <<now, remote, opened, alive, pingTimer, lastPongAt, info, lookups,
                   silent, patient>>

\* tick.  An interval of a link that is not the session's stops the interval
\* that the session knows of.
Tick(t) ==
    /\ t \in timers /\ now >= t.due
    /\ IF remote # t.of
       THEN /\ timers' = StopPing(Fired(t)) /\ pingTimer' = NoLink
            /\ UNCHANGED <<shown, flight>>
       ELSE /\ timers' = Fired(t)
            /\ shown' = IF now - lastPongAt > Patience THEN Offline ELSE shown
            /\ flight' = [flight EXCEPT ![t.of] = IF t.of \in alive THEN Append(@, now)
                                                  ELSE @]
            /\ UNCHANGED pingTimer
    /\ UNCHANGED <<now, remote, opened, alive, lastPongAt, info, lookups, silent, patient>>

\* The echo of a ping, on whichever link it comes.
Pong(l) ==
    /\ l \in alive \ silent
    /\ flight[l] # <<>>
    /\ flight' = [flight EXCEPT ![l] = Tail(@)]
    /\ lastPongAt' = now
    /\ shown' = now - Head(flight[l])
    /\ UNCHANGED <<now, session, info, lookups, silent, patient>>

EndpointFound_unchecked(q) ==
    /\ q \in lookups
    /\ lookups' = lookups \ {q}
    /\ info' = q.of
    /\ UNCHANGED <<now, session, lastPongAt, shown, flight, silent, patient>>

\* peerEndpoint has an answer: an address, or none at the second try.
EndpointFound(q) ==
    /\ q \in lookups
    /\ lookups' = lookups \ {q}
    /\ info' = IF remote = q.of THEN q.of ELSE info
    /\ UNCHANGED <<now, session, lastPongAt, shown, flight, silent, patient>>

\* It has none yet, and is asked again a beat later.
EndpointRetry(q) ==
    /\ q \in lookups /\ q.try = 1
    /\ lookups' = (lookups \ {q}) \cup {[q EXCEPT !.try = 2]}
    /\ UNCHANGED <<now, session, table, flight, silent, patient>>

-----------------------------------------------------------------------------
(* The world.                                                              *)

\* The session's peer sleeps, or wakes up.
Silence ==
    /\ remote \in alive
    /\ silent' = IF remote \in silent THEN silent \ {remote} ELSE silent \cup {remote}
    /\ patient' = FALSE
    /\ UNCHANGED <<now, session, table, flight, lookups>>

\* Time passes unless an interval or a pong is overdue.
Elapse ==
    /\ now < MaxTime
    /\ \A t \in timers : now < t.due + Jitter
    /\ \A l \in alive \ silent : flight[l] # <<>> => now < Head(flight[l]) + Trip
    /\ now' = now + 1
    /\ UNCHANGED <<session, table, flight, lookups, silent, patient>>

PingNext ==
    \/ Open
    \/ \E l \in Links : Close(l) \/ Pong(l)
    \/ \E t \in timers : Tick(t)
    \/ \E q \in lookups : EndpointFound(q) \/ EndpointRetry(q)
    \/ Silence
    \/ Elapse

PingSpec == PingInit /\ [][PingNext]_pingVars

-----------------------------------------------------------------------------
(* Properties.                                                             *)

\* A peer that does not answer is shown offline in time, however often links were
\* replaced and intervals set and cleared ("a timeout marks the readout offline if
\* pongs stop arriving").
SilenceShown ==
    remote # NoLink /\ shown # Offline =>
        now - lastPongAt <= Patience + Period + Jitter

\* A peer that always answers is not shown offline once it has been shown online
\* (tick), if pings and pongs are fast enough.
FastEnough == Period + Jitter + Trip <= Patience
NoFalseAlarm ==
    [][FastEnough /\ patient /\ remote # NoLink /\ remote' = remote /\ shown # Offline
         => shown' # Offline]_pingVars

\* Exactly the session's own interval is set, and none without a session
\* (startPing, stopPing).
OneInterval ==
    /\ {t.of : t \in timers} = {remote} \ {NoLink}
    /\ \A t, u \in timers : t = u

\* The address in the table is the current peer's, however slowly those of
\* earlier peers are found (beginPeerSession).
InfoIsCurrent == remote # NoLink => info \in {NoLink, remote}
=============================================================================
