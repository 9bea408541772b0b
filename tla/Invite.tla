------------------------------- MODULE Invite -------------------------------
(***************************************************************************)
(* How a verifier's device gets connected to the prover's: the invite of   *)
(* the control pane (control-pane.ts), the two ends of the connection      *)
(* (hostInvite, joinInvite and RemoteLink of remote.ts), and the part of   *)
(* the remote session that opens and closes it (remote-session.ts).        *)
(*                                                                         *)
(* One page is the host.  Each guest is a page that followed the link of   *)
(* one invite.  PeerJS is external: a Peer per invite, known to the broker *)
(* while it is open; a data connection per guest, which opens on each side *)
(* on its own and, once either side or the network breaks it, reports      *)
(* `close` to a side on which it was open.                                 *)
(*                                                                         *)
(* PeerSession is what the two pages do over a connection.                 *)
(***************************************************************************)
EXTENDS Integers, FiniteSets

CONSTANTS
    Guests,       \* devices that may follow an invite
    Stale,        \* those whose page is of another deploy
    MaxInvites,   \* bound: how many invites the host makes
    NoGuest,
    Faults        \* "cut": the network, or the broker, fails

ASSUME InviteAssumption ==
    /\ Stale \subseteq Guests
    /\ NoGuest \notin Guests
    /\ MaxInvites \in Nat
    /\ Faults \subseteq {"cut"}

Invites == 1..MaxInvites
NoInvite == 0
MaybeGuest == Guests \cup {NoGuest}

VARIABLES
    host,      \* the host's control pane, and its session's remote link
    peers,     \* per invite: its Peer
    link,      \* per invite: the variable `link` of hostInvite
    hostEnd,   \* per guest: the host's end of its connection
    closing,   \* guests whose link a timer of setHost will close
    guest,     \* per guest: how far its page has come
    mode,      \* per guest: the mode of its control pane
    joined,    \* per guest: the invite whose link it followed
    cut        \* guests whose connection is broken

hostVars == <<host, peers, link, closing>>
guestVars == <<guest, mode, joined>>
vars == <<hostVars, hostEnd, guestVars, cut>>

Modes == {"local", "peer"}

TypeOK ==
    /\ host \in [mode : Modes, remote : MaybeGuest, handle : Invites \cup {NoInvite},
                 offered : BOOLEAN, inviting : BOOLEAN]
    /\ peers \in [Invites -> {"none", "opening", "open", "gone"}]
    /\ link \in [Invites -> MaybeGuest]
    /\ hostEnd \in [Guests -> {"none", "dialed", "open", "closed"}]
    /\ closing \subseteq Guests
    /\ guest \in [Guests -> {"away", "gate", "connecting", "connected", "left"}]
    /\ mode \in [Guests -> Modes]
    /\ joined \in [Guests -> Invites \cup {NoInvite}]
    /\ cut \subseteq Guests

\* offered: the invite button is shown; inviting: the panel with the QR code is.
Init ==
    /\ host = [mode |-> "local", remote |-> NoGuest, handle |-> NoInvite,
               offered |-> FALSE, inviting |-> FALSE]
    /\ peers = [i \in Invites |-> "none"]
    /\ link = [i \in Invites |-> NoGuest]
    /\ hostEnd = [g \in Guests |-> "none"]
    /\ closing = {}
    /\ guest = [g \in Guests |-> "away"]
    /\ mode = [g \in Guests |-> "local"]
    /\ joined = [g \in Guests |-> NoInvite]
    /\ cut = {}

-----------------------------------------------------------------------------
(* Closing.                                                                *)

\* A definition X_y above X is a mutant of it, a plausible bug; nothing uses it.

OnClose_unoffered(h) == [h EXCEPT !.remote = NoGuest]

OnClose_keepsRemote(h) == [h EXCEPT !.offered = @ \/ h.mode = "peer"]

\* onClose of the host's session.
OnClose(h) ==
    IF h.remote = NoGuest THEN h
    ELSE [h EXCEPT !.remote = NoGuest, !.offered = @ \/ h.mode = "peer"]

\* Destroying a Peer takes its connections with it.
ConnectionsOf(i) == {g \in Guests : joined[g] = i /\ hostEnd[g] \in {"dialed", "open"}}
OpenOn(i) == {g \in ConnectionsOf(i) : hostEnd[g] = "open"}

\* The Peers of the invites in closed are destroyed by their own link, whose other
\* open connections report it; those in cancelled before there is one.
Destroy(closed, cancelled) ==
    /\ hostEnd' = [g \in Guests |->
                     IF \E i \in closed : g \in OpenOn(i) THEN "closed" ELSE hostEnd[g]]
    /\ peers' = [i \in Invites |-> IF i \in closed \cup cancelled THEN "gone" ELSE peers[i]]
    /\ cut' = cut \cup UNION {ConnectionsOf(i) : i \in closed \cup cancelled}

\* RemoteLink.close, and the start of its teardown, for the link to g.
CloseLink(g) == Destroy({joined[g]}, {})

Cancelled_none == {}

\* What the handle's cancel destroys: the Peer of an invite that has no link.
Cancelled == {i \in Invites : i = host.handle /\ link[i] = NoGuest}

-----------------------------------------------------------------------------
(* The host's user.                                                        *)

SelectPeer ==
    /\ host.mode = "local"
    /\ host' = [host EXCEPT !.mode = "peer", !.offered = TRUE, !.inviting = FALSE]
    /\ UNCHANGED <<peers, link, closing, hostEnd, guestVars, cut>>

\* The disconnect, if there is a peer, and then the cancel: a peer may have come
\* through an earlier invite than the one the handle is of.
SelectLocal ==
    /\ host.mode = "peer"
    /\ Destroy(IF host.remote = NoGuest THEN {} ELSE {joined[host.remote]}, Cancelled)
    /\ host' = [OnClose(host) EXCEPT !.handle = NoInvite, !.mode = "local"]
    /\ UNCHANGED <<link, closing, guestVars>>

ClickInvite ==
    /\ host.mode = "peer" /\ host.offered
    /\ \E i \in Invites :
         /\ peers[i] = "none" /\ \A k \in Invites : k < i => peers[k] # "none"
         /\ peers' = [peers EXCEPT ![i] = "opening"]
         /\ host' = [host EXCEPT !.handle = i, !.offered = FALSE, !.inviting = TRUE]
    /\ UNCHANGED <<link, closing, hostEnd, guestVars, cut>>

ClickCancel ==
    /\ host.mode = "peer" /\ host.inviting
    /\ Destroy({}, Cancelled)
    /\ host' = [host EXCEPT !.handle = NoInvite, !.inviting = FALSE, !.offered = TRUE]
    /\ UNCHANGED <<link, closing, guestVars>>

ClickDisconnect ==
    /\ host.mode = "peer" /\ host.remote # NoGuest
    /\ CloseLink(host.remote)
    /\ host' = OnClose(host)
    /\ UNCHANGED <<link, closing, guestVars>>

-----------------------------------------------------------------------------
(* The host's events.                                                      *)

\* The broker knows the Peer: its link is on screen.
PeerOpen(i) ==
    /\ peers[i] = "opening"
    /\ peers' = [peers EXCEPT ![i] = "open"]
    /\ UNCHANGED <<host, link, closing, hostEnd, guestVars, cut>>

\* The Peer cannot register: the panel says so, and stays.
PeerError(i) ==
    /\ "cut" \in Faults
    /\ peers[i] = "opening"
    /\ peers' = [peers EXCEPT ![i] = "gone"]
    /\ UNCHANGED <<host, link, closing, hostEnd, guestVars, cut>>

\* A guest's dial reaches the host: refused when the invite has a link.
Connection(g) ==
    /\ guest[g] = "connecting" /\ hostEnd[g] = "none"
    /\ peers[joined[g]] = "open"
    /\ IF link[joined[g]] # NoGuest
       THEN /\ hostEnd' = [hostEnd EXCEPT ![g] = "closed"]
            /\ cut' = cut \cup {g}
       ELSE /\ hostEnd' = [hostEnd EXCEPT ![g] = "dialed"]
            /\ UNCHANGED cut
    /\ UNCHANGED <<hostVars, guestVars>>

HostOpen_unclosed(g) ==
    /\ hostEnd[g] = "dialed" /\ g \notin cut
    /\ hostEnd' = [hostEnd EXCEPT ![g] = "open"]
    /\ link' = [link EXCEPT ![joined[g]] = g]
    /\ host' = IF g \in Stale
               THEN [host EXCEPT !.inviting = FALSE, !.offered = TRUE]
               ELSE [host EXCEPT !.inviting = FALSE, !.remote = g]
    /\ UNCHANGED <<peers, closing, guestVars, cut>>

\* The connection opens on the host's side: onConnected and setHost.
HostOpen(g) ==
    /\ hostEnd[g] = "dialed" /\ g \notin cut
    /\ hostEnd' = [hostEnd EXCEPT ![g] = "open"]
    /\ link' = [link EXCEPT ![joined[g]] = g]
    /\ IF g \in Stale
       THEN /\ host' = [host EXCEPT !.inviting = FALSE, !.offered = TRUE]
            /\ closing' = closing \cup {g}
       ELSE /\ host' = [host EXCEPT !.inviting = FALSE, !.remote = g]
            /\ UNCHANGED closing
    /\ UNCHANGED <<peers, guestVars, cut>>

\* setHost's timer closes the link of a guest of another deploy.
CloseTimer(g) ==
    /\ g \in closing
    /\ closing' = closing \ {g}
    /\ CloseLink(g)
    /\ host' = IF OpenOn(joined[g]) \ {g} = {} THEN host ELSE OnClose(host)
    /\ UNCHANGED <<link, guestVars>>

\* The connection's close event: teardown, and onClose whichever link it is.
HostClose(g) ==
    /\ hostEnd[g] = "open" /\ g \in cut
    /\ CloseLink(g)
    /\ host' = OnClose(host)
    /\ UNCHANGED <<link, closing, guestVars>>

-----------------------------------------------------------------------------
(* A guest's page.                                                         *)

FollowLink(g) ==
    /\ guest[g] = "away"
    /\ \E i \in Invites :
         /\ peers[i] = "open"
         /\ joined' = [joined EXCEPT ![g] = i]
    /\ guest' = [guest EXCEPT ![g] = "gate"]
    /\ UNCHANGED <<hostVars, hostEnd, mode, cut>>

ConfirmJoin(g) ==
    /\ guest[g] = "gate"
    /\ guest' = [guest EXCEPT ![g] = "connecting"]
    /\ mode' = [mode EXCEPT ![g] = "peer"]
    /\ UNCHANGED <<hostVars, hostEnd, joined, cut>>

CancelJoin(g) ==
    /\ guest[g] = "gate"
    /\ guest' = [guest EXCEPT ![g] = "left"]
    /\ UNCHANGED <<hostVars, hostEnd, mode, joined, cut>>

\* The broker does not know the Peer any more.
PeerUnavailable(g) ==
    /\ guest[g] = "connecting" /\ hostEnd[g] = "none"
    /\ peers[joined[g]] = "gone"
    /\ guest' = [guest EXCEPT ![g] = "left"]
    /\ UNCHANGED <<hostVars, hostEnd, mode, joined, cut>>

\* The connection opens on the guest's side.
GuestOpen(g) ==
    /\ guest[g] = "connecting"
    /\ hostEnd[g] \in {"dialed", "open"} /\ g \notin cut
    /\ guest' = [guest EXCEPT ![g] = "connected"]
    /\ UNCHANGED <<hostVars, hostEnd, mode, joined, cut>>

\* selectMode, with the control pane on screen since the dial.
GuestSelectsLocal(g) ==
    /\ guest[g] \in {"connecting", "connected"} /\ mode[g] = "peer"
    /\ mode' = [mode EXCEPT ![g] = "local"]
    /\ IF guest[g] = "connected"
       THEN guest' = [guest EXCEPT ![g] = "left"] /\ cut' = cut \cup {g}
       ELSE UNCHANGED <<guest, cut>>
    /\ UNCHANGED <<hostVars, hostEnd, joined>>

GuestDisconnects(g) ==
    /\ guest[g] = "connected" /\ mode[g] = "peer"
    /\ guest' = [guest EXCEPT ![g] = "left"]
    /\ cut' = cut \cup {g}
    /\ UNCHANGED <<hostVars, hostEnd, mode, joined>>

GuestClose(g) ==
    /\ guest[g] = "connected" /\ g \in cut
    /\ guest' = [guest EXCEPT ![g] = "left"]
    /\ UNCHANGED <<hostVars, hostEnd, mode, joined, cut>>

\* The network breaks a connection.
Break(g) ==
    /\ "cut" \in Faults
    /\ hostEnd[g] \in {"dialed", "open"} /\ g \notin cut
    /\ cut' = cut \cup {g}
    /\ UNCHANGED <<hostVars, hostEnd, guestVars>>

-----------------------------------------------------------------------------

HostUser == SelectPeer \/ SelectLocal \/ ClickInvite \/ ClickCancel \/ ClickDisconnect
GuestUser(g) ==
    \/ FollowLink(g) \/ ConfirmJoin(g) \/ CancelJoin(g)
    \/ GuestSelectsLocal(g) \/ GuestDisconnects(g)
HostEvent(g) == Connection(g) \/ HostOpen(g) \/ CloseTimer(g) \/ HostClose(g)
GuestEvent(g) == PeerUnavailable(g) \/ GuestOpen(g) \/ GuestClose(g)

Next ==
    \/ HostUser
    \/ \E i \in Invites : PeerOpen(i) \/ PeerError(i)
    \/ \E g \in Guests : GuestUser(g) \/ HostEvent(g) \/ GuestEvent(g) \/ Break(g)

\* Events are delivered and timers fire.  No user has to do anything.
Fairness ==
    /\ \A g \in Guests : WF_vars(HostEvent(g)) /\ WF_vars(GuestEvent(g))
    /\ \A i \in Invites : WF_vars(PeerOpen(i))

Spec == Init /\ [][Next]_vars
FairSpec == Spec /\ Fairness

-----------------------------------------------------------------------------
(* Properties.                                                             *)

\* The session's link is one that this page has open, of the right deploy:
\* whatever closes links, it never leaves the session with a closed one, whose
\* sends would vanish without an error (RemoteLink.closed).
RemoteIsOpen ==
    host.remote # NoGuest => hostEnd[host.remote] = "open" /\ host.remote \notin Stale

\* In peer mode, without a peer, there is always a way to get one: the invite
\* button, or the panel with its cancel (onRemoteClosed: "ready to invite
\* again").
CanInvite ==
    host.mode = "peer" /\ host.remote = NoGuest => host.offered \/ host.inviting

\* g is not yet, and has not been, on a connection that the host let in or
\* refused.
NeverMet(g) == hostEnd[g] \in {"none", "dialed"}

\* A page in local mode has no peer: leaving peer mode drops an active link and
\* cancels a pending invite (selectMode).  Guarded: a guest of another deploy
\* that was refused leaves `link` set, and cancel then does nothing.
HostAlone ==
    host.mode = "local" /\ (\A g \in Stale : NeverMet(g)) => host.remote = NoGuest

\* A guest that believes to be connected gets a host that agrees, or is told
\* that the connection is gone.  Guarded: the close of another guest's link may
\* have taken the host's session down.
NoGhosts ==
    \A g \in Guests :
        guest[g] = "connected" ~>
            \/ host.remote = g \/ guest[g] # "connected"
            \/ \E h \in Guests \ {g} : ~NeverMet(h)

-----------------------------------------------------------------------------
(* What the comments say and the code does not do.                         *)

\* The host has one verifier at a time (hostInvite: "one verifier at a time").
OneVerifier == Cardinality({g \in Guests : hostEnd[g] = "open"}) <= 1

\* A guest's page in local mode has no peer (selectMode: "so nothing can connect
\* while in local mode").
GuestsAlone == \A g \in Guests : mode[g] = "local" => guest[g] # "connected"
=============================================================================
