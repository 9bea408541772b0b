---------------------------- MODULE Link_proofs ----------------------------
(***************************************************************************)
(* Proofs about the link between two pages.  That it is connected and      *)
(* closed as the panes say: Invite, for any number of guests and invites,  *)
(* with a network that may break.  That what the pane shows of the peer is *)
(* never older than it says, and never hides a peer that answers:          *)
(* Heartbeat, for every period and patience, however late intervals fire   *)
(* and however often links come and go.                                    *)
(***************************************************************************)
EXTENDS Invite, Heartbeat, SequenceTheorems, TLAPS

\* A guest follows the link of an invite that the broker knows, and is on one
\* connection at most.
FollowsOne ==
    \A g \in Guests :
        /\ joined[g] = NoInvite <=> guest[g] = "away"
        /\ guest[g] \in {"away", "gate"} => hostEnd[g] = "none"
        /\ joined[g] # NoInvite => peers[joined[g]] \in {"open", "gone"}

\* The `link` of an invite is one of its own connections, and is set once one has
\* opened; a connection that is not broken has a Peer.
LinksKnown ==
    /\ \A i \in Invites :
          link[i] # NoGuest => joined[link[i]] = i /\ ~NeverMet(link[i])
    /\ \A g \in Guests :
          /\ hostEnd[g] = "open" => link[joined[g]] # NoGuest /\ peers[joined[g]] = "open"
          /\ hostEnd[g] = "dialed" /\ g \notin cut => peers[joined[g]] = "open"

\* The timers of setHost are of guests of another deploy.
TimersOfStale == \A g \in closing : g \in Stale /\ ~NeverMet(g)

Calm == \A g \in Stale : NeverMet(g)
Waits(i) == peers[i] \in {"opening", "open"}

\* What the handle is for: no Peer is left to itself.
HandleHolds ==
    /\ \A i \in Invites : Waits(i) => /\ i = host.handle /\ host.mode = "peer"
                                      /\ host.inviting \/ host.remote # NoGuest
    /\ host.remote # NoGuest => joined[host.remote] = host.handle /\ ~host.inviting
    /\ host.mode = "peer" /\ host.offered =>
          host.remote = NoGuest /\ \A i \in Invites : ~Waits(i)
    /\ host.handle # NoInvite /\ link[host.handle] # NoGuest /\ host.remote = NoGuest =>
          peers[host.handle] = "gone"

InviteInv ==
    /\ TypeOK
    /\ FollowsOne /\ LinksKnown /\ TimersOfStale
    /\ RemoteIsOpen /\ CanInvite
    /\ Calm => HandleHolds
-----------------------------------------------------------------------------
(* The steps of the host, one lemma each.                                  *)

\* What becomes of each Peer and of each end of a connection.
Destroys(closed, cancelled) ==
    /\ peers' \in [Invites -> {"none", "opening", "open", "gone"}]
    /\ hostEnd' \in [Guests -> {"none", "dialed", "open", "closed"}]
    /\ cut' \subseteq Guests
    /\ \A i \in Invites : peers'[i] = IF i \in closed \cup cancelled THEN "gone" ELSE peers[i]
    /\ \A g \in Guests :
          /\ hostEnd'[g] = IF joined[g] \in closed /\ hostEnd[g] = "open"
                           THEN "closed" ELSE hostEnd[g]
          /\ g \in cut' <=>
               \/ g \in cut
               \/ joined[g] \in closed \cup cancelled /\ hostEnd[g] \in {"dialed", "open"}

LEMMA Destroyed ==
    ASSUME TypeOK, NEW closed \in SUBSET Invites, NEW cancelled \in SUBSET Invites,
           Destroy(closed, cancelled)
    PROVE  Destroys(closed, cancelled)
<1>. USE DEF Destroy, Destroys, OpenOn, ConnectionsOf, TypeOK
<1>1. \A g \in Guests : (\E i \in closed : g \in OpenOn(i)) <=>
                          joined[g] \in closed /\ hostEnd[g] = "open"
  OBVIOUS
<1>2. /\ \A i \in Invites :
            peers'[i] = IF i \in closed \cup cancelled THEN "gone" ELSE peers[i]
      /\ peers' \in [Invites -> {"none", "opening", "open", "gone"}]
  OBVIOUS
<1>3. /\ \A g \in Guests :
            hostEnd'[g] = IF joined[g] \in closed /\ hostEnd[g] = "open"
                          THEN "closed" ELSE hostEnd[g]
      /\ hostEnd' \in [Guests -> {"none", "dialed", "open", "closed"}]
  BY <1>1
<1>4. \A g \in Guests : g \in UNION {ConnectionsOf(i) : i \in closed \cup cancelled} <=>
            joined[g] \in closed \cup cancelled /\ hostEnd[g] \in {"dialed", "open"}
  OBVIOUS
<1>5. cut' \subseteq Guests
  OBVIOUS
<1>. QED BY <1>2, <1>3, <1>4, <1>5

\* Peer mode offers an invite.
LEMMA SelectPeerStep ==
    ASSUME InviteInv, SelectPeer
    PROVE  InviteInv'
<1>. USE InviteAssumption DEF InviteInv, TypeOK, Invites, NoInvite, MaybeGuest, Modes,
                              hostVars, guestVars, SelectPeer
<1>1. TypeOK' OBVIOUS
<1>2. FollowsOne' BY DEF FollowsOne
<1>3. LinksKnown' BY DEF LinksKnown, FollowsOne, NeverMet
<1>4. TimersOfStale' BY DEF TimersOfStale, NeverMet
<1>5. RemoteIsOpen' /\ CanInvite' BY DEF RemoteIsOpen, CanInvite, TimersOfStale
<1>6. ASSUME Calm' PROVE HandleHolds'
  BY <1>6 DEF Calm, HandleHolds, Waits, NeverMet, LinksKnown, FollowsOne, TimersOfStale,
              RemoteIsOpen, CanInvite
<1>. QED BY <1>1, <1>2, <1>3, <1>4, <1>5, <1>6

\* A new invite is the only one: the one before has been closed or cancelled.
LEMMA ClickInviteStep ==
    ASSUME InviteInv, ClickInvite
    PROVE  InviteInv'
<1>. USE InviteAssumption DEF InviteInv, TypeOK, Invites, NoInvite, MaybeGuest, Modes,
                              hostVars, guestVars, ClickInvite
<1>1. TypeOK' BY ZenonT(30)
<1>2. FollowsOne' BY DEF FollowsOne
<1>3. LinksKnown' BY DEF LinksKnown, FollowsOne, NeverMet
<1>4. TimersOfStale' BY DEF TimersOfStale, NeverMet
<1>5. RemoteIsOpen' /\ CanInvite' BY DEF RemoteIsOpen, CanInvite, TimersOfStale
<1>6. ASSUME Calm' PROVE HandleHolds'
  BY <1>6 DEF Calm, HandleHolds, Waits, NeverMet, LinksKnown, FollowsOne, TimersOfStale,
              RemoteIsOpen, CanInvite
<1>. QED BY <1>1, <1>2, <1>3, <1>4, <1>5, <1>6

\* The broker knows the Peer.
LEMMA PeerOpenStep ==
    ASSUME InviteInv, NEW i \in Invites, PeerOpen(i)
    PROVE  InviteInv'
<1>. USE InviteAssumption DEF InviteInv, TypeOK, Invites, NoInvite, MaybeGuest, Modes,
                              hostVars, guestVars, PeerOpen
<1>1. TypeOK' OBVIOUS
<1>2. FollowsOne' BY DEF FollowsOne
<1>3. LinksKnown' BY DEF LinksKnown, FollowsOne, NeverMet
<1>4. TimersOfStale' BY DEF TimersOfStale, NeverMet
<1>5. RemoteIsOpen' /\ CanInvite' BY DEF RemoteIsOpen, CanInvite, TimersOfStale
<1>6. ASSUME Calm' PROVE HandleHolds'
  BY <1>6 DEF Calm, HandleHolds, Waits, NeverMet, LinksKnown, FollowsOne, TimersOfStale,
              RemoteIsOpen, CanInvite
<1>. QED BY <1>1, <1>2, <1>3, <1>4, <1>5, <1>6

\* The broker refuses the Peer.
LEMMA PeerErrorStep ==
    ASSUME InviteInv, NEW i \in Invites, PeerError(i)
    PROVE  InviteInv'
<1>. USE InviteAssumption DEF InviteInv, TypeOK, Invites, NoInvite, MaybeGuest, Modes,
                              hostVars, guestVars, PeerError
<1>1. TypeOK' OBVIOUS
<1>2. FollowsOne' BY DEF FollowsOne
<1>3. LinksKnown' BY DEF LinksKnown, FollowsOne, NeverMet
<1>4. TimersOfStale' BY DEF TimersOfStale, NeverMet
<1>5. RemoteIsOpen' /\ CanInvite' BY DEF RemoteIsOpen, CanInvite, TimersOfStale
<1>6. ASSUME Calm' PROVE HandleHolds'
  BY <1>6 DEF Calm, HandleHolds, Waits, NeverMet, LinksKnown, FollowsOne, TimersOfStale,
              RemoteIsOpen, CanInvite
<1>. QED BY <1>1, <1>2, <1>3, <1>4, <1>5, <1>6

\* A guest dials.
LEMMA ConnectionStep ==
    ASSUME InviteInv, NEW g \in Guests, Connection(g)
    PROVE  InviteInv'
<1>. USE InviteAssumption DEF InviteInv, TypeOK, Invites, NoInvite, MaybeGuest, Modes,
                              hostVars, guestVars, Connection
<1>1. TypeOK' OBVIOUS
<1>2. FollowsOne' BY DEF FollowsOne
<1>3. LinksKnown' BY DEF LinksKnown, FollowsOne, NeverMet
<1>4. TimersOfStale' BY DEF TimersOfStale, NeverMet
<1>5. RemoteIsOpen' /\ CanInvite' BY DEF RemoteIsOpen, CanInvite, TimersOfStale
<1>6. ASSUME Calm' PROVE HandleHolds'
  <2>1. Calm BY <1>6 DEF Calm, NeverMet
  <2>2. HandleHolds BY <2>1
  <2>. QED BY <2>2 DEF HandleHolds, Waits
<1>. QED BY <1>1, <1>2, <1>3, <1>4, <1>5, <1>6

\* A connection that opens is one of the handle's invite.
LEMMA HostOpenStep ==
    ASSUME InviteInv, NEW g \in Guests, HostOpen(g)
    PROVE  InviteInv'
<1>. USE InviteAssumption DEF InviteInv, TypeOK, Invites, NoInvite, MaybeGuest, Modes,
                              hostVars, guestVars, HostOpen, NeverMet
<1>0. /\ host.mode \in Modes /\ host.handle \in Invites \cup {NoInvite}
      /\ host.offered \in BOOLEAN /\ host.inviting \in BOOLEAN /\ host.remote \in MaybeGuest
      /\ host'.mode = host.mode /\ host'.handle = host.handle /\ host'.inviting = FALSE
      /\ g \in Stale => host'.offered = TRUE /\ host'.remote = host.remote
      /\ g \notin Stale => host'.offered = host.offered /\ host'.remote = g
  BY ZenonT(30)
<1>1. TypeOK'
  <2>1. host' \in [mode : Modes, remote : MaybeGuest, handle : Invites \cup {NoInvite},
                   offered : BOOLEAN, inviting : BOOLEAN]
    <3>1. CASE g \in Stale BY <3>1, ZenonT(30)
    <3>2. CASE g \notin Stale BY <3>2, ZenonT(30)
    <3>. QED BY <3>1, <3>2
  <2>2. closing' \subseteq Guests OBVIOUS
  <2>3. hostEnd' \in [Guests -> {"none", "dialed", "open", "closed"}] OBVIOUS
  <2>4. link' \in [Invites -> MaybeGuest] OBVIOUS
  <2>. QED BY <2>1, <2>2, <2>3, <2>4
<1>2. FollowsOne' BY DEF FollowsOne
<1>3. LinksKnown' BY DEF LinksKnown, FollowsOne, NeverMet
<1>4. TimersOfStale' BY DEF TimersOfStale, NeverMet
<1>5. RemoteIsOpen' /\ CanInvite'
  <2>1. CASE g \in Stale BY <1>0, <2>1 DEF RemoteIsOpen, CanInvite
  <2>2. CASE g \notin Stale BY <1>0, <2>2 DEF RemoteIsOpen, CanInvite
  <2>. QED BY <2>1, <2>2
<1>6. ASSUME Calm' PROVE HandleHolds'
  <2>1. Calm BY <1>6 DEF Calm, NeverMet
  <2>2. HandleHolds BY <2>1
  <2>3. g \notin Stale BY <1>6 DEF Calm, NeverMet
  <2>4. /\ host' = [host EXCEPT !.inviting = FALSE, !.remote = g]
        /\ g # NoGuest /\ UNCHANGED <<peers, joined>>
    BY <2>3
  <2>5. joined[g] \in Invites /\ Waits(joined[g])
    BY DEF FollowsOne, LinksKnown, Waits
  <2>6. joined[g] = host.handle /\ host.mode = "peer" /\ ~host.offered
    BY <2>2, <2>5 DEF HandleHolds
  <2>. QED BY <2>2, <2>4, <2>6 DEF HandleHolds, Waits
<1>. QED BY <1>1, <1>2, <1>3, <1>4, <1>5, <1>6

\* A guest follows a link.
LEMMA FollowLinkStep ==
    ASSUME InviteInv, NEW g \in Guests, FollowLink(g)
    PROVE  InviteInv'
<1>. USE InviteAssumption DEF InviteInv, TypeOK, Invites, NoInvite, MaybeGuest, Modes,
                              hostVars, guestVars, FollowLink
<1>1. TypeOK' OBVIOUS
<1>2. FollowsOne' BY DEF FollowsOne
<1>3. LinksKnown' BY DEF LinksKnown, FollowsOne, NeverMet
<1>4. TimersOfStale' BY DEF TimersOfStale, NeverMet
<1>5. RemoteIsOpen' /\ CanInvite' BY DEF RemoteIsOpen, CanInvite, TimersOfStale
<1>6. ASSUME Calm' PROVE HandleHolds'
  BY <1>6 DEF Calm, HandleHolds, Waits, NeverMet, LinksKnown, FollowsOne, TimersOfStale,
              RemoteIsOpen, CanInvite
<1>. QED BY <1>1, <1>2, <1>3, <1>4, <1>5, <1>6

\* Local mode leaves no Peer behind: the session's, or else the invite's, is destroyed.
LEMMA SelectLocalStep ==
    ASSUME InviteInv, SelectLocal
    PROVE  InviteInv'
<1>. USE InviteAssumption DEF InviteInv, TypeOK, Invites, NoInvite, MaybeGuest, Modes,
                              hostVars, guestVars, SelectLocal,
                              OnClose, NeverMet
<1>. DEFINE closed == IF host.remote = NoGuest THEN {} ELSE {joined[host.remote]}
<1>0. Destroys(closed, Cancelled)
  <2>1. closed \in SUBSET Invites /\ Cancelled \in SUBSET Invites
    BY DEF RemoteIsOpen, FollowsOne, Cancelled
  <2>. QED BY <2>1, Destroyed
<1>. USE DEF Destroys
<1>1. TypeOK' BY <1>0
<1>2. FollowsOne' BY <1>0 DEF FollowsOne
<1>3. LinksKnown' BY <1>0 DEF LinksKnown, FollowsOne, NeverMet, Cancelled
<1>4. TimersOfStale' BY <1>0 DEF TimersOfStale, NeverMet
<1>5. RemoteIsOpen' /\ CanInvite' BY <1>0 DEF RemoteIsOpen, CanInvite, TimersOfStale
<1>6. ASSUME Calm' PROVE HandleHolds'
  <2>1. Calm BY <1>0, <1>6 DEF Calm, NeverMet
  <2>2. HandleHolds BY <2>1
  <2>3. host'.mode = "local" /\ host'.remote = NoGuest /\ host'.handle = NoInvite
    OBVIOUS
  <2>4. \A i \in Invites : ~Waits(i)'
    <3>1. SUFFICES ASSUME NEW i \in Invites, Waits(i) PROVE peers'[i] = "gone"
      BY <1>0 DEF Waits
    <3>2. i = host.handle BY <2>2, <3>1 DEF HandleHolds
    <3>3. i \in closed \cup Cancelled
      BY <2>2, <3>1, <3>2 DEF HandleHolds, Waits, Cancelled
    <3>. QED BY <1>0, <3>3
  <2>. QED BY <2>3, <2>4 DEF HandleHolds
<1>. QED BY <1>1, <1>2, <1>3, <1>4, <1>5, <1>6

\* So does a cancel.
LEMMA ClickCancelStep ==
    ASSUME InviteInv, ClickCancel
    PROVE  InviteInv'
<1>. USE InviteAssumption DEF InviteInv, TypeOK, Invites, NoInvite, MaybeGuest, Modes,
                              hostVars, guestVars, ClickCancel
<1>0. Destroys({}, Cancelled)
  <2>1. {} \in SUBSET Invites /\ Cancelled \in SUBSET Invites
    BY DEF Cancelled
  <2>. QED BY <2>1, Destroyed
<1>. USE DEF Destroys
<1>1. TypeOK' BY <1>0
<1>2. FollowsOne' BY <1>0 DEF FollowsOne
<1>3. LinksKnown' BY <1>0 DEF LinksKnown, FollowsOne, NeverMet, Cancelled
<1>4. TimersOfStale' BY <1>0 DEF TimersOfStale, NeverMet
<1>5. RemoteIsOpen' /\ CanInvite' BY <1>0 DEF RemoteIsOpen, CanInvite, TimersOfStale
<1>6. ASSUME Calm' PROVE HandleHolds'
  BY <1>0, <1>6, SMTT(30) DEF Cancelled, Calm, HandleHolds, Waits, NeverMet, LinksKnown, FollowsOne, TimersOfStale,
              RemoteIsOpen, CanInvite
<1>. QED BY <1>1, <1>2, <1>3, <1>4, <1>5, <1>6

\* A disconnect destroys the Peer of the handle.
LEMMA ClickDisconnectStep ==
    ASSUME InviteInv, ClickDisconnect
    PROVE  InviteInv'
<1>. USE InviteAssumption DEF InviteInv, TypeOK, Invites, NoInvite, MaybeGuest, Modes,
                              hostVars, guestVars, ClickDisconnect,
                              OnClose, NeverMet
<1>0. Destroys({joined[host.remote]}, {})
  <2>1. {joined[host.remote]} \in SUBSET Invites /\ {} \in SUBSET Invites
    BY DEF RemoteIsOpen, FollowsOne
  <2>. QED BY <2>1, Destroyed DEF CloseLink
<1>. USE DEF Destroys
<1>1. TypeOK' BY <1>0
<1>2. FollowsOne' BY <1>0 DEF FollowsOne
<1>3. LinksKnown' BY <1>0 DEF LinksKnown, FollowsOne, NeverMet
<1>4. TimersOfStale' BY <1>0 DEF TimersOfStale, NeverMet
<1>5. RemoteIsOpen' /\ CanInvite' BY <1>0 DEF RemoteIsOpen, CanInvite, TimersOfStale
<1>6. ASSUME Calm' PROVE HandleHolds'
  <2>1. Calm BY <1>0, <1>6 DEF Calm, NeverMet
  <2>2. HandleHolds BY <2>1
  <2>3. host.remote \in Guests /\ joined[host.remote] = host.handle
    BY <2>2 DEF HandleHolds
  <2>4. /\ \A i \in Invites : peers'[i] = IF i = host.handle THEN "gone" ELSE peers[i]
        /\ host'.remote = NoGuest /\ host'.handle = host.handle /\ host.handle \in Invites
    BY <1>0, <2>3 DEF FollowsOne, RemoteIsOpen
  <2>5. \A i \in Invites : ~Waits(i)' BY <2>2, <2>4 DEF HandleHolds, Waits
  <2>. QED BY <2>4, <2>5 DEF HandleHolds
<1>. QED BY <1>1, <1>2, <1>3, <1>4, <1>5, <1>6

\* A refused guest's link is not the session's, but another guest's on its Peer is.
LEMMA CloseTimerStep ==
    ASSUME InviteInv, NEW g \in Guests, CloseTimer(g)
    PROVE  InviteInv'
<1>. USE InviteAssumption DEF InviteInv, TypeOK, Invites, NoInvite, MaybeGuest, Modes,
                              hostVars, guestVars, CloseTimer,
                              OnClose, NeverMet
<1>0. Destroys({joined[g]}, {})
  <2>1. {joined[g]} \in SUBSET Invites /\ {} \in SUBSET Invites
    BY DEF FollowsOne, TimersOfStale, NeverMet
  <2>. QED BY <2>1, Destroyed DEF CloseLink
<1>. USE DEF Destroys
<1>1. TypeOK' BY <1>0
<1>2. FollowsOne' BY <1>0 DEF FollowsOne
<1>3. LinksKnown' BY <1>0 DEF LinksKnown, FollowsOne, NeverMet
<1>4. TimersOfStale' BY <1>0 DEF TimersOfStale, NeverMet
<1>5. RemoteIsOpen' /\ CanInvite'
  <2>1. CASE OpenOn(joined[g]) \ {g} = {}
    <3>1. host' = host BY <2>1
    <3>2. host.remote # NoGuest => host.remote \notin OpenOn(joined[g])
      BY <2>1 DEF RemoteIsOpen, TimersOfStale
    <3>3. host.remote # NoGuest => joined[host.remote] # joined[g]
      BY <3>2 DEF RemoteIsOpen, OpenOn, ConnectionsOf
    <3>4. host.remote # NoGuest => hostEnd'[host.remote] = "open"
      BY <1>0, <3>3 DEF RemoteIsOpen
    <3>. QED BY <3>1, <3>4 DEF RemoteIsOpen, CanInvite
  <2>2. CASE OpenOn(joined[g]) \ {g} # {}
    <3>1. host' = OnClose(host) BY <2>2
    <3>2. CASE host.remote = NoGuest BY <3>1, <3>2 DEF RemoteIsOpen, CanInvite
    <3>3. CASE host.remote # NoGuest
      <4>1. host' = [host EXCEPT !.remote = NoGuest, !.offered = @ \/ host.mode = "peer"]
        BY <3>1, <3>3
      <4>2. host'.remote = NoGuest /\ host'.mode = host.mode
            /\ (host.mode = "peer" => host'.offered)
        BY <4>1
      <4>. QED BY <4>2 DEF RemoteIsOpen, CanInvite
    <3>. QED BY <3>2, <3>3
  <2>. QED BY <2>1, <2>2
<1>6. ASSUME Calm' PROVE HandleHolds'
  BY <1>0, <1>6 DEF Calm, HandleHolds, Waits, NeverMet, LinksKnown, FollowsOne, TimersOfStale,
              RemoteIsOpen, CanInvite
<1>. QED BY <1>1, <1>2, <1>3, <1>4, <1>5, <1>6

\* While no guest has been refused, a close is one of the handle's invite.
LEMMA HostCloseStep ==
    ASSUME InviteInv, NEW g \in Guests, HostClose(g)
    PROVE  InviteInv'
<1>. USE InviteAssumption DEF InviteInv, TypeOK, Invites, NoInvite, MaybeGuest, Modes,
                              hostVars, guestVars, HostClose,
                              OnClose, NeverMet
<1>0. Destroys({joined[g]}, {})
  <2>1. {joined[g]} \in SUBSET Invites /\ {} \in SUBSET Invites
    BY DEF FollowsOne
  <2>. QED BY <2>1, Destroyed DEF CloseLink
<1>. USE DEF Destroys
<1>1. TypeOK' BY <1>0
<1>2. FollowsOne' BY <1>0 DEF FollowsOne
<1>3. LinksKnown' BY <1>0 DEF LinksKnown, FollowsOne, NeverMet
<1>4. TimersOfStale' BY <1>0 DEF TimersOfStale, NeverMet
<1>5. RemoteIsOpen' /\ CanInvite' BY <1>0 DEF RemoteIsOpen, CanInvite, TimersOfStale
<1>6. ASSUME Calm' PROVE HandleHolds'
  <2>1. Calm BY <1>0, <1>6 DEF Calm, NeverMet
  <2>2. HandleHolds BY <2>1
  <2>3. joined[g] \in Invites /\ Waits(joined[g])
    BY DEF FollowsOne, LinksKnown, Waits
  <2>4. joined[g] = host.handle BY <2>2, <2>3 DEF HandleHolds
  <2>5. /\ \A i \in Invites : peers'[i] = IF i = host.handle THEN "gone" ELSE peers[i]
        /\ host'.remote = NoGuest /\ host'.handle = host.handle /\ host.handle \in Invites
    BY <1>0, <2>3, <2>4
  <2>6. \A i \in Invites : ~Waits(i)' BY <2>2, <2>5 DEF HandleHolds, Waits
  <2>. QED BY <2>5, <2>6 DEF HandleHolds
<1>. QED BY <1>1, <1>2, <1>3, <1>4, <1>5, <1>6

\* What a guest's page does on its own, or the network to it, does not concern the host.
LEMMA GuestStep ==
    ASSUME InviteInv, UNCHANGED <<hostVars, hostEnd, joined>>,
           guest' \in [Guests -> {"away", "gate", "connecting", "connected", "left"}],
           mode' \in [Guests -> Modes], cut' \subseteq Guests, cut \subseteq cut',
           \A g \in Guests : /\ guest'[g] = "away" <=> guest[g] = "away"
                             /\ guest'[g] = "gate" => guest[g] = "gate"
    PROVE  InviteInv'
<1>. USE DEF InviteInv, hostVars
<1>1. TypeOK' BY DEF TypeOK
<1>2. FollowsOne' BY DEF FollowsOne
<1>3. LinksKnown' BY DEF LinksKnown, NeverMet
<1>4. TimersOfStale' BY DEF TimersOfStale, NeverMet
<1>5. RemoteIsOpen' /\ CanInvite' BY DEF RemoteIsOpen, CanInvite
<1>6. Calm' => HandleHolds' BY DEF Calm, HandleHolds, Waits, NeverMet
<1>. QED BY <1>1, <1>2, <1>3, <1>4, <1>5, <1>6

\* The steps of which this is true.
LEMMA GuestSteps ==
    ASSUME InviteInv, NEW g \in Guests,
           \/ ConfirmJoin(g) \/ CancelJoin(g) \/ PeerUnavailable(g) \/ GuestOpen(g)
           \/ GuestSelectsLocal(g) \/ GuestDisconnects(g) \/ GuestClose(g) \/ Break(g)
    PROVE  InviteInv'
<1>1. /\ guest \in [Guests -> {"away", "gate", "connecting", "connected", "left"}]
      /\ mode \in [Guests -> Modes] /\ cut \subseteq Guests
  BY DEF InviteInv, TypeOK
<1>. USE <1>1, GuestStep DEF Modes, guestVars
<1>2. CASE ConfirmJoin(g) BY <1>2 DEF ConfirmJoin
<1>3. CASE CancelJoin(g) BY <1>3 DEF CancelJoin
<1>4. CASE PeerUnavailable(g) BY <1>4 DEF PeerUnavailable
<1>5. CASE GuestOpen(g) BY <1>5 DEF GuestOpen
<1>6. CASE GuestSelectsLocal(g) BY <1>6 DEF GuestSelectsLocal
<1>7. CASE GuestDisconnects(g) BY <1>7 DEF GuestDisconnects
<1>8. CASE GuestClose(g) BY <1>8 DEF GuestClose
<1>9. CASE Break(g) BY <1>9 DEF Break
<1>. QED BY <1>2, <1>3, <1>4, <1>5, <1>6, <1>7, <1>8, <1>9

-----------------------------------------------------------------------------
(* The theorems.                                                           *)

\* It holds at first.
LEMMA InviteInit == Init => InviteInv
<1>. USE InviteAssumption DEF Init
<1>1. Init => TypeOK BY DEF TypeOK, Modes, MaybeGuest, Invites, NoInvite
<1>2. Init => FollowsOne /\ LinksKnown /\ TimersOfStale
  BY DEF FollowsOne, LinksKnown, TimersOfStale, NoInvite
<1>3. Init => RemoteIsOpen /\ CanInvite /\ HandleHolds
  BY DEF RemoteIsOpen, CanInvite, HandleHolds, Waits
<1>. QED BY <1>1, <1>2, <1>3 DEF InviteInv

\* Each step keeps the invariant.
LEMMA InviteNext == InviteInv /\ [Next]_vars => InviteInv'
<1>1. SUFFICES ASSUME InviteInv, [Next]_vars PROVE InviteInv' OBVIOUS
<1>2. CASE UNCHANGED vars
  BY <1>1, <1>2
     DEF InviteInv, TypeOK, FollowsOne, LinksKnown, TimersOfStale, RemoteIsOpen, CanInvite,
         HandleHolds, Calm, NeverMet, Waits, vars, hostVars, guestVars
<1>3. CASE HostUser
  BY <1>1, <1>3, SelectPeerStep, SelectLocalStep, ClickInviteStep, ClickCancelStep,
     ClickDisconnectStep DEF HostUser
<1>4. ASSUME NEW i \in Invites, PeerOpen(i) \/ PeerError(i) PROVE InviteInv'
  BY <1>1, <1>4, PeerOpenStep, PeerErrorStep
<1>5. ASSUME NEW g \in Guests, GuestUser(g) \/ HostEvent(g) \/ GuestEvent(g) \/ Break(g)
      PROVE  InviteInv'
  BY <1>1, <1>5, FollowLinkStep, ConnectionStep, HostOpenStep, CloseTimerStep,
     HostCloseStep, GuestSteps DEF GuestUser, HostEvent, GuestEvent
<1>. QED BY <1>1, <1>2, <1>3, <1>4, <1>5 DEF Next

\* The invariant, of every behaviour.
LEMMA InviteInvHolds == Spec => []InviteInv
BY InviteInit, InviteNext, PTL DEF Spec

\* Type correctness (Invite).
THEOREM InviteTypeCorrect == Spec => []TypeOK
<1>1. InviteInv => TypeOK BY DEF InviteInv
<1>. QED BY <1>1, InviteInvHolds, PTL

\* The session's link is open and of a guest of the same deploy, however many guests
\* dial, are refused or vanish (hostInvite, setHost, onClose).
THEOREM RemoteIsOpenHolds == Spec => []RemoteIsOpen
<1>1. InviteInv => RemoteIsOpen BY DEF InviteInv
<1>. QED BY <1>1, InviteInvHolds, PTL

\* A host in peer mode that has no peer can get one (control pane).
THEOREM CanInviteHolds == Spec => []CanInvite
<1>1. InviteInv => CanInvite BY DEF InviteInv
<1>. QED BY <1>1, InviteInvHolds, PTL

\* A host in local mode has no peer and no way to get one, since no Peer of an
\* invite outlives its handle (selectMode, hostInvite's cancel).
THEOREM HostAloneHolds == Spec => []HostAlone
<1>1. InviteInv => HostAlone
  <2>1. SUFFICES ASSUME InviteInv, Calm, host.remote # NoGuest, host.mode = "local"
                 PROVE  FALSE
    BY DEF HostAlone, Calm
  <2>2. host.remote \in Guests /\ hostEnd[host.remote] = "open"
    BY <2>1 DEF InviteInv, TypeOK, MaybeGuest, RemoteIsOpen
  <2>3. joined[host.remote] \in Invites /\ Waits(joined[host.remote])
    BY <2>1, <2>2 DEF InviteInv, TypeOK, FollowsOne, LinksKnown, Waits
  <2>. QED BY <2>1, <2>3 DEF InviteInv, HandleHolds
<1>. QED BY <1>1, InviteInvHolds, PTL

-----------------------------------------------------------------------------
(* Heartbeat.                                                              *)

\* The inductive invariant.  An interval fires a period after the last check at the
\* latest, and the check leaves nothing on the table that was then too old.
Due ==
    \A t \in timers :
        /\ now <= t.due + Jitter
        /\ t.due <= now + Period
        /\ shown # Offline => t.due <= lastPongAt + Patience + Period

\* A ping in flight has been sent.
Sent == \A l \in Links : \A i \in DOMAIN flight[l] : flight[l][i] <= now

PingInv == PingTypeOK /\ OneInterval /\ pingTimer = remote /\ Due /\ Sent

\* The constants are numbers.
LEMMA PingConstants ==
    /\ Period \in Nat /\ Patience \in Nat /\ Jitter \in Nat /\ Trip \in Nat
    /\ MaxTime \in Nat /\ MaxLinks \in Nat
  BY PingAssumption

\* The page opens without a link, an interval or a ping.
LEMMA PingStarts == PingInit => PingInv
<1> SUFFICES ASSUME PingInit PROVE PingInv
  OBVIOUS
<1> USE DEF PingInit
<1>1. flight \in [Links -> Seq(Times)]
  BY PingConstants DEF Times
<1>2. PingTypeOK
  BY <1>1, PingConstants DEF PingTypeOK, Times, Offline
<1>3. OneInterval
  BY DEF OneInterval
<1> QED
  BY <1>2, <1>3 DEF PingInv, Due, Sent

\* With the session's link, or none, the intervals that StopPing leaves are none.
LEMMA Stopped == PingInv => StopPing(timers) = {}
  BY DEF PingInv, OneInterval, StopPing

\* A new link's interval is the only one, and its clock starts now.
LEMMA OpenInv == PingInv /\ Open => PingInv'
<1> SUFFICES ASSUME PingInv, Open PROVE PingInv'
  OBVIOUS
<1> USE PingConstants
<1> DEFINE l == opened + 1
<1>1. /\ l \in Links /\ opened' = l /\ remote' = l /\ pingTimer' = l
      /\ now' = now /\ lastPongAt' = now /\ shown' = Offline
      /\ timers' = {NewTimer(l)}
  BY Stopped DEF Open, Started
<1>2. flight' \in [Links -> Seq(Times)]
  <2>1. <<now>> \in Seq(Times)
    BY DEF PingInv, PingTypeOK
  <2> QED
    BY <2>1 DEF Open, PingInv, PingTypeOK
<1>3. NewTimer(l) \in [of : Links, due : Nat] /\ NewTimer(l).of = l
      /\ NewTimer(l).due = now + Period
  BY <1>1 DEF NewTimer, PingInv, PingTypeOK, Times
<1>4. PingTypeOK'
  BY <1>1, <1>2, <1>3 DEF Open, PingInv, PingTypeOK, Links, Times
<1>5. OneInterval'
  BY <1>1, <1>3 DEF OneInterval, Links, NoLink
<1>6. Due'
  BY <1>1, <1>3 DEF Due, PingInv, PingTypeOK, Times
<1>7. Sent'
  BY <1>1 DEF Open, PingInv, PingTypeOK, Sent, Times
<1> QED
  BY <1>1, <1>4, <1>5, <1>6, <1>7 DEF PingInv

\* A link that closes takes the session and its interval with it.
LEMMA CloseInv == \A l \in Links : PingInv /\ Close(l) => PingInv'
<1> SUFFICES ASSUME NEW l \in Links, PingInv, Close(l) PROVE PingInv'
  OBVIOUS
<1>1. flight' \in [Links -> Seq(Times)]
  <2>1. <<>> \in Seq(Times)
    OBVIOUS
  <2> QED
    BY <2>1 DEF Close, PingInv, PingTypeOK
<1>s. Sent'
  BY DEF Close, PingInv, PingTypeOK, Sent
<1>2. CASE remote = NoLink
  <2>1. UNCHANGED <<now, remote, timers, pingTimer, shown, lastPongAt>>
    BY <1>2 DEF Close, Closed
  <2>2. PingTypeOK'
    BY <1>1, <2>1 DEF Close, PingInv, PingTypeOK
  <2> QED
    BY <1>s, <2>1, <2>2 DEF PingInv, OneInterval, Due
<1>3. CASE remote # NoLink
  <2>1. /\ remote' = NoLink /\ pingTimer' = NoLink /\ shown' = Offline
        /\ timers' = {} /\ UNCHANGED <<now, lastPongAt>>
    BY <1>3, Stopped DEF Close, Closed
  <2>2. PingTypeOK'
    BY <1>1, <2>1 DEF Close, PingInv, PingTypeOK
  <2> QED
    BY <1>s, <2>1, <2>2 DEF PingInv, OneInterval, Due
<1> QED
  BY <1>2, <1>3

\* An interval that fires looks at the clock and is set again.
LEMMA TickInv == \A t \in timers : PingInv /\ Tick(t) => PingInv'
<1> SUFFICES ASSUME NEW t \in timers, PingInv, Tick(t) PROVE PingInv'
  OBVIOUS
<1> USE PingConstants
<1> DEFINE u == [t EXCEPT !.due = now + Period]
<1>1. t.of = remote /\ remote \in Links /\ timers = {t} /\ t \in [of : Links, due : Nat]
  BY DEF PingInv, OneInterval, PingTypeOK
<1>n. now \in Nat /\ lastPongAt \in Nat
  BY DEF PingInv, PingTypeOK, Times
<1>2. u \in [of : Links, due : Nat] /\ u.of = remote /\ u.due = now + Period
  BY <1>1, <1>n
<1>3. /\ timers' = {u} /\ UNCHANGED <<now, remote, pingTimer, lastPongAt>>
      /\ shown' = IF now - lastPongAt > Patience THEN Offline ELSE shown
  BY <1>1 DEF Tick, Fired
<1>4. flight' \in [Links -> Seq(Times)]
  <2>1. Append(flight[remote], now) \in Seq(Times)
    BY <1>1 DEF PingInv, PingTypeOK
  <2> QED
    BY <1>1, <2>1 DEF Tick, PingInv, PingTypeOK
<1>5. PingTypeOK'
  BY <1>2, <1>3, <1>4 DEF Tick, PingInv, PingTypeOK
<1>6. OneInterval'
  BY <1>1, <1>2, <1>3 DEF OneInterval, Links, NoLink
<1>7. Due'
  <2> HIDE DEF u
  <2> QED
    BY <1>2, <1>3, <1>n DEF Due
<1>8. Sent'
  <2>1. flight \in [Links -> Seq(Times)] /\ flight' =
          [flight EXCEPT ![remote] = IF remote \in alive THEN Append(@, now) ELSE @]
    BY <1>1 DEF Tick, PingInv, PingTypeOK
  <2>2. Sent
    BY DEF PingInv
  <2> QED
    BY <1>1, <1>3, <1>n, <2>1, <2>2 DEF Sent
<1> QED
  BY <1>3, <1>5, <1>6, <1>7, <1>8 DEF PingInv

\* A pong renews what is shown.
LEMMA PongInv == \A l \in Links : PingInv /\ Pong(l) => PingInv'
<1> SUFFICES ASSUME NEW l \in Links, PingInv, Pong(l) PROVE PingInv'
  OBVIOUS
<1> USE PingConstants
<1>1. /\ UNCHANGED <<now, remote, timers, pingTimer>> /\ lastPongAt' = now
      /\ shown' = now - Head(flight[l])
  BY DEF Pong, session
<1>2. /\ flight[l] \in Seq(Times) /\ flight[l] # <<>>
      /\ flight' = [flight EXCEPT ![l] = Tail(@)]
  BY DEF Pong, PingInv, PingTypeOK
<1>3. Head(flight[l]) \in Times /\ Head(flight[l]) <= now /\ Tail(flight[l]) \in Seq(Times)
  BY <1>2 DEF PingInv, Sent
<1>4. shown' \in Times
  BY <1>1, <1>3 DEF PingInv, PingTypeOK, Times
<1>5. PingTypeOK'
  BY <1>1, <1>2, <1>3, <1>4 DEF Pong, session, PingInv, PingTypeOK
<1>6. Sent'
  BY <1>1, <1>2 DEF PingInv, PingTypeOK, Sent
<1>7. OneInterval'
  BY <1>1 DEF PingInv, OneInterval
<1>8. Due'
  BY <1>1 DEF PingInv, PingTypeOK, Due, Times
<1> QED
  BY <1>1, <1>5, <1>6, <1>7, <1>8 DEF PingInv

\* The clock never passes an interval's jitter.
LEMMA ElapseInv == PingInv /\ Elapse => PingInv'
<1> SUFFICES ASSUME PingInv, Elapse PROVE PingInv'
  OBVIOUS
<1> USE PingConstants
<1>1. /\ now' = now + 1 /\ UNCHANGED <<session, table, flight, lookups, silent, patient>>
      /\ \A t \in timers : now < t.due + Jitter
  BY DEF Elapse
<1>2. PingTypeOK'
  BY <1>1 DEF Elapse, session, table, PingInv, PingTypeOK, Times
<1>3. Due'
  BY <1>1 DEF session, table, PingInv, PingTypeOK, Due, Times
<1>4. Sent'
  BY <1>1 DEF PingInv, PingTypeOK, Sent, Times
<1> QED
  BY <1>1, <1>2, <1>3, <1>4 DEF PingInv, OneInterval, session

\* The rest touches neither the clock nor the intervals.
LEMMA RestInv ==
    /\ \A q \in lookups : PingInv /\ (EndpointFound(q) \/ EndpointRetry(q)) => PingInv'
    /\ PingInv /\ Silence => PingInv'
    /\ PingInv /\ UNCHANGED pingVars => PingInv'
<1>1. ASSUME NEW q \in lookups, PingInv, EndpointFound(q) PROVE PingInv'
  BY <1>1 DEF EndpointFound, session, PingInv, PingTypeOK, OneInterval, Due, Sent
<1>2. ASSUME NEW q \in lookups, PingInv, EndpointRetry(q) PROVE PingInv'
  <2>1. q \in [of : Links, try : 1..2]
    BY <1>2 DEF PingInv, PingTypeOK
  <2>2. [q EXCEPT !.try = 2] \in [of : Links, try : 1..2]
    BY <2>1
  <2> QED
    BY <1>2, <2>2 DEF EndpointRetry, session, table, PingInv, PingTypeOK, OneInterval, Due, Sent
<1>3. ASSUME PingInv, Silence PROVE PingInv'
  BY <1>3 DEF Silence, session, table, PingInv, PingTypeOK, OneInterval, Due, Sent
<1>4. ASSUME PingInv, UNCHANGED pingVars PROVE PingInv'
  BY <1>4 DEF pingVars, session, table, PingInv, PingTypeOK, OneInterval, Due, Sent
<1> QED
  BY <1>1, <1>2, <1>3, <1>4

\* The invariant holds, and with it the types of the session and of the table.
THEOREM PingInvHolds == PingSpec => []PingInv
<1>1. PingInv /\ [PingNext]_pingVars => PingInv'
  BY OpenInv, CloseInv, TickInv, PongInv, ElapseInv, RestInv DEF PingNext
<1> QED
  BY PingStarts, <1>1, PTL DEF PingSpec

-----------------------------------------------------------------------------

\* A silent peer is shown offline within a patience, a period and a jitter of its
\* last pong (tick and startPing of remote-session.ts).
THEOREM SilenceShownHolds == PingSpec => []SilenceShown
<1>1. PingInv => SilenceShown
  <2> SUFFICES ASSUME PingInv, remote # NoLink, shown # Offline
               PROVE now - lastPongAt <= Patience + Period + Jitter
    BY DEF SilenceShown
  <2>1. PICK t \in timers : t.of = remote
    BY DEF PingInv, OneInterval
  <2> QED
    BY <2>1, PingConstants DEF PingInv, PingTypeOK, Due, Times
<1> QED
  BY PingInvHolds, <1>1, PTL

\* Only the interval of the session is set (startPing, stopPing and onClose).
THEOREM OneIntervalHolds == PingSpec => []OneInterval
<1>1. PingInv => OneInterval
  BY DEF PingInv
<1> QED
  BY PingInvHolds, <1>1, PTL

\* The address shown is the current peer's (beginPeerSession).
THEOREM InfoIsCurrentHolds == PingSpec => []InfoIsCurrent
<1>1. PingInit => InfoIsCurrent
  BY DEF PingInit, InfoIsCurrent
<1>2. PingInv /\ InfoIsCurrent /\ [PingNext]_pingVars => InfoIsCurrent'
  <2> SUFFICES ASSUME PingInv, InfoIsCurrent, [PingNext]_pingVars PROVE InfoIsCurrent'
    OBVIOUS
  <2> USE DEF InfoIsCurrent
  <2>1. CASE Open
    BY <2>1 DEF Open
  <2>2. ASSUME NEW l \in Links, Close(l) PROVE InfoIsCurrent'
    BY <2>2 DEF Close, Closed
  <2>3. ASSUME NEW l \in Links, Pong(l) PROVE InfoIsCurrent'
    BY <2>3 DEF Pong, session
  <2>4. ASSUME NEW t \in timers, Tick(t) PROVE InfoIsCurrent'
    BY <2>4 DEF Tick
  <2>5. ASSUME NEW q \in lookups, EndpointFound(q) PROVE InfoIsCurrent'
    BY <2>5 DEF EndpointFound, session
  <2>6. ASSUME NEW q \in lookups, EndpointRetry(q) PROVE InfoIsCurrent'
    BY <2>6 DEF EndpointRetry, session, table
  <2>7. CASE Silence
    BY <2>7 DEF Silence, session, table
  <2>8. CASE Elapse
    BY <2>8 DEF Elapse, session, table
  <2>9. CASE UNCHANGED pingVars
    BY <2>9 DEF pingVars, session, table
  <2> QED
    BY <2>1, <2>2, <2>3, <2>4, <2>5, <2>6, <2>7, <2>8, <2>9 DEF PingNext
<1> QED
  BY <1>1, <1>2, PingInvHolds, PTL DEF PingSpec

-----------------------------------------------------------------------------
(* A peer that always answers.                                             *)

\* The session's link is open, and is the newest but for a peer that fell silent.
Answering ==
    /\ remote # NoLink => remote \in alive
    /\ remote <= opened
    /\ \A l \in silent : l <= opened
    /\ patient => remote \notin silent

\* The pings f have no pong yet, at a time when the last pong was that of `last` and
\* the next ping is due: each was sent an interval after the one before, the first of
\* them an interval after the last pong, and its own pong is not overdue.
Steady(f, due, last, time) ==
    /\ f = <<>> => due <= last + Period
    /\ f # <<>> => /\ f[1] <= last + Period + Jitter
                   /\ time <= f[1] + Trip
                   /\ due = f[Len(f)] + Period
    /\ \A i \in DOMAIN f : f[i] <= time
    /\ \A i \in DOMAIN f : i > 1 => f[i - 1] <= f[i] /\ f[i] <= f[i - 1] + Period + Jitter

Quick ==
    /\ lastPongAt <= now
    /\ patient /\ remote # NoLink =>
          \A t \in timers : Steady(flight[remote], t.due, lastPongAt, now)

QuickInv == PingInv /\ Answering /\ Quick

LEMMA InitQuick == PingInit => QuickInv
<1> SUFFICES ASSUME PingInit PROVE Answering /\ Quick
  BY PingStarts DEF QuickInv
<1> QED
  BY DEF PingInit, Answering, Quick, NoLink

\* A new link starts with a ping.
LEMMA OpenQuick == QuickInv /\ Open => QuickInv'
<1> SUFFICES ASSUME QuickInv, Open PROVE Answering' /\ Quick'
  BY OpenInv DEF QuickInv
<1> USE PingConstants
<1> DEFINE l == opened + 1
<1>1. /\ l \in Links /\ opened' = l /\ remote' = l /\ alive' = alive \cup {l}
      /\ now' = now /\ lastPongAt' = now /\ silent' = silent
      /\ timers' = {NewTimer(l)} /\ NewTimer(l).due = now + Period
      /\ flight'[l] = <<now>>
  BY Stopped DEF Open, Started, NewTimer, QuickInv, PingInv, PingTypeOK
<1>2. Answering'
  <2>1. opened \in Nat /\ silent \subseteq Nat
    BY DEF QuickInv, PingInv, PingTypeOK, Links
  <2> QED
    BY <1>1, <2>1 DEF QuickInv, Answering
<1>3. now \in Nat
  BY DEF QuickInv, PingInv, PingTypeOK, Times
<1>4. Steady(<<now>>, now + Period, now, now)
  BY <1>3 DEF Steady
<1>5. \A t \in timers' : t.due = now + Period
  BY <1>1
<1>6. Quick'
  BY <1>1, <1>3, <1>4, <1>5 DEF Quick
<1> QED
  BY <1>2, <1>6

\* A link that closes ends the session.
LEMMA CloseQuick == \A l \in Links : QuickInv /\ Close(l) => QuickInv'
<1> SUFFICES ASSUME NEW l \in Links, QuickInv, Close(l) PROVE Answering' /\ Quick'
  BY CloseInv DEF QuickInv
<1>1. /\ remote' = NoLink
      /\ UNCHANGED <<now, opened, lastPongAt, silent, patient>>
  BY DEF Close, Closed
<1>2. \A s \in silent : s # NoLink
  BY DEF QuickInv, PingInv, PingTypeOK, Links, NoLink
<1>3. 0 <= opened
  BY DEF QuickInv, PingInv, PingTypeOK
<1> QED
  BY <1>1, <1>2, <1>3 DEF QuickInv, Answering, Quick, NoLink

\* One more ping is an interval after the last, or after the last pong.
LEMMA SteadyAppend ==
    ASSUME NEW f \in Seq(Nat), NEW due \in Nat, NEW last \in Nat, NEW time \in Nat,
           Steady(f, due, last, time), last <= time,
           due <= time, time <= due + Jitter
    PROVE  Steady(Append(f, time), time + Period, last, time)
<1> USE PingConstants
<1> DEFINE g == Append(f, time)
<1>1. CASE f = <<>>
  <2>1. g = <<time>>
    BY <1>1
  <2> HIDE DEF g
  <2> QED
    BY <1>1, <2>1 DEF Steady
<1>2. CASE f # <<>>
  <2>1. /\ Len(f) \in Nat /\ Len(f) > 0 /\ Len(g) = Len(f) + 1 /\ g # <<>>
        /\ DOMAIN f = 1..Len(f) /\ DOMAIN g = 1..(Len(f) + 1)
        /\ \A i \in 1..Len(f) : g[i] = f[i] /\ f[i] \in Nat
        /\ g[Len(f) + 1] = time
    BY <1>2
  <2> HIDE DEF g
  <2>2. time >= f[Len(f)] /\ time <= f[Len(f)] + Period + Jitter
    BY <1>2, <2>1 DEF Steady
  <2>3. \A i \in DOMAIN g : g[i] <= time
    BY <1>2, <2>1 DEF Steady
  <2>4. \A i \in DOMAIN g : i > 1 => g[i - 1] <= g[i] /\ g[i] <= g[i - 1] + Period + Jitter
    <3> SUFFICES ASSUME NEW i \in DOMAIN g, i > 1
                 PROVE  g[i - 1] <= g[i] /\ g[i] <= g[i - 1] + Period + Jitter
      OBVIOUS
    <3>1. CASE i = Len(f) + 1
      BY <2>1, <2>2, <3>1
    <3>2. CASE i \in 1..Len(f)
      BY <1>2, <2>1, <3>2 DEF Steady
    <3> QED
      BY <2>1, <3>1, <3>2
  <2>5. g[1] <= last + Period + Jitter /\ time <= g[1] + Trip
    BY <1>2, <2>1 DEF Steady
  <2>6. Steady(g, time + Period, last, time)
    BY <2>1, <2>3, <2>4, <2>5 DEF Steady
  <2> QED
    BY <2>6 DEF g
<1> QED
  BY <1>1, <1>2

\* A pong leaves pings that were sent later than the one it answers.
LEMMA SteadyTail ==
    ASSUME NEW f \in Seq(Nat), NEW due \in Nat, NEW last \in Nat, NEW time \in Nat,
           Steady(f, due, last, time), f # <<>>
    PROVE  Steady(Tail(f), due, time, time)
<1> USE PingConstants
<1> SUFFICES ASSUME NEW g, g = Tail(f) PROVE Steady(g, due, time, time)
  OBVIOUS
<1>1. /\ Len(f) \in Nat /\ Len(f) > 0 /\ g \in Seq(Nat) /\ Len(g) = Len(f) - 1
      /\ DOMAIN f = 1..Len(f) /\ DOMAIN g = 1..(Len(f) - 1)
      /\ \A i \in 1..(Len(f) - 1) : g[i] = f[i + 1]
      /\ \A i \in 1..Len(f) : f[i] \in Nat
  OBVIOUS
<1>2. g = <<>> <=> Len(f) = 1
  <2>1. ASSUME g = <<>> PROVE Len(f) = 1
    <3>1. Len(g) = 0
      BY <2>1, EmptySeq
    <3> QED
      BY <1>1, <3>1
  <2>2. ASSUME Len(f) = 1 PROVE g = <<>>
    <3>1. Len(g) = 0
      BY <1>1, <2>2
    <3> QED
      BY <1>1, <3>1, EmptySeq
  <2> QED
    BY <2>1, <2>2
<1>3. CASE Len(f) = 1
  BY <1>1, <1>2, <1>3 DEF Steady
<1>4. CASE Len(f) > 1
  <2>1. f[1] <= f[2] /\ f[2] <= time /\ g[1] = f[2] /\ g[Len(g)] = f[Len(f)]
    <3>1. 1 \in DOMAIN f /\ 2 \in DOMAIN f
      BY <1>1, <1>4
    <3>2. \A i \in DOMAIN f : i > 1 => f[i - 1] <= f[i] /\ f[i] <= time
      BY DEF Steady
    <3> QED
      BY <1>1, <1>4, <3>1, <3>2
  <2>2. ASSUME NEW i \in DOMAIN g
        PROVE  /\ i \in Nat /\ g[i] = f[i + 1] /\ i + 1 \in DOMAIN f
               /\ i > 1 => g[i - 1] = f[i]
    <3>1. i \in 1..(Len(f) - 1)
      BY <1>1
    <3>2. i > 1 => i - 1 \in 1..(Len(f) - 1) /\ (i - 1) + 1 = i
      BY <1>1, <3>1
    <3> QED
      BY <1>1, <3>1, <3>2
  <2>3. \A i \in DOMAIN g : i > 1 => g[i - 1] <= g[i] /\ g[i] <= g[i - 1] + Period + Jitter
    <3> SUFFICES ASSUME NEW i \in DOMAIN g, i > 1
                 PROVE  g[i - 1] <= g[i] /\ g[i] <= g[i - 1] + Period + Jitter
      OBVIOUS
    <3>1. i + 1 \in DOMAIN f /\ i + 1 > 1 /\ (i + 1) - 1 = i
      BY <2>2, SMTT(30)
    <3>2. f[(i + 1) - 1] <= f[i + 1] /\ f[i + 1] <= f[(i + 1) - 1] + Period + Jitter
      BY <3>1 DEF Steady
    <3> QED
      BY <2>2, <3>1, <3>2
  <2>4. \A i \in DOMAIN g : g[i] <= time
    BY <2>2 DEF Steady
  <2>5. due = f[Len(f)] + Period /\ g # <<>> /\ f[2] \in Nat
    BY <1>1, <1>2, <1>4, SMTT(30) DEF Steady
  <2>6. f[2] <= time + Period + Jitter /\ time <= f[2] + Trip
    BY <1>1, <1>4, <2>1, <2>5, SMTT(30) DEF Steady
  <2> QED
    BY <2>1, <2>3, <2>4, <2>5, <2>6 DEF Steady
<1> QED
  BY <1>1, <1>3, <1>4

\* The session's interval is the one that is set.
LEMMA TheTimer ==
    ASSUME QuickInv, NEW t \in timers
    PROVE  /\ t.of = remote /\ remote \in Links /\ timers = {t} /\ t.due \in Nat
           /\ now \in Nat /\ lastPongAt \in Nat /\ lastPongAt <= now
           /\ flight[remote] \in Seq(Nat) /\ flight[remote] \in Seq(Times)
           /\ now <= t.due + Jitter /\ remote \in alive
           /\ patient => Steady(flight[remote], t.due, lastPongAt, now)
<1>1. t.of = remote /\ remote \in Links /\ timers = {t} /\ t \in [of : Links, due : Nat]
  BY DEF QuickInv, PingInv, OneInterval, PingTypeOK
<1>2. flight[remote] \in Seq(Times) /\ Times \subseteq Nat
  BY <1>1, PingConstants DEF QuickInv, PingInv, PingTypeOK, Times
<1>3. flight[remote] \in Seq(Nat)
  BY <1>2, SeqMonotonic
<1>4. remote # NoLink
  BY <1>1 DEF Links, NoLink
<1> QED
  BY <1>1, <1>2, <1>3, <1>4 DEF QuickInv, PingInv, PingTypeOK, Times, Due, Answering, Quick

\* An interval that fires sends a ping.
LEMMA TickQuick == \A t \in timers : QuickInv /\ Tick(t) => QuickInv'
<1> SUFFICES ASSUME NEW t \in timers, QuickInv, Tick(t) PROVE Answering' /\ Quick'
  BY TickInv DEF QuickInv
<1>1. /\ t.of = remote /\ remote \in Links /\ timers = {t} /\ t.due \in Nat
      /\ now \in Nat /\ lastPongAt \in Nat /\ lastPongAt <= now
      /\ flight[remote] \in Seq(Nat)
      /\ now <= t.due + Jitter /\ remote \in alive
      /\ patient => Steady(flight[remote], t.due, lastPongAt, now)
  BY TheTimer
<1>2. /\ timers' = {[t EXCEPT !.due = now + Period]} /\ t.due <= now
      /\ UNCHANGED <<now, remote, opened, alive, lastPongAt, silent, patient>>
      /\ flight' = [flight EXCEPT ![remote] = Append(@, now)]
  BY <1>1 DEF Tick, Fired
<1>3. t \in [of : Links, due : Nat] /\ flight \in [Links -> Seq(Times)]
  BY DEF QuickInv, PingInv, PingTypeOK
<1>4. /\ \A u \in timers' : u.due = now + Period
      /\ flight'[remote] = Append(flight[remote], now)
  BY <1>1, <1>2, <1>3
<1>5. patient => Steady(Append(flight[remote], now), now + Period, lastPongAt, now)
  BY <1>1, <1>2, SteadyAppend
<1>6. Quick'
  BY <1>1, <1>2, <1>4, <1>5 DEF Quick
<1>7. Answering'
  BY <1>2 DEF QuickInv, Answering
<1> QED
  BY <1>6, <1>7

\* A pong, of this link or of an earlier one, starts the patience anew.
LEMMA PongQuick == \A l \in Links : QuickInv /\ Pong(l) => QuickInv'
<1> SUFFICES ASSUME NEW l \in Links, QuickInv, Pong(l) PROVE Answering' /\ Quick'
  BY PongInv DEF QuickInv
<1>1. /\ UNCHANGED <<now, remote, opened, alive, timers, silent, patient>>
      /\ lastPongAt' = now /\ now \in Nat
      /\ flight[l] # <<>> /\ flight' = [flight EXCEPT ![l] = Tail(@)]
      /\ flight \in [Links -> Seq(Times)]
  BY DEF Pong, session, QuickInv, PingInv, PingTypeOK, Times
<1>2. Answering'
  BY <1>1 DEF QuickInv, Answering
<1>3. ASSUME NEW t \in timers, patient
      PROVE  Steady(flight'[remote], t.due, now, now)
  <2>1. /\ remote \in Links /\ t.due \in Nat /\ lastPongAt \in Nat
        /\ lastPongAt <= now /\ flight[remote] \in Seq(Nat)
        /\ Steady(flight[remote], t.due, lastPongAt, now)
    BY <1>3, TheTimer
  <2>2. CASE l = remote
    BY <1>1, <2>1, <2>2, SteadyTail
  <2>3. CASE l # remote
    <3>1. flight'[remote] = flight[remote]
      BY <1>1, <2>1, <2>3
    <3>2. flight[remote] # <<>> => flight[remote][1] \in Nat
      BY <2>1
    <3> QED
      BY <1>1, <2>1, <3>1, <3>2, PingConstants, SMTT(30) DEF Steady
  <2> QED
    BY <2>2, <2>3
<1>4. Quick'
  BY <1>1, <1>3 DEF Quick
<1> QED
  BY <1>2, <1>4

\* The clock waits for a pong that is due, if the peer answers.
LEMMA ElapseQuick == QuickInv /\ Elapse => QuickInv'
<1> SUFFICES ASSUME QuickInv, Elapse PROVE Answering' /\ Quick'
  BY ElapseInv DEF QuickInv
<1> USE PingConstants
<1>1. /\ now' = now + 1 /\ now \in Nat /\ lastPongAt \in Nat
      /\ UNCHANGED <<remote, opened, alive, timers, lastPongAt, flight, silent, patient>>
      /\ \A l \in alive \ silent : flight[l] # <<>> => now < Head(flight[l]) + Trip
  BY DEF Elapse, session, table, QuickInv, PingInv, PingTypeOK, Times
<1>2. Answering'
  BY <1>1 DEF QuickInv, Answering
<1>3. ASSUME NEW t \in timers, patient
      PROVE  Steady(flight[remote], t.due, lastPongAt, now + 1)
  <2> DEFINE f == flight[remote]
  <2>1. /\ f \in Seq(Nat) /\ t.due \in Nat /\ Steady(f, t.due, lastPongAt, now)
        /\ remote \in alive
    BY <1>3, TheTimer
  <2>2. remote \notin silent
    BY <1>3 DEF QuickInv, Answering
  <2>3. f # <<>> => now < f[1] + Trip /\ f[1] \in Nat
    BY <1>1, <2>1, <2>2
  <2>4. \A i \in DOMAIN f : f[i] \in Nat
    BY <2>1
  <2> HIDE DEF f
  <2>5. Steady(f, t.due, lastPongAt, now + 1)
    BY <1>1, <2>1, <2>3, <2>4 DEF Steady
  <2> QED
    BY <2>5 DEF f
<1>4. Quick'
  <2>1. lastPongAt <= now + 1
    BY <1>1 DEF QuickInv, Quick
  <2> QED
    BY <1>1, <1>3, <2>1 DEF Quick
<1> QED
  BY <1>2, <1>4

\* The rest leaves the pings alone.  A peer that may have slept is not patient.
LEMMA RestQuick ==
    /\ \A q \in lookups : QuickInv /\ (EndpointFound(q) \/ EndpointRetry(q)) => QuickInv'
    /\ QuickInv /\ Silence => QuickInv'
    /\ QuickInv /\ UNCHANGED pingVars => QuickInv'
<1>1. ASSUME NEW q \in lookups, QuickInv, EndpointFound(q) PROVE QuickInv'
  BY <1>1, RestInv DEF EndpointFound, session, QuickInv, Answering, Quick
<1>2. ASSUME NEW q \in lookups, QuickInv, EndpointRetry(q) PROVE QuickInv'
  BY <1>2, RestInv DEF EndpointRetry, session, table, QuickInv, Answering, Quick
<1>3. ASSUME QuickInv, Silence PROVE QuickInv'
  BY <1>3, RestInv DEF Silence, session, table, QuickInv, Answering, Quick
<1>4. ASSUME QuickInv, UNCHANGED pingVars PROVE QuickInv'
  BY <1>4, RestInv DEF pingVars, session, table, QuickInv, Answering, Quick
<1> QED
  BY <1>1, <1>2, <1>3, <1>4

LEMMA QuickInvHolds == PingSpec => []QuickInv
<1>1. QuickInv /\ [PingNext]_pingVars => QuickInv'
  BY OpenQuick, CloseQuick, TickQuick, PongQuick, ElapseQuick, RestQuick DEF PingNext
<1> QED
  BY InitQuick, <1>1, PTL DEF PingSpec

\* No step takes a peer that always answers offline: what an interval finds is at most
\* a period, a jitter and a trip old (tick and onPong of remote-session.ts).
THEOREM NoFalseAlarmHolds == PingSpec => NoFalseAlarm
<1> USE PingConstants
<1>1. ASSUME QuickInv, [PingNext]_pingVars,
             FastEnough, patient, remote # NoLink, remote' = remote, shown # Offline,
             shown' = Offline
      PROVE  FALSE
  <2>1. CASE Open
    BY <1>1, <2>1 DEF Open, QuickInv, Answering, PingInv, PingTypeOK
  <2>2. ASSUME NEW l \in Links, Close(l) PROVE FALSE
    BY <1>1, <2>2 DEF Close, Closed
  <2>3. ASSUME NEW l \in Links, Pong(l) PROVE FALSE
    <3>1. /\ flight[l] \in Seq(Times) /\ flight[l] # <<>> /\ now \in Nat
          /\ shown' = now - Head(flight[l]) /\ Sent
      BY <1>1, <2>3 DEF Pong, QuickInv, PingInv, PingTypeOK, Times
    <3>2. Head(flight[l]) \in Nat /\ Head(flight[l]) <= now
      BY <3>1 DEF Sent, Times
    <3> QED
      BY <1>1, <3>1, <3>2 DEF Offline
  <2>4. ASSUME NEW t \in timers, Tick(t) PROVE FALSE
    <3>1. /\ t.of = remote /\ t.due \in Nat /\ now \in Nat /\ lastPongAt \in Nat
          /\ flight[remote] \in Seq(Nat) /\ now <= t.due + Jitter
          /\ Steady(flight[remote], t.due, lastPongAt, now)
      BY <1>1, TheTimer
    <3>2. flight[remote] # <<>> => flight[remote][1] \in Nat
      BY <3>1
    <3>3. now - lastPongAt <= Period + Jitter + Trip
      <4> DEFINE f == flight[remote]
      <4>1. f # <<>> => f[1] \in Nat /\ f[1] <= lastPongAt + Period + Jitter /\ now <= f[1] + Trip
        BY <3>1, <3>2 DEF Steady
      <4>2. f = <<>> => t.due <= lastPongAt + Period
        BY <3>1 DEF Steady
      <4> QED
        BY <3>1, <4>1, <4>2
    <3>4. ~(now - lastPongAt > Patience)
      BY <1>1, <3>1, <3>3 DEF FastEnough
    <3> QED
      BY <1>1, <2>4, <3>1, <3>4 DEF Tick
  <2>5. ASSUME NEW q \in lookups, EndpointFound(q) \/ EndpointRetry(q) PROVE FALSE
    BY <1>1, <2>5 DEF EndpointFound, EndpointRetry, table
  <2>6. CASE Silence \/ Elapse \/ UNCHANGED pingVars
    BY <1>1, <2>6 DEF Silence, Elapse, table, pingVars
  <2> QED
    BY <1>1, <2>1, <2>2, <2>3, <2>4, <2>5, <2>6 DEF PingNext
<1>2. QuickInv /\ [PingNext]_pingVars =>
        [FastEnough /\ patient /\ remote # NoLink /\ remote' = remote /\ shown # Offline
           => shown' # Offline]_pingVars
  BY <1>1
<1> QED
  BY QuickInvHolds, <1>2, PTL DEF PingSpec, NoFalseAlarm
=============================================================================
