----------------------------- MODULE ShareLease -----------------------------
(***************************************************************************)
(* The share sessions of PhoneBridge's server, the lease that gives one    *)
(* viewer control of the phone, the WebRTC peers registered for a session  *)
(* and the session file that survives a restart (server.go, session.go,    *)
(* session_store.go, webrtc.go).                                           *)
(*                                                                         *)
(* Every action is what one handler does in one critical section of        *)
(* Server.mu, or one step it takes outside of it: an offer is handled in   *)
(* four steps (Offer, ClosePeer, AnswerReady or AnswerFails, Register),    *)
(* and a handler that takes a peer out of the registry closes it after it  *)
(* has released the mutex (ClosePeer).                                     *)
(***************************************************************************)
CONSTANTS Session,          \* ids of share sessions (newSession draws them)
          Token,            \* viewer tokens (handleJoinSession draws them)
          Peer,             \* peer connections, one for each offer
          None,             \* no session, token or peer
          OneOfferPerLease, \* a viewer sends no offer while it awaits an answer
          DiskMayFail       \* a save of the session file may fail

ASSUME NoneAssumption == None \notin Session \cup Token \cup Peer
ASSUME FlagAssumption == OneOfferPerLease \in BOOLEAN /\ DiskMayFail \in BOOLEAN

VARIABLES
  state,          \* Session.State; "fresh" before creation, "gone" once forgotten
  connectionMode, \* Session.ConnectionMode
  viewerToken,    \* Session.ViewerToken, the lease
  due,            \* Session.ExpiresAt has passed
  activeID,       \* Server.activeID
  issued,         \* every viewer token drawn so far
  webrtcPeers,    \* Server.webrtcPeers, the registered peer of each session
  phase,          \* how far the peer's offer has got
  sessionID,      \* webRTCPeer.sessionID
  offerToken,     \* the viewer token its offer handler captured
  evicts,         \* the registered peer its offer handler took out
  reported,       \* the last connection state the open peer reported
  store           \* the session file

sessionVars == <<state, connectionMode, viewerToken, due, activeID, issued>>
peerVars == <<phase, sessionID, offerToken, evicts, reported>>
vars == <<sessionVars, webrtcPeers, peerVars, store>>

LiveStates == {"waiting", "connected"}
EndedStates == {"stopped", "expired", "gone"}
Reports == {"webrtc", "reconnecting", "fallback-screen"}
Modes == Reports \cup {"not-connected", "negotiating-webrtc"}
Phases == {"unused", "offered", "answered", "open", "evicted", "closed", "dead"}

Live(s) == state[s] \in LiveStates

(* Variant: the lookup refuses a stopped share only. *)
UsableExpiredToo(s) == state[s] \in LiveStates \cup {"expired"}

(* What sessionByTokenLocked returns: a session that has not ended, after  *)
(* it looked at the clock. A joined session's ViewerState is "connected".  *)
Usable(s) == Live(s) /\ ~due[s]
Joined(s) == Usable(s) /\ state[s] = "connected"

(* The offers whose handlers are still between their two critical sections. *)
InFlight(p) == phase[p] \in {"offered", "answered"}
-----------------------------------------------------------------------------
(* Variant: only an expired share is left out of the file. *)
ImageWithStopped(st, mode, active) ==
  [activeID |-> active,
   state |-> [s \in Session |-> IF st[s] \in LiveStates \cup {"stopped"}
                                THEN st[s] ELSE "none"],
   mode |-> mode]

(* The session file: saveSessionStore leaves out what has ended, and never *)
(* writes a viewer token.                                                  *)
Image(st, mode, active) ==
  [activeID |-> active,
   state |-> [s \in Session |-> IF st[s] \in LiveStates THEN st[s] ELSE "none"],
   mode |-> [s \in Session |-> IF st[s] \in LiveStates THEN mode[s] ELSE "not-connected"]]

(* persistSessionsLocked only logs a failed save; the file is replaced by  *)
(* a rename, so it holds the old image or the new one.                     *)
SaveOutcomes(old, new) == IF DiskMayFail THEN {old, new} ELSE {new}

Persist == store' \in SaveOutcomes(store, Image(state', connectionMode', activeID'))

PersistIf(changed) == IF changed THEN Persist ELSE UNCHANGED store
-----------------------------------------------------------------------------
(* Session.refresh on every session, and an activeID that ended is cleared. *)
RefreshedState == [s \in Session |-> IF Live(s) /\ due[s] THEN "expired" ELSE state[s]]

RefreshedMode ==
  [s \in Session |-> IF Live(s) /\ due[s] THEN "not-connected" ELSE connectionMode[s]]

(* Variant: a share nobody has joined yet does not count as active. *)
RefreshedActiveJoined ==
  IF activeID # None /\ RefreshedState[activeID] = "connected" THEN activeID ELSE None

RefreshedActive ==
  IF activeID # None /\ RefreshedState[activeID] \in LiveStates THEN activeID ELSE None

Init ==
  /\ state = [s \in Session |-> "fresh"]
  /\ connectionMode = [s \in Session |-> "not-connected"]
  /\ viewerToken = [s \in Session |-> None]
  /\ due = [s \in Session |-> FALSE]
  /\ activeID = None
  /\ issued = {}
  /\ webrtcPeers = [s \in Session |-> None]
  /\ phase = [p \in Peer |-> "unused"]
  /\ sessionID = [p \in Peer |-> None]
  /\ offerToken = [p \in Peer |-> None]
  /\ evicts = [p \in Peer |-> None]
  /\ reported = [p \in Peer |-> "none"]
  /\ store = Image(state, connectionMode, None)

(* The clock passes Session.ExpiresAt; nothing changes until a handler looks. *)
Deadline(s) ==
  /\ Live(s) /\ ~due[s]
  /\ due' = [due EXCEPT ![s] = TRUE]
  /\ UNCHANGED <<state, connectionMode, viewerToken, activeID, issued, webrtcPeers,
                 peerVars, store>>

(* refreshSessionsLocked, as the status and current-session requests call  *)
(* it, and a creation that ends early because the active share lives on.   *)
RefreshSessions ==
  /\ state' = RefreshedState
  /\ connectionMode' = RefreshedMode
  /\ activeID' = RefreshedActive
  /\ PersistIf(state' # state)
  /\ UNCHANGED <<viewerToken, due, issued, webrtcPeers, peerVars>>

(* handleCreateSession, when no other share is alive. It refreshes first,  *)
(* which may save the file once more.                                      *)
CreateSession(s) ==
  /\ state[s] = "fresh"
  /\ RefreshedActive = None
  /\ state' = [RefreshedState EXCEPT ![s] = "waiting"]
  /\ connectionMode' = [RefreshedMode EXCEPT ![s] = "not-connected"]
  /\ activeID' = s
  /\ \E mid \in IF RefreshedState = state
                THEN {store}
                ELSE SaveOutcomes(store, Image(RefreshedState, RefreshedMode, None)) :
       store' \in SaveOutcomes(mid, Image(state', connectionMode', activeID'))
  /\ UNCHANGED <<viewerToken, due, issued, webrtcPeers, peerVars>>

(* sessionByTokenLocked finds the deadline passed: every guest request     *)
(* then ends with 404 or 410. Nothing is saved and no peer is touched.     *)
ExpireOnLookup(s) ==
  /\ Live(s) /\ due[s]
  /\ state' = [state EXCEPT ![s] = "expired"]
  /\ connectionMode' = [connectionMode EXCEPT ![s] = "not-connected"]
  /\ UNCHANGED <<viewerToken, due, activeID, issued, webrtcPeers, peerVars, store>>
-----------------------------------------------------------------------------
(* Variant: the peer is taken out of the map and never closed. *)
EvictedWithoutClose(s) == phase

(* The registered peer of s leaves the registry; its handler closes it     *)
(* later. "old" is None when no peer is registered.                        *)
Evicted(s) == [p \in Peer |-> IF p = webrtcPeers[s] THEN "evicted" ELSE phase[p]]

(* handleStopSession: every session it can find, ended ones too. *)
StopSession(s) ==
  /\ state[s] \in LiveStates \cup {"stopped", "expired"}
  /\ state' = [state EXCEPT ![s] = "stopped"]
  /\ connectionMode' = [connectionMode EXCEPT ![s] = "not-connected"]
  /\ activeID' = IF activeID = s THEN None ELSE activeID
  /\ Persist
  /\ webrtcPeers' = [webrtcPeers EXCEPT ![s] = None]
  /\ phase' = Evicted(s)
  /\ UNCHANGED <<viewerToken, due, issued, sessionID, offerToken, evicts, reported>>

(* Variant: any token the browser still has is kept. *)
JoinTokensAnyKnown(s, requested) ==
  IF requested # None THEN {requested} ELSE Token \ issued

(* handleJoinSession with the viewer token the request carries. Only the   *)
(* token that holds the lease is kept; any other request, or one without   *)
(* a token, takes the lease over with a token drawn for it.                *)
JoinTokens(s, requested) ==
  IF requested # None /\ requested = viewerToken[s] THEN {requested} ELSE Token \ issued

JoinSession(s, requested) ==
  /\ Usable(s)
  /\ \E t \in JoinTokens(s, requested) :
       /\ viewerToken' = [viewerToken EXCEPT ![s] = t]
       /\ issued' = issued \cup {t}
  /\ state' = [state EXCEPT ![s] = "connected"]
  /\ connectionMode' = [connectionMode EXCEPT ![s] = "fallback-screen"]
  /\ UNCHANGED activeID
  /\ Persist
  /\ webrtcPeers' = [webrtcPeers EXCEPT ![s] = None]
  /\ phase' = Evicted(s)
  /\ UNCHANGED <<due, sessionID, offerToken, evicts, reported>>

(* handleStreamProfile: the profile is no part of this model, the save is. *)
SetStreamProfile(s) ==
  /\ Joined(s) /\ viewerToken[s] # None
  /\ UNCHANGED <<sessionVars, webrtcPeers, peerVars>>
  /\ Persist
-----------------------------------------------------------------------------
(* handleWebRTCOffer up to the unlock, for a request that carries token t. *)
Offer(s, t, p) ==
  /\ phase[p] = "unused"
  /\ Joined(s)
  /\ viewerToken[s] = t
  /\ OneOfferPerLease => ~\E q \in Peer : InFlight(q) /\ offerToken[q] = t
  /\ webrtcPeers' = [webrtcPeers EXCEPT ![s] = None]
  /\ connectionMode' = [connectionMode EXCEPT ![s] = "negotiating-webrtc"]
  /\ phase' = [Evicted(s) EXCEPT ![p] = "offered"]
  /\ sessionID' = [sessionID EXCEPT ![p] = s]
  /\ offerToken' = [offerToken EXCEPT ![p] = t]
  /\ evicts' = [evicts EXCEPT ![p] = webrtcPeers[s]]
  /\ UNCHANGED <<state, viewerToken, due, activeID, issued, reported, store>>

(* The handler has closed the peer it replaced. *)
Answering(p) ==
  /\ phase[p] = "offered"
  /\ evicts[p] # None => phase[evicts[p]] = "closed"

(* answerWebRTCOffer gathers its candidates in time. *)
AnswerReady(p) ==
  /\ Answering(p)
  /\ phase' = [phase EXCEPT ![p] = "answered"]
  /\ evicts' = [evicts EXCEPT ![p] = None]
  /\ UNCHANGED <<sessionVars, webrtcPeers, sessionID, offerToken, reported, store>>

(* Variant: only a connection that was up is put back on the fallback screen. *)
SetWebRTCStateFromUp(s, mode) ==
  LET changes == Live(s) /\ connectionMode[s] \in {"webrtc", "reconnecting"}
  IN /\ connectionMode' = IF changes THEN [connectionMode EXCEPT ![s] = mode]
                          ELSE connectionMode
     /\ UNCHANGED <<state, viewerToken, due, activeID, issued>>
     /\ PersistIf(changes)

(* setWebRTCState: unlike a peer's report it asks nobody who is registered. *)
SetWebRTCState(s, mode) ==
  LET changes == Live(s) /\ connectionMode[s] # mode
  IN /\ connectionMode' = IF changes THEN [connectionMode EXCEPT ![s] = mode]
                          ELSE connectionMode
     /\ UNCHANGED <<state, viewerToken, due, activeID, issued>>
     /\ PersistIf(changes)

(* answerWebRTCOffer gives up (a bad offer, 12 s without all candidates, a *)
(* request its browser abandoned): it has closed the peer it made.         *)
AnswerFails(p) ==
  /\ Answering(p)
  /\ phase' = [phase EXCEPT ![p] = "closed"]
  /\ evicts' = [evicts EXCEPT ![p] = None]
  /\ SetWebRTCState(sessionID[p], "fallback-screen")
  /\ UNCHANGED <<webrtcPeers, sessionID, offerToken, reported>>

(* Variants: the second critical section checks only the lease, or the share. *)
OfferStandsAnyState(p) == viewerToken[sessionID[p]] = offerToken[p]
OfferStandsAnyViewer(p) == state[sessionID[p]] = "connected"

(* offerConflictStatus is zero: the share lives and its lease has not moved. *)
OfferStands(p) ==
  /\ state[sessionID[p]] = "connected"
  /\ viewerToken[sessionID[p]] = offerToken[p]

(* The second critical section of handleWebRTCOffer. A peer whose offer no *)
(* longer stands is closed after the unlock. One that another offer has    *)
(* registered meanwhile is replaced in the map, and that is all.           *)
Register(p) ==
  /\ phase[p] = "answered"
  /\ IF OfferStands(p)
     THEN /\ webrtcPeers' = [webrtcPeers EXCEPT ![sessionID[p]] = p]
          /\ phase' = [phase EXCEPT ![p] = "open"]
     ELSE /\ phase' = [phase EXCEPT ![p] = "evicted"]
          /\ UNCHANGED webrtcPeers
  /\ UNCHANGED <<sessionVars, sessionID, offerToken, evicts, reported, store>>

(* webRTCPeer.close, by the handler that took the peer out. *)
ClosePeer(p) ==
  /\ phase[p] = "evicted"
  /\ phase' = [phase EXCEPT ![p] = "closed"]
  /\ UNCHANGED <<sessionVars, webrtcPeers, sessionID, offerToken, evicts, reported, store>>
-----------------------------------------------------------------------------
(* Variant: every peer's report counts. *)
SetSessionStateAnyPeer(p, mode) == SetWebRTCState(sessionID[p], mode)

(* setSessionState: a report counts only from the registered peer. *)
SetSessionState(p, mode) ==
  IF webrtcPeers[sessionID[p]] = p
  THEN SetWebRTCState(sessionID[p], mode)
  ELSE UNCHANGED <<sessionVars, store>>

(* A connection, data channel or video callback of peer p. Callbacks run   *)
(* on goroutines of their own: one may arrive late, after the peer was     *)
(* taken out or closed, and the close itself causes the last of them.      *)
PeerReports(p, mode) ==
  /\ phase[p] \in {"open", "evicted", "closed"}
  /\ reported' = IF phase[p] = "open" THEN [reported EXCEPT ![p] = mode] ELSE reported
  /\ SetSessionState(p, mode)
  /\ UNCHANGED <<webrtcPeers, phase, sessionID, offerToken, evicts>>

(* handlePeerControl lets an event on the data channel of peer p reach the *)
(* phone. It looks at the session, never at the peer.                      *)
AcceptsPeerControl(p) ==
  /\ phase[p] \in {"open", "evicted"}
  /\ state[sessionID[p]] = "connected"

(* The program dies at any moment and New reads the session file again.    *)
(* Handlers, callbacks and peers of the old process are gone with it, and  *)
(* nobody holds the lease of a share that is restored.                     *)
Restart ==
  LET restored(s) == store.state[s] \in LiveStates /\ ~due[s]
  IN /\ state' = [s \in Session |-> IF restored(s) THEN store.state[s]
                                    ELSE IF state[s] = "fresh" THEN "fresh" ELSE "gone"]
     /\ connectionMode' = [s \in Session |-> IF restored(s) THEN store.mode[s]
                                             ELSE "not-connected"]
     /\ viewerToken' = [s \in Session |-> None]
     /\ activeID' = IF store.activeID # None /\ restored(store.activeID)
                    THEN store.activeID ELSE None
     /\ webrtcPeers' = [s \in Session |-> None]
     /\ phase' = [p \in Peer |-> IF phase[p] = "unused" THEN "unused" ELSE "dead"]
     /\ sessionID' = [p \in Peer |-> None]
     /\ offerToken' = [p \in Peer |-> None]
     /\ evicts' = [p \in Peer |-> None]
     /\ reported' = [p \in Peer |-> "none"]
     /\ UNCHANGED <<due, issued, store>>

Next ==
  \/ RefreshSessions \/ Restart
  \/ \E s \in Session :
       \/ Deadline(s) \/ CreateSession(s) \/ ExpireOnLookup(s) \/ StopSession(s)
       \/ SetStreamProfile(s)
       \/ \E requested \in issued \cup {None} : JoinSession(s, requested)
       \/ \E t \in issued, p \in Peer : Offer(s, t, p)
  \/ \E p \in Peer :
       \/ AnswerReady(p) \/ AnswerFails(p) \/ Register(p) \/ ClosePeer(p)
       \/ \E mode \in Reports : PeerReports(p, mode)

Spec == Init /\ [][Next]_vars

(* What the code's scheduling guarantees. Go runs every handler that holds *)
(* or awaits no lock to its end, candidate gathering ends after 12 s at    *)
(* the latest, and a connection that never comes up is reported as failed. *)
FirstReport(p) ==
  /\ phase[p] = "open" /\ reported[p] = "none"
  /\ \E mode \in {"webrtc", "fallback-screen"} : PeerReports(p, mode)

Fairness ==
  \A p \in Peer : /\ WF_vars(AnswerReady(p) \/ AnswerFails(p))
                  /\ WF_vars(Register(p))
                  /\ WF_vars(ClosePeer(p))
                  /\ WF_vars(FirstReport(p))

FairSpec == Spec /\ Fairness
-----------------------------------------------------------------------------
TypeOK ==
  /\ state \in [Session -> {"fresh"} \cup LiveStates \cup EndedStates]
  /\ connectionMode \in [Session -> Modes]
  /\ viewerToken \in [Session -> Token \cup {None}]
  /\ due \in [Session -> BOOLEAN]
  /\ activeID \in Session \cup {None}
  /\ issued \subseteq Token
  /\ webrtcPeers \in [Session -> Peer \cup {None}]
  /\ phase \in [Peer -> Phases]
  /\ sessionID \in [Peer -> Session \cup {None}]
  /\ offerToken \in [Peer -> Token \cup {None}]
  /\ evicts \in [Peer -> Peer \cup {None}]
  /\ reported \in [Peer -> Reports \cup {"none"}]
  /\ store \in [activeID : Session \cup {None},
                state : [Session -> LiveStates \cup {"none"}],
                mode : [Session -> Modes]]

(* PhoneBridge shares one phone at a time: a share that is alive is the    *)
(* active one, in memory and in the session file, so that creation, which  *)
(* looks at activeID only, never makes a second one, after a restart or    *)
(* with a file that an earlier failed save left behind either.             *)
SingleLiveShare ==
  \A s \in Session : /\ Live(s) => activeID = s
                     /\ store.state[s] # "none" => store.activeID = s

(* The peer the server sends native control to and believes callbacks of   *)
(* is open, was offered for this session by the viewer that holds the      *)
(* lease now, and is not kept for a share the owner stopped, whichever     *)
(* takeovers, stops and restarts happened while its offer was answered.    *)
RegisteredPeerHoldsLease ==
  \A s \in Session : LET p == webrtcPeers[s] IN
    p # None => /\ phase[p] = "open" /\ sessionID[p] = s
                /\ offerToken[p] = viewerToken[s]
                /\ state[s] \in {"connected", "expired"}

(* The data channel of a peer moves the phone only while the viewer that   *)
(* offered the peer holds the lease; a peer that was taken out may do so   *)
(* until the handler that took it out gets to close it.                    *)
PeerControlFollowsLease ==
  \A p \in Peer : AcceptsPeerControl(p) /\ phase[p] = "open" =>
                    offerToken[p] = viewerToken[sessionID[p]]

(* The inductive strengthening of the two properties above: viewer tokens  *)
(* and offers stem from tokens drawn earlier; a lease has one offer in     *)
(* flight, and while it is in flight the holder has no registered peer; so *)
(* registering a peer never drops another one from the map unclosed, and   *)
(* no open peer is forgotten.                                              *)
TokensIssued ==
  /\ \A s \in Session : viewerToken[s] \in issued \cup {None}
  /\ \A p \in Peer : phase[p] \in {"offered", "answered", "open", "evicted"} =>
                     sessionID[p] \in Session /\ offerToken[p] \in issued

OneOfferInFlight ==
  \A p, q \in Peer : InFlight(p) /\ InFlight(q) /\ offerToken[p] = offerToken[q] => p = q

NoPeerBehindOffer ==
  \A p \in Peer : InFlight(p) /\ offerToken[p] = viewerToken[sessionID[p]] =>
                  webrtcPeers[sessionID[p]] = None

NoOrphanPeer == \A p \in Peer : phase[p] = "open" => webrtcPeers[sessionID[p]] = p

LeaseInv ==
  /\ RegisteredPeerHoldsLease
  /\ TokensIssued
  /\ OneOfferPerLease => OneOfferInFlight /\ NoPeerBehindOffer /\ NoOrphanPeer

(* The inductive invariant of the server's memory. *)
ServerInv == TypeOK /\ LeaseInv

(* The owner page says "webrtc" or "reconnecting" of a joined share only   *)
(* when the registered peer itself said so last, never on the word of a    *)
(* peer that was replaced; and it says "negotiating-webrtc" only while an   *)
(* offer of the viewer that holds the lease is being answered, or its peer  *)
(* is registered and has not reported yet.                                  *)
ReportedModeTruthful ==
  \A s \in Session :
    /\ Live(s) /\ viewerToken[s] # None
    /\ connectionMode[s] \in {"webrtc", "reconnecting"}
    => /\ webrtcPeers[s] # None
       /\ reported[webrtcPeers[s]] = connectionMode[s]

Negotiates(p, s) ==
  /\ sessionID[p] = s /\ offerToken[p] = viewerToken[s] /\ reported[p] = "none"
  /\ InFlight(p) \/ webrtcPeers[s] = p

NegotiationIsReal ==
  \A s \in Session :
    Live(s) /\ viewerToken[s] # None /\ connectionMode[s] = "negotiating-webrtc"
    => \E p \in Peer : Negotiates(p, s)

ConnectionModeTruthful == ReportedModeTruthful /\ NegotiationIsReal

(* A share that was stopped, has expired or was forgotten is never alive   *)
(* again, across restarts too.                                             *)
EndedShareStaysEnded ==
  [][\A s \in Session : state[s] \in EndedStates => state'[s] \in EndedStates]_vars

(* A share the file would bring back after a restart is alive in memory,   *)
(* if saves succeed: what ends a share saves the file, except an expiry    *)
(* that a guest's request finds, which the next start finds as well.       *)
FileFollowsMemory ==
  ~DiskMayFail => \A s \in Session : store.state[s] # "none" /\ ~due[s] => Live(s)

(* The server implements the abstract lease: tokens are granted once, to   *)
(* one holder of the one open share, and a restart revokes them.           *)
Lease == INSTANCE ControlLease WITH
  share <- [s \in Session |-> IF state[s] = "fresh" THEN "none"
                              ELSE IF Live(s) THEN "open" ELSE "ended"],
  holder <- [s \in Session |-> IF Live(s) THEN viewerToken[s] ELSE None],
  used <- issued

ImplementsControlLease == Lease!Spec

(* A share does not stay in negotiation for ever: its offer is answered    *)
(* and the connection comes up, or the viewer is put back on the fallback  *)
(* screen, or loses the lease.                                             *)
NegotiationEnds ==
  \A s \in Session :
    connectionMode[s] = "negotiating-webrtc" /\ viewerToken[s] # None
      ~> connectionMode[s] # "negotiating-webrtc" \/ viewerToken[s] = None

(* After a takeover, a stop or a restart every peer of the former holder   *)
(* ends up closed, one whose offer was still being answered too.           *)
PeerOutlivesNoLease ==
  \A p \in Peer :
    /\ phase[p] \notin {"unused", "closed", "dead"}
    /\ offerToken[p] # viewerToken[sessionID[p]] \/ state[sessionID[p]] = "stopped"
    ~> phase[p] \in {"closed", "dead"}

(* What the repository says of the code, and the code does not do: TLC     *)
(* refutes these.                                                          *)

(* "A new connection interrupts the old one": see PeerControlFollowsLease, *)
(* here without the assumption that a viewer awaits the answer to an offer *)
(* before it sends the next.                                               *)
TakeoverEndsOldControl == PeerControlFollowsLease

(* A share that expired keeps no peer connection. *)
ExpiredShareHasNoPeer ==
  \A s \in Session : state[s] = "expired" => webrtcPeers[s] = None

(* A registered peer's connection state is overwritten by nobody else. *)
ModeIsRegisteredPeers ==
  \A s \in Session : LET p == webrtcPeers[s] IN
    /\ p # None /\ Live(s)
    /\ reported[p] # "none"
    => connectionMode[s] = reported[p]
=============================================================================
