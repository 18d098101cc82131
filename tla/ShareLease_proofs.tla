------------------------- MODULE ShareLease_proofs -------------------------
(***************************************************************************)
(* Proofs about ShareLease, for any number of sessions, viewers and peers. *)
(***************************************************************************)
EXTENDS ShareLease, TLAPS

-----------------------------------------------------------------------------
(* Type correctness *)

LEMMA ImageType ==
  ASSUME NEW st \in [Session -> {"fresh"} \cup LiveStates \cup EndedStates],
         NEW mode \in [Session -> Modes],
         NEW active \in Session \cup {None}
  PROVE  Image(st, mode, active) \in
           [activeID : Session \cup {None},
            state : [Session -> LiveStates \cup {"none"}],
            mode : [Session -> Modes]]
BY DEF Image, LiveStates, EndedStates, Modes, Reports

LEMMA InitTypeOK == Init => TypeOK
<1> SUFFICES ASSUME Init PROVE TypeOK
  OBVIOUS
<1>1. state \in [Session -> {"fresh"} \cup LiveStates \cup EndedStates]
  BY DEF Init
<1>2. connectionMode \in [Session -> Modes]
  BY DEF Init, Modes
<1>3. store \in [activeID : Session \cup {None},
                 state : [Session -> LiveStates \cup {"none"}],
                 mode : [Session -> Modes]]
  BY <1>1, <1>2, ImageType DEF Init
<1> QED
  BY <1>1, <1>2, <1>3 DEF Init, TypeOK, Phases

(* What a save leaves in the file is a well-formed image. *)
LEMMA PersistType ==
  ASSUME TypeOK, Persist,
         state' \in [Session -> {"fresh"} \cup LiveStates \cup EndedStates],
         connectionMode' \in [Session -> Modes],
         activeID' \in Session \cup {None}
  PROVE  store' \in [activeID : Session \cup {None},
                     state : [Session -> LiveStates \cup {"none"}],
                     mode : [Session -> Modes]]
<1>1. Image(state', connectionMode', activeID') \in
           [activeID : Session \cup {None},
            state : [Session -> LiveStates \cup {"none"}],
            mode : [Session -> Modes]]
  BY ImageType
<1> QED
  BY <1>1 DEF Persist, SaveOutcomes, TypeOK

LEMMA RefreshedTypes ==
  ASSUME TypeOK
  PROVE  /\ RefreshedState \in [Session -> {"fresh"} \cup LiveStates \cup EndedStates]
         /\ RefreshedMode \in [Session -> Modes]
         /\ RefreshedActive \in Session \cup {None}
BY DEF TypeOK, RefreshedState, RefreshedMode, RefreshedActive, EndedStates, Modes

(* A report or a failed answer leaves every part of a session typed. *)
LEMMA SetWebRTCStateType ==
  ASSUME TypeOK, NEW s, NEW mode \in Reports, SetWebRTCState(s, mode)
  PROVE  /\ UNCHANGED <<state, viewerToken, due, activeID, issued>>
         /\ connectionMode' \in [Session -> Modes]
         /\ store' \in [activeID : Session \cup {None},
                        state : [Session -> LiveStates \cup {"none"}],
                        mode : [Session -> Modes]]
<1>1. UNCHANGED <<state, viewerToken, due, activeID, issued>>
  BY DEF SetWebRTCState
<1>2. connectionMode' \in [Session -> Modes]
  BY DEF SetWebRTCState, TypeOK, Modes
<1>3. \/ Persist
      \/ UNCHANGED store
  BY DEF SetWebRTCState, PersistIf
<1> QED
  BY <1>1, <1>2, <1>3, PersistType DEF TypeOK

LEMMA StepTypeOK == TypeOK /\ [Next]_vars => TypeOK'
<1> SUFFICES ASSUME TypeOK, [Next]_vars
             PROVE  TypeOK'
  OBVIOUS
<1> USE DEF TypeOK
<1>1. CASE RefreshSessions
  BY <1>1, RefreshedTypes, PersistType DEF RefreshSessions, PersistIf, peerVars
<1>2. CASE Restart
  BY <1>2 DEF Restart, LiveStates, EndedStates, Modes, Phases
<1>3. ASSUME NEW s \in Session, Deadline(s) PROVE TypeOK'
  BY <1>3 DEF Deadline, peerVars
<1>4. ASSUME NEW s \in Session, CreateSession(s) PROVE TypeOK'
  <2>1. /\ state' \in [Session -> {"fresh"} \cup LiveStates \cup EndedStates]
        /\ connectionMode' \in [Session -> Modes]
        /\ activeID' \in Session \cup {None}
    BY <1>4, RefreshedTypes DEF CreateSession, LiveStates, Modes
  <2>2. Image(RefreshedState, RefreshedMode, None) \in
           [activeID : Session \cup {None},
            state : [Session -> LiveStates \cup {"none"}],
            mode : [Session -> Modes]]
    BY RefreshedTypes, ImageType
  <2>3. Image(state', connectionMode', activeID') \in
           [activeID : Session \cup {None},
            state : [Session -> LiveStates \cup {"none"}],
            mode : [Session -> Modes]]
    BY <2>1, ImageType
  <2> QED
    BY <1>4, <2>1, <2>2, <2>3 DEF CreateSession, SaveOutcomes, peerVars
<1>5. ASSUME NEW s \in Session, ExpireOnLookup(s) PROVE TypeOK'
  BY <1>5 DEF ExpireOnLookup, EndedStates, Modes, peerVars
<1>6. ASSUME NEW s \in Session, StopSession(s) PROVE TypeOK'
  BY <1>6, PersistType DEF StopSession, Evicted, EndedStates, Modes, Phases
<1>7. ASSUME NEW s \in Session, SetStreamProfile(s) PROVE TypeOK'
  BY <1>7, PersistType DEF SetStreamProfile, sessionVars, peerVars
<1>8. ASSUME NEW s \in Session, NEW requested \in issued \cup {None},
             JoinSession(s, requested)
      PROVE TypeOK'
  BY <1>8, PersistType
  DEF JoinSession, JoinTokens, Evicted, LiveStates, Modes, Reports, Phases
<1>9. ASSUME NEW s \in Session, NEW t \in issued, NEW p \in Peer, Offer(s, t, p)
      PROVE TypeOK'
  BY <1>9 DEF Offer, Evicted, Modes, Phases
<1>10. ASSUME NEW p \in Peer, AnswerReady(p) PROVE TypeOK'
  BY <1>10 DEF AnswerReady, Phases, sessionVars
<1>11. ASSUME NEW p \in Peer, AnswerFails(p) PROVE TypeOK'
  <2>1. "fallback-screen" \in Reports /\ SetWebRTCState(sessionID[p], "fallback-screen")
    BY <1>11 DEF AnswerFails, Reports
  <2> QED
    BY <1>11, <2>1, SetWebRTCStateType DEF AnswerFails, Phases
<1>12. ASSUME NEW p \in Peer, Register(p) PROVE TypeOK'
  BY <1>12 DEF Register, Phases, sessionVars
<1>13. ASSUME NEW p \in Peer, ClosePeer(p) PROVE TypeOK'
  BY <1>13 DEF ClosePeer, Phases, sessionVars
<1>14. ASSUME NEW p \in Peer, NEW mode \in Reports, PeerReports(p, mode) PROVE TypeOK'
  BY <1>14, SetWebRTCStateType DEF PeerReports, SetSessionState, sessionVars
<1>15. CASE UNCHANGED vars
  BY <1>15 DEF vars, sessionVars, peerVars
<1> QED
  BY <1>1, <1>2, <1>3, <1>4, <1>5, <1>6, <1>7, <1>8, <1>9, <1>10, <1>11, <1>12,
     <1>13, <1>14, <1>15
  DEF Next

(* Every reachable state is well typed. *)
THEOREM TypeCorrect == Spec => []TypeOK
BY InitTypeOK, StepTypeOK, PTL DEF Spec
-----------------------------------------------------------------------------
(* One live share *)

(* Only the active share may be alive, and only it may be in the file. *)
LEMMA PersistKeepsSingle ==
  ASSUME TypeOK, SingleLiveShare, Persist,
         \A s \in Session : state'[s] \in LiveStates => activeID' = s
  PROVE  \A s \in Session : store'.state[s] # "none" => store'.activeID = s
<1>1. CASE store' = store
  BY <1>1 DEF SingleLiveShare
<1>2. CASE store' = Image(state', connectionMode', activeID')
  BY <1>2 DEF Image
<1> QED
  BY <1>1, <1>2 DEF Persist, SaveOutcomes

LEMMA SetWebRTCStateKeepsSingle ==
  ASSUME TypeOK, SingleLiveShare, NEW s, NEW mode, SetWebRTCState(s, mode)
  PROVE  SingleLiveShare'
<1>1. UNCHANGED <<state, activeID>>
  BY DEF SetWebRTCState
<1>2. Persist \/ UNCHANGED store
  BY DEF SetWebRTCState, PersistIf
<1>3. \A r \in Session : state'[r] \in LiveStates => activeID' = r
  BY <1>1 DEF SingleLiveShare, Live
<1> QED
  BY <1>1, <1>2, <1>3, PersistKeepsSingle DEF SingleLiveShare, Live

LEMMA StepSingleLiveShare == TypeOK /\ SingleLiveShare /\ [Next]_vars => SingleLiveShare'
<1> SUFFICES ASSUME TypeOK, SingleLiveShare, [Next]_vars
             PROVE  SingleLiveShare'
  OBVIOUS
<1> DEFINE OneLive == \A s \in Session : state'[s] \in LiveStates => activeID' = s
<1>a. ASSUME OneLive, Persist \/ UNCHANGED store PROVE SingleLiveShare'
  BY <1>a, PersistKeepsSingle DEF SingleLiveShare, Live
<1>b. ASSUME UNCHANGED <<state, activeID, store>> PROVE SingleLiveShare'
  BY <1>b DEF SingleLiveShare, Live
<1>c. \A s \in Session : RefreshedState[s] \in LiveStates => RefreshedActive = s
  <2> SUFFICES ASSUME NEW s \in Session, RefreshedState[s] \in LiveStates
               PROVE  RefreshedActive = s
    OBVIOUS
  <2>1. Live(s)
    BY DEF RefreshedState, Live, TypeOK, LiveStates
  <2>2. activeID = s /\ s # None
    BY <2>1, NoneAssumption DEF SingleLiveShare
  <2> QED
    BY <2>2 DEF RefreshedActive
<1>1. CASE RefreshSessions
  <2>1. OneLive
    BY <1>1, <1>c DEF RefreshSessions
  <2> QED
    BY <1>1, <1>a, <2>1 DEF RefreshSessions, PersistIf
<1>2. CASE Restart
  <2>1. \A s \in Session : state'[s] \in LiveStates =>
                           store.state[s] \in LiveStates /\ ~due[s]
    BY <1>2 DEF Restart, LiveStates
  <2>2. \A s \in Session : store.state[s] \in LiveStates => store.activeID = s
    BY DEF SingleLiveShare, LiveStates
  <2>3. \A s \in Session : state'[s] \in LiveStates => activeID' = s
    BY <1>2, <2>1, <2>2, NoneAssumption DEF Restart
  <2>4. UNCHANGED store
    BY <1>2 DEF Restart
  <2> QED
    BY <1>a, <2>3, <2>4
<1>3. ASSUME NEW s \in Session, Deadline(s) PROVE SingleLiveShare'
  BY <1>3, <1>b DEF Deadline
<1>4. ASSUME NEW s \in Session, CreateSession(s) PROVE SingleLiveShare'
  <2>1. \A r \in Session : RefreshedState[r] \notin LiveStates
    BY <1>4, <1>c, NoneAssumption DEF CreateSession
  <2>2. OneLive
    BY <1>4, <2>1, RefreshedTypes DEF CreateSession
  <2>3. ASSUME NEW mid,
               mid \in IF RefreshedState = state THEN {store}
                       ELSE SaveOutcomes(store, Image(RefreshedState, RefreshedMode, None))
        PROVE  \A r \in Session : mid.state[r] # "none" => mid.activeID = r
    <3>1. CASE mid = store
      BY <3>1 DEF SingleLiveShare
    <3>2. CASE mid = Image(RefreshedState, RefreshedMode, None)
      BY <3>2, <2>1 DEF Image
    <3> QED
      BY <2>3, <3>1, <3>2 DEF SaveOutcomes
  <2>4. \A r \in Session : Image(state', connectionMode', activeID').state[r] # "none" =>
                           Image(state', connectionMode', activeID').activeID = r
    BY <2>2 DEF Image
  <2>5. \A r \in Session : store'.state[r] # "none" => store'.activeID = r
    BY <1>4, <2>3, <2>4 DEF CreateSession, SaveOutcomes
  <2> QED
    BY <2>2, <2>5 DEF SingleLiveShare, Live
<1>5. ASSUME NEW s \in Session, ExpireOnLookup(s) PROVE SingleLiveShare'
  <2>1. OneLive
    BY <1>5 DEF ExpireOnLookup, SingleLiveShare, Live, TypeOK, LiveStates
  <2> QED
    BY <1>5, <1>a, <2>1 DEF ExpireOnLookup
<1>6. ASSUME NEW s \in Session, StopSession(s) PROVE SingleLiveShare'
  <2>1. OneLive
    BY <1>6 DEF StopSession, SingleLiveShare, Live, TypeOK, LiveStates
  <2> QED
    BY <1>6, <1>a, <2>1 DEF StopSession
<1>7. ASSUME NEW s \in Session, SetStreamProfile(s) PROVE SingleLiveShare'
  BY <1>7, <1>a DEF SetStreamProfile, sessionVars, SingleLiveShare, Live
<1>8. ASSUME NEW s \in Session, NEW requested \in issued \cup {None},
             JoinSession(s, requested)
      PROVE SingleLiveShare'
  <2>1. OneLive
    BY <1>8 DEF JoinSession, Usable, SingleLiveShare, Live, TypeOK
  <2> QED
    BY <1>8, <1>a, <2>1 DEF JoinSession
<1>9. ASSUME NEW s \in Session, NEW t \in issued, NEW p \in Peer, Offer(s, t, p)
      PROVE SingleLiveShare'
  BY <1>9, <1>b DEF Offer
<1>10. ASSUME NEW p \in Peer, AnswerReady(p) PROVE SingleLiveShare'
  BY <1>10, <1>b DEF AnswerReady, sessionVars
<1>11. ASSUME NEW p \in Peer, AnswerFails(p) PROVE SingleLiveShare'
  BY <1>11, SetWebRTCStateKeepsSingle DEF AnswerFails
<1>12. ASSUME NEW p \in Peer, Register(p) PROVE SingleLiveShare'
  BY <1>12, <1>b DEF Register, sessionVars
<1>13. ASSUME NEW p \in Peer, ClosePeer(p) PROVE SingleLiveShare'
  BY <1>13, <1>b DEF ClosePeer, sessionVars
<1>14. ASSUME NEW p \in Peer, NEW mode \in Reports, PeerReports(p, mode)
       PROVE SingleLiveShare'
  BY <1>14, <1>b, SetWebRTCStateKeepsSingle DEF PeerReports, SetSessionState, sessionVars
<1>15. CASE UNCHANGED vars
  BY <1>15, <1>b DEF vars, sessionVars
<1> QED
  BY <1>1, <1>2, <1>3, <1>4, <1>5, <1>6, <1>7, <1>8, <1>9, <1>10, <1>11, <1>12,
     <1>13, <1>14, <1>15
  DEF Next

(* PhoneBridge never has two live shares, in memory or in its file,        *)
(* whatever saves failed and however often it restarted.                   *)
THEOREM OneLiveShare == Spec => []SingleLiveShare
<1>1. ASSUME Init PROVE SingleLiveShare
  <2>1. \A s \in Session : state[s] = "fresh"
    BY <1>1 DEF Init
  <2>2. \A s \in Session : store.state[s] = "none"
    BY <1>1, <2>1 DEF Init, Image, LiveStates
  <2> QED
    BY <2>1, <2>2 DEF SingleLiveShare, Live, LiveStates
<1> QED
  BY <1>1, TypeCorrect, StepSingleLiveShare, PTL DEF Spec
-----------------------------------------------------------------------------
(* The registry and the lease *)

(* Taking the registered peer of s out of the registry marks that peer and *)
(* leaves every other one as it was.                                       *)
LEMMA EvictedPeer ==
  ASSUME TypeOK, LeaseInv, NEW s \in Session, NEW p \in Peer
  PROVE  /\ Evicted(s)[p] = IF p = webrtcPeers[s] THEN "evicted" ELSE phase[p]
         /\ Evicted(s)[p] = "open" => phase[p] = "open" /\ p # webrtcPeers[s]
         /\ Evicted(s)[p] \in {"offered", "answered"} <=> InFlight(p)
BY NoneAssumption DEF Evicted, LeaseInv, RegisteredPeerHoldsLease, InFlight, TypeOK

LEMMA EvictedPeerTokens ==
  ASSUME TypeOK, LeaseInv, NEW s \in Session, NEW p \in Peer,
         Evicted(s)[p] \in {"offered", "answered", "open", "evicted"}
  PROVE  sessionID[p] \in Session /\ offerToken[p] \in issued
<1>1. CASE p = webrtcPeers[s]
  <2>1. phase[p] = "open"
    BY <1>1, NoneAssumption DEF LeaseInv, RegisteredPeerHoldsLease
  <2> QED
    BY <2>1 DEF LeaseInv, TokensIssued
<1>2. CASE p # webrtcPeers[s]
  BY <1>2 DEF Evicted, LeaseInv, TokensIssued
<1> QED
  BY <1>1, <1>2

LEMMA InitLeaseInv == Init => LeaseInv
BY DEF Init, LeaseInv, RegisteredPeerHoldsLease, TokensIssued, OneOfferInFlight,
       NoPeerBehindOffer, NoOrphanPeer, InFlight

(* A step that leaves the registry, the lease and the peers alone, and     *)
(* changes the state of a share with a registered peer at most from        *)
(* connected to expired, keeps the invariant.                              *)
LEMMA LeaseInvFrame ==
  ASSUME LeaseInv,
         UNCHANGED <<viewerToken, issued, webrtcPeers, phase, sessionID, offerToken>>,
         \A s \in Session : state[s] \in {"connected", "expired"} =>
                            state'[s] \in {"connected", "expired"}
  PROVE  LeaseInv'
BY DEF LeaseInv, RegisteredPeerHoldsLease, TokensIssued, OneOfferInFlight,
       NoPeerBehindOffer, NoOrphanPeer, InFlight

LEMMA StepLeaseInv == TypeOK /\ LeaseInv /\ [Next]_vars => LeaseInv'
<1> SUFFICES ASSUME TypeOK, LeaseInv, [Next]_vars
             PROVE  LeaseInv'
  OBVIOUS
<1>1. CASE RefreshSessions
  BY <1>1, LeaseInvFrame DEF RefreshSessions, RefreshedState, peerVars
<1>2. CASE Restart
  <2>1. /\ \A s \in Session : webrtcPeers'[s] = None /\ viewerToken'[s] = None
        /\ \A p \in Peer : phase'[p] \in {"unused", "dead"}
    BY <1>2 DEF Restart
  <2> QED
    BY <2>1 DEF LeaseInv, RegisteredPeerHoldsLease, TokensIssued, OneOfferInFlight,
                NoPeerBehindOffer, NoOrphanPeer, InFlight
<1>3. ASSUME NEW s \in Session, Deadline(s) PROVE LeaseInv'
  BY <1>3, LeaseInvFrame DEF Deadline, peerVars
<1>4. ASSUME NEW s \in Session, CreateSession(s) PROVE LeaseInv'
  <2>1. \A r \in Session : state[r] \in {"connected", "expired"} =>
                           state'[r] \in {"connected", "expired"}
    BY <1>4 DEF CreateSession, RefreshedState, TypeOK
  <2> QED
    BY <1>4, <2>1, LeaseInvFrame DEF CreateSession, peerVars
<1>5. ASSUME NEW s \in Session, ExpireOnLookup(s) PROVE LeaseInv'
  BY <1>5, LeaseInvFrame DEF ExpireOnLookup, TypeOK, peerVars
<1>6. ASSUME NEW s \in Session, StopSession(s) PROVE LeaseInv'
  <2>1. RegisteredPeerHoldsLease'
    BY <1>6, EvictedPeer DEF StopSession, LeaseInv, RegisteredPeerHoldsLease, TypeOK
  <2>2. TokensIssued'
    BY <1>6, EvictedPeerTokens DEF StopSession, LeaseInv, TokensIssued
  <2>3. ASSUME OneOfferPerLease
        PROVE  (OneOfferInFlight /\ NoPeerBehindOffer /\ NoOrphanPeer)'
    BY <1>6, <2>3, EvictedPeer
    DEF StopSession, LeaseInv, RegisteredPeerHoldsLease, OneOfferInFlight,
        NoPeerBehindOffer, NoOrphanPeer, InFlight, TypeOK
  <2> QED
    BY <2>1, <2>2, <2>3 DEF LeaseInv
<1>7. ASSUME NEW s \in Session, SetStreamProfile(s) PROVE LeaseInv'
  BY <1>7, LeaseInvFrame DEF SetStreamProfile, sessionVars, peerVars
<1>8. ASSUME NEW s \in Session, NEW requested \in issued \cup {None},
             JoinSession(s, requested)
      PROVE LeaseInv'
  <2>0. PICK t \in JoinTokens(s, requested) :
          /\ viewerToken' = [viewerToken EXCEPT ![s] = t]
          /\ issued' = issued \cup {t}
    BY <1>8 DEF JoinSession
  <2>1. t \in Token /\ (t = viewerToken[s] \/ t \notin issued)
    BY NoneAssumption DEF JoinTokens, TypeOK
  <2>2. RegisteredPeerHoldsLease'
    BY <1>8, <2>0, EvictedPeer DEF JoinSession, LeaseInv, RegisteredPeerHoldsLease, TypeOK
  <2>3. TokensIssued'
    <3>1. \A r \in Session : viewerToken'[r] \in issued' \cup {None}
      BY <2>0 DEF LeaseInv, TokensIssued, TypeOK
    <3>2. \A q \in Peer : phase'[q] \in {"offered", "answered", "open", "evicted"} =>
                          sessionID'[q] \in Session /\ offerToken'[q] \in issued'
      BY <1>8, <2>0, EvictedPeerTokens DEF JoinSession
    <3> QED
      BY <3>1, <3>2 DEF TokensIssued
  <2>4. ASSUME OneOfferPerLease
        PROVE  (OneOfferInFlight /\ NoPeerBehindOffer /\ NoOrphanPeer)'
    <3>1. OneOfferInFlight'
      BY <1>8, <2>4, EvictedPeer DEF JoinSession, LeaseInv, OneOfferInFlight, InFlight, TypeOK
    <3>2. NoPeerBehindOffer'
      <4> SUFFICES ASSUME NEW p \in Peer, InFlight(p)',
                          (offerToken[p] = viewerToken[sessionID[p]])'
                   PROVE  (webrtcPeers[sessionID[p]] = None)'
        BY DEF NoPeerBehindOffer
      <4>1. InFlight(p) /\ sessionID'[p] = sessionID[p] /\ offerToken'[p] = offerToken[p]
        BY <1>8, EvictedPeer DEF JoinSession, InFlight
      <4>2. sessionID[p] \in Session /\ offerToken[p] \in issued
        BY <4>1 DEF LeaseInv, TokensIssued, InFlight
      <4>3. CASE sessionID[p] = s
        BY <1>8, <4>1, <4>3 DEF JoinSession, TypeOK
      <4>4. CASE sessionID[p] # s
        BY <1>8, <2>0, <2>4, <4>1, <4>2, <4>4
        DEF JoinSession, LeaseInv, NoPeerBehindOffer, TypeOK
      <4> QED
        BY <4>3, <4>4
    <3>3. NoOrphanPeer'
      BY <1>8, <2>4, EvictedPeer
      DEF JoinSession, LeaseInv, RegisteredPeerHoldsLease, TokensIssued, NoOrphanPeer, TypeOK
    <3> QED
      BY <3>1, <3>2, <3>3
  <2> QED
    BY <2>2, <2>3, <2>4 DEF LeaseInv
<1>9. ASSUME NEW s \in Session, NEW t \in issued, NEW p \in Peer, Offer(s, t, p)
      PROVE LeaseInv'
  <2>0. \A q \in Peer : phase'[q] = IF q = p THEN "offered" ELSE Evicted(s)[q]
    BY <1>9 DEF Offer, Evicted
  <2>1. RegisteredPeerHoldsLease'
    BY <1>9, <2>0, EvictedPeer DEF Offer, LeaseInv, RegisteredPeerHoldsLease, TypeOK
  <2>2. TokensIssued'
    BY <1>9, <2>0, EvictedPeerTokens DEF Offer, LeaseInv, TokensIssued, TypeOK
  <2>3. ASSUME OneOfferPerLease
        PROVE  (OneOfferInFlight /\ NoPeerBehindOffer /\ NoOrphanPeer)'
    <3>1. OneOfferInFlight'
      BY <1>9, <2>0, <2>3, EvictedPeer DEF Offer, LeaseInv, OneOfferInFlight, InFlight, TypeOK
    <3>2. NoPeerBehindOffer'
      BY <1>9, <2>0, <2>3, EvictedPeer
      DEF Offer, LeaseInv, TokensIssued, NoPeerBehindOffer, InFlight, TypeOK
    <3>3. NoOrphanPeer'
      BY <1>9, <2>0, <2>3, EvictedPeer
      DEF Offer, LeaseInv, RegisteredPeerHoldsLease, TokensIssued, NoOrphanPeer, TypeOK
    <3> QED
      BY <3>1, <3>2, <3>3
  <2> QED
    BY <2>1, <2>2, <2>3 DEF LeaseInv
<1>10. ASSUME NEW p \in Peer, AnswerReady(p) PROVE LeaseInv'
  BY <1>10
  DEF AnswerReady, Answering, sessionVars, LeaseInv, RegisteredPeerHoldsLease, TokensIssued,
      OneOfferInFlight, NoPeerBehindOffer, NoOrphanPeer, InFlight, TypeOK
<1>11. ASSUME NEW p \in Peer, AnswerFails(p) PROVE LeaseInv'
  BY <1>11
  DEF AnswerFails, Answering, SetWebRTCState, LeaseInv, RegisteredPeerHoldsLease, TokensIssued,
      OneOfferInFlight, NoPeerBehindOffer, NoOrphanPeer, InFlight, TypeOK
<1>12. ASSUME NEW p \in Peer, Register(p) PROVE LeaseInv'
  <2>0. InFlight(p) /\ sessionID[p] \in Session /\ offerToken[p] \in issued
    BY <1>12 DEF Register, InFlight, LeaseInv, TokensIssued
  <2>1. RegisteredPeerHoldsLease'
    BY <1>12, <2>0
    DEF Register, OfferStands, sessionVars, LeaseInv, RegisteredPeerHoldsLease, TypeOK
  <2>2. TokensIssued'
    BY <1>12, <2>0 DEF Register, sessionVars, LeaseInv, TokensIssued, TypeOK
  <2>3. ASSUME OneOfferPerLease
        PROVE  (OneOfferInFlight /\ NoPeerBehindOffer /\ NoOrphanPeer)'
    <3>1. OneOfferInFlight'
      BY <1>12, <2>3 DEF Register, LeaseInv, OneOfferInFlight, InFlight, TypeOK
    <3>2. NoPeerBehindOffer'
      BY <1>12, <2>0, <2>3
      DEF Register, OfferStands, sessionVars, LeaseInv, TokensIssued, OneOfferInFlight,
          NoPeerBehindOffer, InFlight, TypeOK
    <3>3. NoOrphanPeer'
      BY <1>12, <2>0, <2>3, NoneAssumption
      DEF Register, OfferStands, sessionVars, LeaseInv, TokensIssued, NoPeerBehindOffer,
          NoOrphanPeer, InFlight, TypeOK
    <3> QED
      BY <3>1, <3>2, <3>3
  <2> QED
    BY <2>1, <2>2, <2>3 DEF LeaseInv
<1>13. ASSUME NEW p \in Peer, ClosePeer(p) PROVE LeaseInv'
  BY <1>13
  DEF ClosePeer, sessionVars, LeaseInv, RegisteredPeerHoldsLease, TokensIssued,
      OneOfferInFlight, NoPeerBehindOffer, NoOrphanPeer, InFlight, TypeOK
<1>14. ASSUME NEW p \in Peer, NEW mode \in Reports, PeerReports(p, mode)
       PROVE LeaseInv'
  BY <1>14, LeaseInvFrame DEF PeerReports, SetSessionState, SetWebRTCState, sessionVars
<1>15. CASE UNCHANGED vars
  BY <1>15, LeaseInvFrame DEF vars, sessionVars, peerVars
<1> QED
  BY <1>1, <1>2, <1>3, <1>4, <1>5, <1>6, <1>7, <1>8, <1>9, <1>10, <1>11, <1>12,
     <1>13, <1>14, <1>15
  DEF Next

(* The inductive invariant of the lease: registry, tokens and offers in     *)
(* flight fit together, for any shares, viewers and peers.                  *)
THEOREM LeaseInvariant == Spec => []LeaseInv
BY InitLeaseInv, StepLeaseInv, TypeCorrect, PTL DEF Spec

(* Types and leases together: the inductive invariant of the server.       *)
THEOREM ServerInvariant == Spec => []ServerInv
BY TypeCorrect, LeaseInvariant, PTL DEF ServerInv

(* The registered peer always belongs to the holder of the lease of a      *)
(* share that was not stopped.                                             *)
THEOREM RegistryFollowsLease == Spec => []RegisteredPeerHoldsLease
<1>1. LeaseInv => RegisteredPeerHoldsLease
  BY DEF LeaseInv
<1> QED
  BY <1>1, LeaseInvariant, PTL

(* Where no viewer sends an offer while it awaits the answer to another,   *)
(* only the holder's data channel moves the phone.                         *)
THEOREM ControlFollowsLease ==
  ASSUME OneOfferPerLease
  PROVE  Spec => []PeerControlFollowsLease
<1>1. TypeOK /\ LeaseInv => PeerControlFollowsLease
  BY NoneAssumption
  DEF LeaseInv, RegisteredPeerHoldsLease, TokensIssued, NoOrphanPeer,
      PeerControlFollowsLease, AcceptsPeerControl
<1> QED
  BY <1>1, InitLeaseInv, StepLeaseInv, TypeCorrect, PTL DEF Spec
-----------------------------------------------------------------------------
(* The connection mode *)

(* What ReportedModeTruthful says of one session. *)
ModeTruthful(s) ==
  /\ Live(s) /\ viewerToken[s] # None
  /\ connectionMode[s] \in {"webrtc", "reconnecting"}
  => /\ webrtcPeers[s] # None
     /\ reported[webrtcPeers[s]] = connectionMode[s]

LEMMA StepModeTruthful ==
  ASSUME OneOfferPerLease, TypeOK, LeaseInv, ReportedModeTruthful, [Next]_vars,
         NEW s \in Session
  PROVE  ModeTruthful(s)'
<1> USE DEF ModeTruthful
<1>0. ModeTruthful(s)
  BY DEF ReportedModeTruthful
<1>a. ASSUME Live(s)' => Live(s), UNCHANGED <<viewerToken, webrtcPeers, reported>>,
             connectionMode'[s] \in {connectionMode[s], "not-connected", "fallback-screen"}
      PROVE  ModeTruthful(s)'
  BY <1>0, <1>a
<1>b. ASSUME connectionMode'[s] \notin {"webrtc", "reconnecting"} PROVE ModeTruthful(s)'
  BY <1>b
<1>1. CASE RefreshSessions
  BY <1>1, <1>a DEF RefreshSessions, RefreshedState, RefreshedMode, Live, peerVars
<1>2. CASE Restart
  BY <1>2 DEF Restart
<1>3. ASSUME NEW r \in Session, Deadline(r) \/ SetStreamProfile(r) PROVE ModeTruthful(s)'
  BY <1>3, <1>a DEF Deadline, SetStreamProfile, Live, sessionVars, peerVars
<1>4. ASSUME NEW r \in Session, CreateSession(r) PROVE ModeTruthful(s)'
  <2>1. CASE r = s
    BY <1>4, <1>b, <2>1, RefreshedTypes DEF CreateSession
  <2>2. CASE r # s
    BY <1>4, <1>a, <2>2, RefreshedTypes
       DEF CreateSession, RefreshedState, RefreshedMode, Live, peerVars
  <2> QED
    BY <2>1, <2>2
<1>5. ASSUME NEW r \in Session, ExpireOnLookup(r) PROVE ModeTruthful(s)'
  BY <1>5, <1>a DEF ExpireOnLookup, Live, LiveStates, TypeOK, peerVars
<1>c. ASSUME NEW r \in Session, r # s => /\ UNCHANGED reported
                                       /\ connectionMode'[s] = connectionMode[s]
                                       /\ webrtcPeers'[s] = webrtcPeers[s]
                                       /\ state'[s] = state[s]
                                       /\ viewerToken'[s] = viewerToken[s],
             connectionMode'[r] \notin {"webrtc", "reconnecting"}
      PROVE  ModeTruthful(s)'
  BY <1>0, <1>c DEF Live
<1>6. ASSUME NEW r \in Session, StopSession(r) PROVE ModeTruthful(s)'
  BY <1>6, <1>c DEF StopSession, TypeOK
<1>12. ASSUME NEW r \in Session, NEW requested \in issued \cup {None}, JoinSession(r, requested)
       PROVE  ModeTruthful(s)'
  BY <1>12, <1>c DEF JoinSession, TypeOK
<1>13. ASSUME NEW r \in Session, NEW t \in issued, NEW p \in Peer, Offer(r, t, p)
       PROVE  ModeTruthful(s)'
  BY <1>13, <1>c DEF Offer, TypeOK
<1>7. ASSUME NEW p \in Peer, AnswerReady(p) \/ ClosePeer(p) PROVE ModeTruthful(s)'
  BY <1>7, <1>a DEF AnswerReady, ClosePeer, Live, sessionVars
<1>8. ASSUME NEW p \in Peer, AnswerFails(p) PROVE ModeTruthful(s)'
  BY <1>8, <1>a DEF AnswerFails, SetWebRTCState, Live, TypeOK
(* A peer is registered while its holder has none: the mode is not one of  *)
(* the two then.                                                           *)
<1>9. ASSUME NEW p \in Peer, Register(p) PROVE ModeTruthful(s)'
  <2>1. CASE OfferStands(p) /\ sessionID[p] = s
    <3>1. webrtcPeers[s] = None
      BY <1>9, <2>1 DEF Register, OfferStands, LeaseInv, NoPeerBehindOffer, InFlight
    <3>2. Live(s) /\ viewerToken[s] # None
      BY <1>9, <2>1, NoneAssumption
         DEF Register, OfferStands, Live, LiveStates, LeaseInv, TokensIssued, TypeOK
    <3>3. connectionMode[s] \notin {"webrtc", "reconnecting"}
      BY <1>0, <3>1, <3>2
    <3> QED
      BY <1>9, <1>b, <3>3 DEF Register, sessionVars
  <2>2. CASE ~(OfferStands(p) /\ sessionID[p] = s)
    <3>1. UNCHANGED <<sessionVars, reported>> /\ webrtcPeers'[s] = webrtcPeers[s]
      BY <1>9, <2>2 DEF Register, TypeOK
    <3> QED
      BY <1>0, <3>1 DEF sessionVars, Live
  <2> QED
    BY <2>1, <2>2
(* A report changes what an open peer said, and an open peer is registered. *)
<1>10. ASSUME NEW p \in Peer, NEW mode \in Reports, PeerReports(p, mode) PROVE ModeTruthful(s)'
  <2>1. CASE webrtcPeers[s] = p
    <3>1. phase[p] = "open" /\ sessionID[p] = s
      BY <2>1, NoneAssumption DEF LeaseInv, RegisteredPeerHoldsLease
    <3>2. reported'[p] = mode /\ UNCHANGED webrtcPeers /\ SetWebRTCState(s, mode)
      BY <1>10, <2>1, <3>1 DEF PeerReports, SetSessionState, TypeOK
    <3> QED
      BY <2>1, <3>2, NoneAssumption DEF SetWebRTCState, Live, TypeOK
  <2>2. CASE webrtcPeers[s] # p
    <3>1. UNCHANGED <<state, viewerToken, webrtcPeers>>
      BY <1>10 DEF PeerReports, SetSessionState, SetWebRTCState, sessionVars
    <3>2. connectionMode'[s] = connectionMode[s]
      <4>1. CASE webrtcPeers[sessionID[p]] = p
        BY <1>10, <2>2, <4>1 DEF PeerReports, SetSessionState, SetWebRTCState, TypeOK
      <4>2. CASE webrtcPeers[sessionID[p]] # p
        BY <1>10, <4>2 DEF PeerReports, SetSessionState, sessionVars
      <4> QED
        BY <4>1, <4>2
    <3>3. webrtcPeers[s] # None => reported'[webrtcPeers[s]] = reported[webrtcPeers[s]]
      BY <1>10, <2>2 DEF PeerReports, TypeOK
    <3> QED
      BY <1>0, <3>1, <3>2, <3>3 DEF Live
  <2> QED
    BY <2>1, <2>2
<1>11. CASE UNCHANGED vars
  BY <1>11, <1>a DEF vars, sessionVars, peerVars, Live
<1> QED
  BY <1>1, <1>2, <1>3, <1>4, <1>5, <1>6, <1>7, <1>8, <1>9, <1>10, <1>11, <1>12, <1>13 DEF Next

(* Nobody holds a share before it was joined. *)
NoHolderYet == \A s \in Session : state[s] \in {"fresh", "waiting"} => viewerToken[s] = None

LEMMA StepNoHolderYet ==
  ASSUME TypeOK, NoHolderYet, [Next]_vars PROVE NoHolderYet'
<1> USE DEF NoHolderYet
<1>1. ASSUME UNCHANGED viewerToken,
             \A s \in Session : state'[s] \in {"fresh", "waiting"} =>
                               state[s] \in {"fresh", "waiting"}
      PROVE  NoHolderYet'
  BY <1>1
<1>2. CASE RefreshSessions
  BY <1>1, <1>2 DEF RefreshSessions, RefreshedState
<1>3. CASE Restart
  BY <1>3 DEF Restart
<1>4. ASSUME NEW s \in Session,
             Deadline(s) \/ ExpireOnLookup(s) \/ StopSession(s) \/ SetStreamProfile(s)
      PROVE  NoHolderYet'
  BY <1>1, <1>4 DEF Deadline, ExpireOnLookup, StopSession, SetStreamProfile, sessionVars, TypeOK
<1>5. ASSUME NEW s \in Session, CreateSession(s) PROVE NoHolderYet'
  BY <1>1, <1>5 DEF CreateSession, RefreshedState
<1>6. ASSUME NEW s \in Session, NEW requested \in issued \cup {None}, JoinSession(s, requested)
      PROVE  NoHolderYet'
  BY <1>6 DEF JoinSession, TypeOK
<1>7. ASSUME NEW s \in Session, NEW t \in issued, NEW p \in Peer, Offer(s, t, p)
      PROVE  NoHolderYet'
  BY <1>1, <1>7 DEF Offer
<1>8. ASSUME NEW p \in Peer, AnswerReady(p) \/ AnswerFails(p) \/ Register(p) \/ ClosePeer(p)
      PROVE  NoHolderYet'
  BY <1>1, <1>8 DEF AnswerReady, AnswerFails, Register, ClosePeer, SetWebRTCState, sessionVars
<1>9. ASSUME NEW p \in Peer, NEW mode \in Reports, PeerReports(p, mode) PROVE NoHolderYet'
  BY <1>1, <1>9 DEF PeerReports, SetSessionState, SetWebRTCState, sessionVars
<1>10. CASE UNCHANGED vars
  BY <1>10 DEF vars, sessionVars
<1> QED
  BY <1>2, <1>3, <1>4, <1>5, <1>6, <1>7, <1>8, <1>9, <1>10 DEF Next

(* A peer has nothing to report before it is registered. *)
SilentUntilOpen ==
  \A p \in Peer : phase[p] \in {"unused", "offered", "answered"} => reported[p] = "none"

LEMMA StepSilentUntilOpen ==
  ASSUME TypeOK, SilentUntilOpen, [Next]_vars
  PROVE  SilentUntilOpen'
<1> USE DEF SilentUntilOpen, TypeOK
<1>1. CASE UNCHANGED <<phase, reported>>
  BY <1>1
<1>2. CASE Restart
  BY <1>2 DEF Restart
<1>3. ASSUME NEW s \in Session,
             StopSession(s) \/ \E requested \in issued \cup {None} : JoinSession(s, requested)
      PROVE  SilentUntilOpen'
  BY <1>3 DEF StopSession, JoinSession, Evicted
<1>4. ASSUME NEW s \in Session, NEW t \in issued, NEW p \in Peer, Offer(s, t, p)
      PROVE  SilentUntilOpen'
  BY <1>4 DEF Offer, Evicted
<1>5. ASSUME NEW p \in Peer, AnswerReady(p) \/ AnswerFails(p) \/ Register(p) \/ ClosePeer(p)
      PROVE  SilentUntilOpen'
  BY <1>5 DEF AnswerReady, AnswerFails, Answering, Register, ClosePeer
<1>6. ASSUME NEW p \in Peer, NEW mode \in Reports, PeerReports(p, mode) PROVE SilentUntilOpen'
  BY <1>6 DEF PeerReports
<1> QED
  BY <1>1, <1>2, <1>3, <1>4, <1>5, <1>6
     DEF Next, RefreshSessions, Deadline, CreateSession, ExpireOnLookup, SetStreamProfile,
         vars, sessionVars, peerVars

(* What NegotiationIsReal says of one session. *)
NegotiationHas(s) ==
  Live(s) /\ viewerToken[s] # None /\ connectionMode[s] = "negotiating-webrtc"
  => \E p \in Peer : Negotiates(p, s)

(* What ends an offer changes the mode in the same critical section, and an *)
(* offer that another one overtakes leaves the negotiation to it.           *)
LEMMA StepNegotiation ==
  ASSUME TypeOK, LeaseInv, NoHolderYet, SilentUntilOpen, NegotiationIsReal, [Next]_vars,
         NEW s \in Session
  PROVE  NegotiationHas(s)'
<1> USE DEF NegotiationHas
<1>0. NegotiationHas(s)
  BY DEF NegotiationIsReal
<1>a. ASSUME connectionMode'[s] # "negotiating-webrtc" PROVE NegotiationHas(s)'
  BY <1>a
<1>b. ASSUME UNCHANGED <<viewerToken, webrtcPeers, phase, sessionID, offerToken, reported>>,
             Live(s)' => Live(s), connectionMode'[s] \in {connectionMode[s], "not-connected"}
      PROVE  NegotiationHas(s)'
  BY <1>0, <1>b DEF Negotiates, InFlight
<1>c. ASSUME UNCHANGED <<sessionID, offerToken, reported>>,
             state'[s] = state[s], viewerToken'[s] = viewerToken[s],
             connectionMode'[s] = connectionMode[s], webrtcPeers'[s] = webrtcPeers[s],
             \A p \in Peer : sessionID[p] = s /\ InFlight(p) => InFlight(p)'
      PROVE  NegotiationHas(s)'
  BY <1>0, <1>c DEF Negotiates, Live
<1>1. CASE RefreshSessions
  BY <1>1, <1>b DEF RefreshSessions, RefreshedState, RefreshedMode, Live, peerVars
<1>2. CASE Restart
  BY <1>2 DEF Restart
<1>3. ASSUME NEW r \in Session, Deadline(r) \/ SetStreamProfile(r) PROVE NegotiationHas(s)'
  BY <1>3, <1>b DEF Deadline, SetStreamProfile, Live, sessionVars, peerVars
<1>4. ASSUME NEW r \in Session, CreateSession(r) PROVE NegotiationHas(s)'
  <2>1. CASE r = s
    BY <1>4, <1>a, <2>1, RefreshedTypes DEF CreateSession
  <2>2. CASE r # s
    BY <1>4, <1>b, <2>2, RefreshedTypes
       DEF CreateSession, RefreshedState, RefreshedMode, Live, peerVars
  <2> QED
    BY <2>1, <2>2
<1>5. ASSUME NEW r \in Session, ExpireOnLookup(r) PROVE NegotiationHas(s)'
  BY <1>5, <1>b DEF ExpireOnLookup, Live, LiveStates, TypeOK, peerVars
<1>6. ASSUME NEW r \in Session,
             StopSession(r) \/ \E requested \in issued \cup {None} : JoinSession(r, requested)
      PROVE  NegotiationHas(s)'
  <2>1. CASE r = s
    BY <1>6, <1>a, <2>1 DEF StopSession, JoinSession, TypeOK
  <2>2. CASE r # s
    BY <1>6, <1>c, <2>2, EvictedPeer DEF StopSession, JoinSession, InFlight, TypeOK
  <2> QED
    BY <2>1, <2>2
<1>7. ASSUME NEW r \in Session, NEW t \in issued, NEW p \in Peer, Offer(r, t, p)
      PROVE  NegotiationHas(s)'
  <2>1. \A q \in Peer : phase'[q] = IF q = p THEN "offered" ELSE Evicted(r)[q]
    BY <1>7 DEF Offer, Evicted
  <2>2. CASE r = s
    <3>1. Negotiates(p, s)'
      BY <1>7, <2>1, <2>2 DEF Offer, Negotiates, InFlight, SilentUntilOpen, TypeOK
    <3> QED
      BY <3>1
  <2>3. CASE r # s
    <3>1. ASSUME Live(s)', viewerToken'[s] # None, connectionMode'[s] = "negotiating-webrtc"
          PROVE  \E q \in Peer : Negotiates(q, s)'
      <4>1. PICK q \in Peer : Negotiates(q, s)
        BY <1>0, <1>7, <2>3, <3>1 DEF Offer, Live, TypeOK
      <4>2. q # p
        BY <1>7, <4>1, NoneAssumption DEF Offer, Negotiates, InFlight, LeaseInv, RegisteredPeerHoldsLease
      <4>3. Negotiates(q, s)'
        BY <1>7, <2>1, <2>3, <4>1, <4>2, EvictedPeer DEF Offer, Negotiates, InFlight, TypeOK
      <4> QED
        BY <4>3
    <3> QED
      BY <3>1
  <2> QED
    BY <2>2, <2>3
<1>8. ASSUME NEW p \in Peer, AnswerReady(p) \/ ClosePeer(p) PROVE NegotiationHas(s)'
  BY <1>8, <1>c DEF AnswerReady, ClosePeer, InFlight, sessionVars, TypeOK
<1>9. ASSUME NEW p \in Peer, AnswerFails(p) PROVE NegotiationHas(s)'
  <2>1. CASE sessionID[p] = s
    BY <1>9, <2>1 DEF AnswerFails, SetWebRTCState, Live, TypeOK
  <2>2. CASE sessionID[p] # s
    BY <1>9, <1>c, <2>2 DEF AnswerFails, SetWebRTCState, InFlight, TypeOK
  <2> QED
    BY <2>1, <2>2
<1>10. ASSUME NEW p \in Peer, Register(p) PROVE NegotiationHas(s)'
  <2>1. CASE OfferStands(p) /\ sessionID[p] = s
    <3>1. Negotiates(p, s)'
      BY <1>10, <2>1 DEF Register, OfferStands, Negotiates, SilentUntilOpen, sessionVars, TypeOK
    <3> QED
      BY <3>1
  <2>2. CASE ~OfferStands(p) /\ sessionID[p] = s
    <3>1. ASSUME Live(s), viewerToken[s] # None PROVE offerToken[p] # viewerToken[s]
      BY <2>2, <3>1 DEF OfferStands, Live, LiveStates, NoHolderYet
    <3>2. \A q \in Peer : Negotiates(q, s) /\ q # p => Negotiates(q, s)'
      BY <1>10, <2>2 DEF Register, Negotiates, InFlight, sessionVars, TypeOK
    <3> QED
      BY <1>0, <1>10, <3>1, <3>2 DEF Register, Negotiates, sessionVars, Live
  <2>3. CASE sessionID[p] # s
    BY <1>10, <1>c, <2>3 DEF Register, InFlight, sessionVars, TypeOK
  <2> QED
    BY <2>1, <2>2, <2>3
<1>11. ASSUME NEW p \in Peer, NEW mode \in Reports, PeerReports(p, mode) PROVE NegotiationHas(s)'
  <2>1. CASE webrtcPeers[s] = p
    <3>1. phase[p] = "open" /\ sessionID[p] = s
      BY <2>1, NoneAssumption DEF LeaseInv, RegisteredPeerHoldsLease
    <3>2. SetWebRTCState(s, mode)
      BY <1>11, <2>1, <3>1 DEF PeerReports, SetSessionState
    <3> QED
      BY <3>2 DEF SetWebRTCState, Live, Reports, TypeOK
  <2>2. CASE webrtcPeers[s] # p
    <3>1. connectionMode'[s] = connectionMode[s]
      BY <1>11, <2>2 DEF PeerReports, SetSessionState, SetWebRTCState, sessionVars, TypeOK
    <3>2. \A q \in Peer : Negotiates(q, s) => q # p
      BY <1>11, <2>2 DEF PeerReports, Negotiates, InFlight
    <3>3. UNCHANGED <<state, viewerToken, webrtcPeers, phase, sessionID, offerToken>>
          /\ \A q \in Peer \ {p} : reported'[q] = reported[q]
      BY <1>11 DEF PeerReports, SetSessionState, SetWebRTCState, sessionVars, TypeOK
    <3>4. \A q \in Peer : Negotiates(q, s) => Negotiates(q, s)'
      BY <3>2, <3>3 DEF Negotiates, InFlight
    <3> QED
      BY <1>0, <3>1, <3>3, <3>4 DEF Live
  <2> QED
    BY <2>1, <2>2
<1>12. CASE UNCHANGED vars
  BY <1>12, <1>b DEF vars, sessionVars, peerVars, Live
<1> QED
  BY <1>1, <1>2, <1>3, <1>4, <1>5, <1>6, <1>7, <1>8, <1>9, <1>10, <1>11, <1>12 DEF Next

(* The owner page says "negotiating" of a joined share only while an offer  *)
(* of its holder is under way, or its peer has yet to report, even if       *)
(* offers of one viewer overlap.                                            *)
THEOREM NegotiationHasPeer == Spec => []NegotiationIsReal
<1>1. Init => NoHolderYet /\ SilentUntilOpen /\ NegotiationIsReal
  BY DEF Init, NoHolderYet, SilentUntilOpen, NegotiationIsReal
<1>2. TypeOK /\ LeaseInv /\ NoHolderYet /\ SilentUntilOpen /\ NegotiationIsReal /\ [Next]_vars
        => NoHolderYet' /\ SilentUntilOpen' /\ NegotiationIsReal'
  BY StepNoHolderYet, StepSilentUntilOpen, StepNegotiation DEF NegotiationHas, NegotiationIsReal
<1> QED
  BY <1>1, <1>2, TypeCorrect, LeaseInvariant, PTL DEF Spec

(* Where no viewer sends an offer while it awaits the answer to another,   *)
(* the mode of a joined share is what its registered peer said last.       *)
THEOREM ModeFollowsPeer ==
  ASSUME OneOfferPerLease
  PROVE  Spec => []ConnectionModeTruthful
<1>1. Init => ReportedModeTruthful
  BY DEF Init, ReportedModeTruthful
<1>2. TypeOK /\ LeaseInv /\ ReportedModeTruthful /\ [Next]_vars => ReportedModeTruthful'
  BY StepModeTruthful DEF ModeTruthful, ReportedModeTruthful
<1>3. ReportedModeTruthful /\ NegotiationIsReal => ConnectionModeTruthful
  BY DEF ConnectionModeTruthful
<1> QED
  BY <1>1, <1>2, <1>3, InitLeaseInv, StepLeaseInv, TypeCorrect, NegotiationHasPeer, PTL DEF Spec
=============================================================================
