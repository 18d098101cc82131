------------------------ MODULE ControlLease_proofs ------------------------
(***************************************************************************)
(* Proof that the server, as ShareLease models it, implements the abstract *)
(* lease of ControlLease when its saves succeed, that an ended share stays *)
(* ended, and that control is exclusive and a viewer who lost it stays out  *)
(* whatever saves fail; for any number of sessions, viewers and peers.     *)
(***************************************************************************)
EXTENDS ShareLease_proofs

(* A save that succeeds writes the live shares only. *)
LEMMA SavedFile ==
  ASSUME ~DiskMayFail, Persist PROVE FileFollowsMemory'
<1>1. store' = Image(state', connectionMode', activeID')
  BY DEF Persist, SaveOutcomes
<1>2. \A s \in Session : store'.state[s] = IF state'[s] \in LiveStates THEN state'[s] ELSE "none"
  BY <1>1 DEF Image
<1> QED
  BY <1>2 DEF FileFollowsMemory, Live

(* Without a save the file still fits, if what ended in memory was due. *)
LEMMA KeptFile ==
  ASSUME FileFollowsMemory, UNCHANGED store,
         \A s \in Session : ~due'[s] => ~due[s] /\ (Live(s) => Live(s)')
  PROVE  FileFollowsMemory'
BY DEF FileFollowsMemory

LEMMA StepFile ==
  ASSUME ~DiskMayFail, TypeOK, FileFollowsMemory, [Next]_vars
  PROVE  FileFollowsMemory'
<1>1. ASSUME UNCHANGED <<state, due, store>> PROVE FileFollowsMemory'
  BY <1>1, KeptFile DEF Live
<1>2. CASE RefreshSessions
  <2>1. CASE state' # state
    BY <1>2, <2>1, SavedFile DEF RefreshSessions, PersistIf
  <2>2. CASE state' = state
    BY <1>1, <1>2, <2>2 DEF RefreshSessions, PersistIf
  <2> QED
    BY <2>1, <2>2
<1>3. CASE Restart
  <2>1. \A s \in Session : store.state[s] # "none" => store.state[s] \in LiveStates
    BY DEF TypeOK
  <2>2. \A s \in Session : store.state[s] # "none" /\ ~due[s] => state'[s] \in LiveStates
    BY <1>3, <2>1 DEF Restart
  <2> QED
    BY <1>3, <2>2 DEF Restart, FileFollowsMemory, Live
<1>4. ASSUME NEW s \in Session, Deadline(s) PROVE FileFollowsMemory'
  BY <1>4, KeptFile DEF Deadline, Live, TypeOK
<1>5. ASSUME NEW s \in Session, CreateSession(s) PROVE FileFollowsMemory'
  <2>1. store' = Image(state', connectionMode', activeID')
    BY <1>5 DEF CreateSession, SaveOutcomes
  <2>2. Persist
    BY <2>1 DEF Persist, SaveOutcomes
  <2> QED
    BY <2>2, SavedFile
<1>6. ASSUME NEW s \in Session, ExpireOnLookup(s) PROVE FileFollowsMemory'
  BY <1>6, KeptFile DEF ExpireOnLookup, Live, TypeOK
<1>7. ASSUME NEW s \in Session, StopSession(s) PROVE FileFollowsMemory'
  BY <1>7, SavedFile DEF StopSession
<1>8. ASSUME NEW s \in Session, SetStreamProfile(s) PROVE FileFollowsMemory'
  BY <1>8, SavedFile DEF SetStreamProfile
<1>9. ASSUME NEW s \in Session, NEW requested \in issued \cup {None}, JoinSession(s, requested)
      PROVE  FileFollowsMemory'
  BY <1>9, SavedFile DEF JoinSession
<1>10. ASSUME NEW s, NEW mode, SetWebRTCState(s, mode) PROVE FileFollowsMemory'
  BY <1>1, <1>10, SavedFile DEF SetWebRTCState, PersistIf
<1>11. ASSUME NEW s \in Session, NEW t \in issued, NEW p \in Peer, Offer(s, t, p)
       PROVE  FileFollowsMemory'
  BY <1>1, <1>11 DEF Offer
<1>12. ASSUME NEW p \in Peer, AnswerReady(p) \/ Register(p) \/ ClosePeer(p)
       PROVE  FileFollowsMemory'
  BY <1>1, <1>12 DEF AnswerReady, Register, ClosePeer, sessionVars
<1>13. ASSUME NEW p \in Peer, AnswerFails(p) PROVE FileFollowsMemory'
  BY <1>10, <1>13 DEF AnswerFails
<1>14. ASSUME NEW p \in Peer, NEW mode \in Reports, PeerReports(p, mode)
       PROVE  FileFollowsMemory'
  BY <1>1, <1>10, <1>14 DEF PeerReports, SetSessionState, sessionVars
<1>15. CASE UNCHANGED vars
  BY <1>1, <1>15 DEF vars, sessionVars
<1> QED
  BY <1>2, <1>3, <1>4, <1>5, <1>6, <1>7, <1>8, <1>9, <1>11, <1>12, <1>13, <1>14, <1>15
  DEF Next

(* What a restart brings back was alive before it. *)
THEOREM FileIsCurrent == Spec => []FileFollowsMemory
<1>1. Init => FileFollowsMemory
  BY DEF Init, Image, FileFollowsMemory, LiveStates
<1>2. TypeOK /\ FileFollowsMemory /\ [Next]_vars => FileFollowsMemory'
  BY StepFile DEF FileFollowsMemory
<1> QED
  BY <1>1, <1>2, TypeCorrect, PTL DEF Spec
-----------------------------------------------------------------------------
(* Steps of the server that the abstract lease does not see, and those     *)
(* that end a share.                                                       *)
LEMMA Stutters ==
  ASSUME UNCHANGED issued,
         \A s \in Session : /\ state'[s] = "fresh" <=> state[s] = "fresh"
                            /\ Live(s)' <=> Live(s)
                            /\ Live(s) => viewerToken'[s] = viewerToken[s]
  PROVE  UNCHANGED Lease!vars
BY DEF Lease!vars, Live

LEMMA Ends ==
  ASSUME TypeOK, UNCHANGED <<viewerToken, issued>>,
         NEW s \in Session, Live(s), state'[s] \in EndedStates,
         \A r \in Session \ {s} : state'[r] = state[r]
  PROVE  Lease!End(s)
BY DEF Lease!End, Lease!EndAll, Live, LiveStates, EndedStates

LEMMA StepImplements ==
  ASSUME ~DiskMayFail, TypeOK, SingleLiveShare, FileFollowsMemory, NoHolderYet, [Next]_vars
  PROVE  [Lease!Next]_(Lease!vars)
<1>1. ASSUME UNCHANGED <<state, viewerToken, issued>> PROVE UNCHANGED Lease!vars
  BY <1>1, Stutters DEF Live
<1>2. ASSUME NEW s \in Session, Lease!End(s) PROVE Lease!Next
  BY <1>2 DEF Lease!Next
<1>3. CASE RefreshSessions
  <2>1. UNCHANGED <<viewerToken, issued>> /\ state' = RefreshedState
    BY <1>3 DEF RefreshSessions
  <2>2. CASE \E s \in Session : Live(s) /\ due[s]
    <3>1. PICK s \in Session : Live(s) /\ due[s]
      BY <2>2
    <3>2. \A r \in Session \ {s} : state'[r] = state[r]
      BY <2>1, <3>1 DEF RefreshedState, SingleLiveShare
    <3>3. state'[s] \in EndedStates
      BY <2>1, <3>1 DEF RefreshedState, EndedStates
    <3> QED
      BY <1>2, <2>1, <3>1, <3>2, <3>3, Ends
  <2>3. CASE ~\E s \in Session : Live(s) /\ due[s]
    <3>1. \A s \in Session : state'[s] = state[s]
      BY <2>1, <2>3 DEF RefreshedState
    <3> QED
      BY <2>1, <3>1, Stutters DEF Live
  <2> QED
    BY <2>2, <2>3
<1>4. CASE Restart
  <2> DEFINE lost == {s \in Session : Live(s) /\ state'[s] \notin LiveStates}
  <2>1. \A s \in Session : /\ state'[s] = "fresh" <=> state[s] = "fresh"
                           /\ state'[s] \in LiveStates => Live(s)
                           /\ viewerToken'[s] = None
    <3>1. \A s \in Session : store.state[s] \in LiveStates /\ ~due[s] => Live(s)
      BY DEF FileFollowsMemory, LiveStates
    <3>2. \A s \in Session : state'[s] \in LiveStates => Live(s)
      BY <1>4, <3>1 DEF Restart, LiveStates
    <3>3. \A s \in Session : state'[s] = "fresh" <=> state[s] = "fresh"
      BY <1>4, <3>1 DEF Restart, Live, LiveStates
    <3> QED
      BY <1>4, <3>2, <3>3 DEF Restart
  <2>2. lost \in SUBSET Lease!OpenShares
    BY DEF Lease!OpenShares, Live, LiveStates
  <2>3. Lease!Restart
    BY <1>4, <2>1, <2>2 DEF Lease!Restart, Restart, Live, LiveStates
  <2> QED
    BY <2>3 DEF Lease!Next
<1>5. ASSUME NEW s \in Session, Deadline(s) PROVE UNCHANGED Lease!vars
  BY <1>1, <1>5 DEF Deadline
<1>6. ASSUME NEW s \in Session, CreateSession(s) PROVE Lease!Next
  <2>1. \A r \in Session : RefreshedState[r] \notin LiveStates
    BY <1>6, NoneAssumption, RefreshedTypes
       DEF CreateSession, RefreshedActive, RefreshedState, SingleLiveShare, Live, TypeOK
  <2>2. /\ UNCHANGED <<viewerToken, issued>>
        /\ \A r \in Session : state'[r] = IF r = s THEN "waiting" ELSE RefreshedState[r]
    BY <1>6, RefreshedTypes DEF CreateSession
  <2>3. \A r \in Session : RefreshedState[r] = "fresh" <=> state[r] = "fresh"
    BY DEF RefreshedState, Live, LiveStates
  <2>4. state[s] = "fresh" /\ ~Live(s) /\ viewerToken[s] = None
    BY <1>6 DEF CreateSession, NoHolderYet, Live, LiveStates
  <2>5. \A r \in Session : r \in Lease!OpenShares <=> Live(r)
    BY DEF Lease!OpenShares, Live, LiveStates
  <2>6. Lease!Open(s)
    BY <2>1, <2>2, <2>3, <2>4, <2>5 DEF Lease!Open, Live, LiveStates
  <2> QED
    BY <2>6 DEF Lease!Next
<1>7. ASSUME NEW s \in Session, ExpireOnLookup(s) PROVE Lease!Next
  <2>1. /\ UNCHANGED <<viewerToken, issued>> /\ Live(s)
        /\ state'[s] \in EndedStates
        /\ \A r \in Session \ {s} : state'[r] = state[r]
    BY <1>7 DEF ExpireOnLookup, EndedStates, TypeOK
  <2> QED
    BY <1>2, <2>1, Ends
<1>8. ASSUME NEW s \in Session, StopSession(s) PROVE [Lease!Next]_(Lease!vars)
  <2>1. /\ UNCHANGED <<viewerToken, issued>>
        /\ state'[s] = "stopped" /\ state[s] # "fresh"
        /\ \A r \in Session \ {s} : state'[r] = state[r]
    BY <1>8 DEF StopSession, LiveStates, TypeOK
  <2>2. CASE Live(s)
    BY <1>2, <2>1, <2>2, Ends DEF EndedStates
  <2>3. CASE ~Live(s)
    BY <2>1, <2>3, Stutters DEF Live, LiveStates
  <2> QED
    BY <2>2, <2>3
<1>9. ASSUME NEW s \in Session, NEW requested \in issued \cup {None}, JoinSession(s, requested)
      PROVE  [Lease!Next]_(Lease!vars)
  <2>1. PICK t \in JoinTokens(s, requested) : /\ viewerToken' = [viewerToken EXCEPT ![s] = t]
                                             /\ issued' = issued \cup {t}
    BY <1>9 DEF JoinSession
  <2>2. Live(s) /\ state' = [state EXCEPT ![s] = "connected"]
    BY <1>9 DEF JoinSession, Usable
  <2>3. \A r \in Session : /\ state'[r] = "fresh" <=> state[r] = "fresh"
                           /\ Live(r)' <=> Live(r)
    BY <2>2 DEF Live, LiveStates, TypeOK
  <2>4. CASE t \in Token \ issued
    <3>1. Lease!Grant(s, t)
      BY <2>1, <2>2, <2>3, <2>4 DEF Lease!Grant, Live, LiveStates, TypeOK
    <3> QED
      BY <2>4, <3>1 DEF Lease!Next
  <2>5. CASE t = requested /\ requested # None /\ requested = viewerToken[s]
    <3>1. UNCHANGED issued
      BY <2>1, <2>5
    <3>2. \A r \in Session : viewerToken'[r] = viewerToken[r]
      BY <2>1, <2>5 DEF TypeOK
    <3> QED
      BY <2>3, <3>1, <3>2, Stutters
  <2> QED
    BY <2>1, <2>4, <2>5 DEF JoinTokens
<1>10. ASSUME NEW s \in Session, SetStreamProfile(s) PROVE UNCHANGED Lease!vars
  BY <1>1, <1>10 DEF SetStreamProfile, sessionVars
<1>11. ASSUME NEW s \in Session, NEW t \in issued, NEW p \in Peer, Offer(s, t, p)
       PROVE  UNCHANGED Lease!vars
  BY <1>1, <1>11 DEF Offer
<1>12. ASSUME NEW p \in Peer, AnswerReady(p) \/ AnswerFails(p) \/ Register(p) \/ ClosePeer(p)
       PROVE  UNCHANGED Lease!vars
  BY <1>1, <1>12 DEF AnswerReady, AnswerFails, Register, ClosePeer, SetWebRTCState, sessionVars
<1>13. ASSUME NEW p \in Peer, NEW mode \in Reports, PeerReports(p, mode)
       PROVE  UNCHANGED Lease!vars
  BY <1>1, <1>13 DEF PeerReports, SetSessionState, SetWebRTCState, sessionVars
<1>14. CASE UNCHANGED vars
  BY <1>1, <1>14 DEF vars, sessionVars
<1> QED
  BY <1>3, <1>4, <1>5, <1>6, <1>7, <1>8, <1>9, <1>10, <1>11, <1>12, <1>13, <1>14 DEF Next

LEMMA InitImplements == Init => Lease!Init
BY DEF Init, Lease!Init, Live, LiveStates

(* If saves succeed the server implements the abstract lease.              *)
THEOREM ServerImplementsLease == ~DiskMayFail => (Spec => ImplementsControlLease)
<1> SUFFICES ASSUME ~DiskMayFail PROVE Spec => ImplementsControlLease
  OBVIOUS
<1>1. Init => NoHolderYet
  BY DEF Init, NoHolderYet
<1>2. TypeOK /\ NoHolderYet /\ [Next]_vars => NoHolderYet'
  BY StepNoHolderYet
<1>3. TypeOK /\ SingleLiveShare /\ FileFollowsMemory /\ NoHolderYet /\ [Next]_vars
        => [Lease!Next]_(Lease!vars)
  BY StepImplements
<1> QED
  BY <1>1, <1>2, <1>3, InitImplements, TypeCorrect, OneLiveShare, FileIsCurrent, PTL
     DEF Spec, ImplementsControlLease, Lease!Spec

LEMMA StepKeepsEnded ==
  ASSUME ~DiskMayFail, TypeOK, FileFollowsMemory, [Next]_vars,
         NEW s \in Session, state[s] \in EndedStates
  PROVE  state'[s] \in EndedStates
<1>1. state[s] # "fresh" /\ ~Live(s)
  BY DEF Live, LiveStates, EndedStates
<1>2. CASE UNCHANGED state
  BY <1>2
<1>3. CASE RefreshSessions
  BY <1>1, <1>3 DEF RefreshSessions, RefreshedState
<1>4. CASE Restart
  <2>1. ~(store.state[s] \in LiveStates /\ ~due[s])
    BY <1>1 DEF FileFollowsMemory, LiveStates
  <2> QED
    BY <1>1, <1>4, <2>1 DEF Restart, EndedStates
<1>5. ASSUME NEW r \in Session, CreateSession(r) PROVE state'[s] \in EndedStates
  BY <1>1, <1>5 DEF CreateSession, RefreshedState
<1>6. ASSUME NEW r \in Session, ExpireOnLookup(r) \/ StopSession(r)
      PROVE  state'[s] \in EndedStates
  BY <1>6 DEF ExpireOnLookup, StopSession, EndedStates, TypeOK
<1>7. ASSUME NEW r \in Session, NEW requested \in issued \cup {None}, JoinSession(r, requested)
      PROVE  state'[s] \in EndedStates
  BY <1>1, <1>7 DEF JoinSession, Usable
<1> QED
  BY <1>2, <1>3, <1>4, <1>5, <1>6, <1>7
     DEF Next, Deadline, SetStreamProfile, Offer, AnswerReady, AnswerFails, Register, ClosePeer,
         PeerReports, SetSessionState, SetWebRTCState, vars, sessionVars

(* If saves succeed an ended share is never alive again: a restart brings  *)
(* back only what was alive.                                               *)
THEOREM EndedIsForEver == ~DiskMayFail => (Spec => EndedShareStaysEnded)
<1> SUFFICES ASSUME ~DiskMayFail PROVE Spec => EndedShareStaysEnded
  OBVIOUS
<1>1. TypeOK /\ FileFollowsMemory /\ [Next]_vars =>
        [\A s \in Session : state[s] \in EndedStates => state'[s] \in EndedStates]_vars
  BY StepKeepsEnded
<1> QED
  BY <1>1, TypeCorrect, FileIsCurrent, PTL DEF Spec, EndedShareStaysEnded
-----------------------------------------------------------------------------
(* Who holds every lease, as the abstract lease sees it. *)
Holder == [s \in Session |-> IF Live(s) THEN viewerToken[s] ELSE None]

(* What the abstract lease promises in so many words: the actions of        *)
(* ControlLease let at most one share be open, give it the only holder, and *)
(* never give control back to a token that has lost it.                     *)
LEMMA LeaseKeepsOneOpen ==
  ASSUME Lease!OneOpenShare, [Lease!Next]_(Lease!vars)
  PROVE  Lease!OneOpenShare'
<1> USE DEF Lease!OneOpenShare, Lease!OpenShares
<1>1. ASSUME NEW s \in Session, Lease!Open(s) PROVE Lease!OneOpenShare'
  BY <1>1 DEF Lease!Open
<1>2. ASSUME NEW s \in Session, Lease!End(s) PROVE Lease!OneOpenShare'
  BY <1>2 DEF Lease!End, Lease!EndAll
<1>3. ASSUME NEW s \in Session, NEW t \in Token, Lease!Grant(s, t) PROVE Lease!OneOpenShare'
  BY <1>3 DEF Lease!Grant
<1>4. CASE Lease!Restart
  BY <1>4 DEF Lease!Restart
<1>5. CASE UNCHANGED Lease!vars
  BY <1>5 DEF Lease!vars
<1> QED
  BY <1>1, <1>2, <1>3, <1>4, <1>5 DEF Lease!Next

LEMMA LeaseKeepsRevoked ==
  ASSUME [Lease!Next]_(Lease!vars)
  PROVE  [\A s \in Session, t \in issued \ {None} : Holder[s] # t => Holder'[s] # t]_(Lease!vars)
<1> USE DEF Holder
<1>1. ASSUME NEW r \in Session, Lease!Open(r) \/ Lease!End(r) \/ Lease!Restart
      PROVE  \A s \in Session : Holder'[s] \in {Holder[s], None}
  BY <1>1 DEF Lease!Open, Lease!End, Lease!EndAll, Lease!Restart, Lease!OpenShares
<1>2. ASSUME NEW r \in Session, NEW u \in Token, Lease!Grant(r, u)
      PROVE  u \notin issued /\ \A s \in Session : Holder'[s] \in {Holder[s], u}
  BY <1>2 DEF Lease!Grant
<1> QED
  BY <1>1, <1>2 DEF Lease!Next

(* The abstract lease keeps its promises.                                   *)
THEOREM LeaseIsExclusive == Lease!Spec => []Lease!OneOpenShare /\ Lease!RevokedStaysOut
<1>1. Lease!Init => Lease!OneOpenShare
  BY DEF Lease!Init, Lease!OneOpenShare, Lease!OpenShares
<1>2. Lease!OneOpenShare /\ [Lease!Next]_(Lease!vars) => Lease!OneOpenShare'
  BY LeaseKeepsOneOpen
<1>3. [Lease!Next]_(Lease!vars) =>
        [\A s \in Session, t \in issued \ {None} : Holder[s] # t => Holder'[s] # t]_(Lease!vars)
  BY LeaseKeepsRevoked
<1> QED
  BY <1>1, <1>2, <1>3, PTL DEF Lease!Spec, Lease!RevokedStaysOut, Holder

(* A step of the server takes leases away, or grants one to a new token.    *)
LEMMA StepRevokes ==
  ASSUME TypeOK, NoHolderYet, [Next]_vars
  PROVE  [\A s \in Session, t \in issued \ {None} : Holder[s] # t => Holder'[s] # t]_(Lease!vars)
<1> DEFINE Kept == \A s \in Session : Holder'[s] \in {Holder[s], None}
<1> USE DEF Holder
<1>1. ASSUME \A s \in Session : /\ viewerToken'[s] \in {viewerToken[s], None}
                                /\ state'[s] \in LiveStates => Live(s) \/ viewerToken[s] = None
      PROVE  Kept
  BY <1>1 DEF Live
<1>2. ASSUME UNCHANGED <<state, viewerToken>> PROVE Kept
  BY <1>2 DEF Live
<1>3. CASE RefreshSessions
  BY <1>1, <1>3 DEF RefreshSessions, RefreshedState, Live
<1>4. CASE Restart
  BY <1>4 DEF Restart
<1>5. ASSUME NEW r \in Session, CreateSession(r) PROVE Kept
  BY <1>1, <1>5 DEF CreateSession, RefreshedState, NoHolderYet, Live
<1>6. ASSUME NEW r \in Session, ExpireOnLookup(r) \/ StopSession(r) PROVE Kept
  BY <1>1, <1>6 DEF ExpireOnLookup, StopSession, Live, LiveStates, TypeOK
<1>7. ASSUME NEW r \in Session, Deadline(r) \/ SetStreamProfile(r) PROVE Kept
  BY <1>2, <1>7 DEF Deadline, SetStreamProfile, sessionVars
<1>8. ASSUME NEW r \in Session, NEW t \in issued, NEW p \in Peer, Offer(r, t, p) PROVE Kept
  BY <1>2, <1>8 DEF Offer
<1>9. ASSUME NEW p \in Peer, AnswerReady(p) \/ AnswerFails(p) \/ Register(p) \/ ClosePeer(p)
      PROVE  Kept
  BY <1>2, <1>9 DEF AnswerReady, AnswerFails, Register, ClosePeer, SetWebRTCState, sessionVars
<1>10. ASSUME NEW p \in Peer, NEW mode \in Reports, PeerReports(p, mode) PROVE Kept
  BY <1>2, <1>10 DEF PeerReports, SetSessionState, SetWebRTCState, sessionVars
<1>11. CASE UNCHANGED vars
  BY <1>2, <1>11 DEF vars, sessionVars
<1>12. ASSUME NEW r \in Session, NEW requested \in issued \cup {None}, JoinSession(r, requested)
       PROVE  \A s \in Session, t \in issued \ {None} : Holder[s] # t => Holder'[s] # t
  <2>1. PICK t \in JoinTokens(r, requested) : viewerToken' = [viewerToken EXCEPT ![r] = t]
    BY <1>12 DEF JoinSession
  <2>2. Live(r) /\ state' = [state EXCEPT ![r] = "connected"]
    BY <1>12 DEF JoinSession, Usable
  <2>3. t = viewerToken[r] \/ t \notin issued
    BY DEF JoinTokens
  <2>4. \A s \in Session : Holder'[s] \in {Holder[s], t}
    BY <2>1, <2>2 DEF Live, LiveStates, TypeOK
  <2>5. t = viewerToken[r] => \A s \in Session : Holder'[s] = Holder[s]
    BY <2>1, <2>2 DEF Live, LiveStates, TypeOK
  <2> QED
    BY <2>3, <2>4, <2>5
<1> HIDE DEF Holder
<1>13. Kept => \A s \in Session, t \in issued \ {None} : Holder[s] # t => Holder'[s] # t
  OBVIOUS
<1> QED
  BY <1>3, <1>4, <1>5, <1>6, <1>7, <1>8, <1>9, <1>10, <1>11, <1>12, <1>13 DEF Next

(* A viewer who lost control never has it again without a new token: not    *)
(* even a failed save, a restart or an offer under way gives it back        *)
(* (handleJoinSession).                                                     *)
THEOREM RevokedViewerStaysOut == Spec => Lease!RevokedStaysOut
<1>1. Init => NoHolderYet
  BY DEF Init, NoHolderYet
<1>2. TypeOK /\ NoHolderYet /\ [Next]_vars => NoHolderYet'
  BY StepNoHolderYet
<1>3. TypeOK /\ NoHolderYet /\ [Next]_vars =>
        [\A s \in Session, t \in issued \ {None} : Holder[s] # t => Holder'[s] # t]_(Lease!vars)
  BY StepRevokes
<1> QED
  BY <1>1, <1>2, <1>3, TypeCorrect, PTL DEF Spec, Lease!RevokedStaysOut, Holder

(* The same without the assumption that saves succeed: one share is open at *)
(* most, and only it has a holder.                                          *)
THEOREM ServerKeepsOneOpenShare == Spec => []Lease!OneOpenShare
<1>1. ASSUME SingleLiveShare PROVE Lease!OneOpenShare
  <2>1. \A s \in Lease!OpenShares : s \in Session /\ Live(s)
    BY DEF Lease!OpenShares
  <2>2. \A s, r \in Lease!OpenShares : s = r
    BY <1>1, <2>1 DEF SingleLiveShare
  <2>3. \A s \in Session : Live(s) => state[s] # "fresh"
    BY DEF Live, LiveStates
  <2> QED
    BY <2>2, <2>3 DEF Lease!OneOpenShare
<1> QED
  BY <1>1, OneLiveShare, PTL
=============================================================================
