------------------------- MODULE RemoteAdmin_proofs -------------------------
(***************************************************************************)
(* Theorems about the 88FRP sign-in: no more than two sign-in loops, a     *)
(* sign-out at the owner's computer that stands, and a status that tells   *)
(* the truth, for any number of concurrent requests.                       *)
(***************************************************************************)
EXTENDS RemoteAdmin, TLAPS

USE DEF Actor, Goto, Move, In, At, With, Resting, SessionClient, sessionVars, autoVars

LEMMA FirstLoopIsLoop == FirstLoop \in Loop
  BY ActorAssumption DEF FirstLoop

LEMMA FreeLoopIsFree ==
  ASSUME LoopInv, ~cancel
  PROVE  FreeLoop \in Loop /\ In(FreeLoop, "off")
<1>1. PICK l \in Loop, m \in Loop : /\ \A k \in Loop \ {l, m} : In(k, "off")
                                    /\ In(m, "off")
  BY DEF LoopInv, LoopsBounded
<1>2. QED BY <1>1, Zenon DEF FreeLoop

LEMMA InitEstablishesLoopInv == Init => LoopInv
<1> SUFFICES ASSUME Init PROVE LoopInv
  OBVIOUS
<1>1. FirstLoop \in Loop
  BY FirstLoopIsLoop
<1>2. TypeOK
  BY <1>1, ActorAssumption DEF Init, TypeOK
<1>3. LoopsBounded
  <2>1. PICK m \in Loop : m # FirstLoop
    BY ActorAssumption
  <2>2. \A k \in Loop \ {FirstLoop, m} : In(k, "off")
    BY <1>1 DEF Init
  <2>3. In(m, "off")
    BY <1>1, <2>1 DEF Init
  <2>4. QED BY <1>1, <2>2, <2>3 DEF LoopsBounded
<1>4. QED BY <1>2, <1>3 DEF LoopInv

(* The loops that rest go on resting unless a step arms or ends one. *)
OffStays == cancel' = cancel /\ \A k \in Loop : In(k, "off") => act'[k].pc = "off"

LEMMA OffStaysKeepsBound ==
  ASSUME LoopInv, OffStays
  PROVE  LoopsBounded'
<1>1. PICK l \in Loop, m \in Loop : /\ \A k \in Loop \ {l, m} : In(k, "off")
                                    /\ ~cancel => In(m, "off")
  BY DEF LoopInv, LoopsBounded
<1>2. QED BY <1>1 DEF LoopsBounded, OffStays

LEMMA RequestKeepsLoopInv ==
  ASSUME LoopInv, NEW r \in Request, RequestStep(r)
  PROVE  LoopInv'
<1> USE DEF LoopInv, TypeOK, vars
<1>1. TypeOK' /\ OffStays
  <2> USE ActorAssumption DEF OffStays
  <2>1. CASE AskChallenge(r)
    BY <2>1 DEF AskChallenge
  <2>2. CASE GetChallenge(r)
    BY <2>2, ZenonT(40) DEF GetChallenge
  <2>3. CASE Login(r)
    <3>1. /\ attempt' = FALSE /\ left' \in BOOLEAN /\ leaving' \subseteq Request
          /\ UNCHANGED <<attached, authenticated, autoVars, saved, calm>>
      BY <2>3 DEF Login
    <3>2. CASE SessionClient /\ Goto(r, With("login"))
      BY <3>1, <3>2
    <3>3. CASE UNCHANGED <<client, act>>
      BY <3>1, <3>3
    <3>4. QED
      <4> HIDE DEF TypeOK, LoopInv, OffStays, Goto, SessionClient, With, In
      <4>1. QED BY <2>3, <3>2, <3>3, Zenon DEF Login
  <2>4. CASE Logout(r)
    BY <2>4, ZenonT(40) DEF Logout, ClearSession, Dropped
  <2>5. CASE Forget(r)
    BY <2>5, ZenonT(40) DEF Forget
  <2>6. CASE SaveCredentials(r)
    BY <2>6 DEF SaveCredentials
  <2>7. QED BY <2>1, <2>2, <2>3, <2>4, <2>5, <2>6 DEF RequestStep
<1>2. QED BY <1>1, OffStaysKeepsBound

LEMMA SharedKeepsLoopInv ==
  ASSUME LoopInv, NEW a \in Actor, SharedStep(a)
  PROVE  LoopInv'
<1> USE DEF LoopInv, TypeOK
<1>1. CASE Arm(a) /\ ~cancel
  <2> DEFINE f == FreeLoop
  <2>1. f \in Loop /\ In(f, "off")
    BY <1>1, FreeLoopIsFree
  <2>2. cancel' = TRUE /\ autoState' = "idle"
        /\ act' = [act EXCEPT ![a] = At(Return(a)), ![f] = At("begin")]
        /\ UNCHANGED <<sessionVars, saved, attempt, calm, leaving, left>>
    BY <1>1 DEF Arm
  <2> HIDE DEF f
  <2>3. TypeOK'
    BY <2>1, <2>2 DEF Return
  <2>4. PICK l \in Loop, m \in Loop : /\ \A k \in Loop \ {l, m} : In(k, "off")
                                      /\ In(m, "off")
    BY <1>1 DEF LoopsBounded
  <2>5. In(a, "arm")
    BY <1>1 DEF Arm
  <2>6. \A k \in Loop \ {l, f} : act'[k].pc = "off"
    BY <2>1, <2>2, <2>4, <2>5
  <2>7. LoopsBounded'
    BY <2>1, <2>2, <2>6 DEF LoopsBounded
  <2>8. QED BY <2>3, <2>7
<1>2. CASE ~(Arm(a) /\ ~cancel)
  <2>1. TypeOK' /\ OffStays
    <3> USE ActorAssumption DEF OffStays
    <3>1. CASE LoginAccepted(a)
      <4>1. authenticated' \in BOOLEAN
        BY <3>1, Zenon DEF LoginAccepted
      <4>2. QED BY <3>1, <4>1 DEF LoginAccepted
    <3>2. CASE Refused(a)
      BY <3>2, ZenonT(40) DEF Refused, ClearSession, Dropped
    <3>3. CASE Attach(a)
      <4>1. calm' \in BOOLEAN
        BY <3>3, Zenon DEF Attach
      <4>2. QED BY <3>3, <4>1 DEF Attach
    <3>4. CASE Detach(a)
      BY <3>4 DEF Detach
    <3>5. CASE Unauthorized(a)
      BY <3>5 DEF Unauthorized, Return
    <3>6. CASE Expire(a)
      BY <3>6, ZenonT(40) DEF Expire, ClearSession, Dropped
    <3>7. CASE Decide(a)
      BY <3>7 DEF Decide, Return
    <3>8. CASE Arm(a)
      BY <1>2, <3>8 DEF Arm, Return
    <3>9. QED BY <3>1, <3>2, <3>3, <3>4, <3>5, <3>6, <3>7, <3>8 DEF SharedStep
  <2>2. QED BY <2>1, OffStaysKeepsBound
<1>3. QED BY <1>1, <1>2

LEMMA LoopKeepsLoopInv ==
  ASSUME LoopInv, NEW l \in Loop, LoopStep(l)
  PROVE  LoopInv'
<1> USE DEF LoopInv, TypeOK
<1>1. CASE LoopExit(l)
  <2>1. TypeOK'
    BY <1>1, ZenonT(40) DEF LoopExit
  <2>2. PICK i \in Loop, j \in Loop : \A k \in Loop \ {i, j} : In(k, "off")
    BY DEF LoopsBounded
  <2>3. l \in {i, j}
    BY <1>1, <2>2 DEF LoopExit
  <2>4. PICK h \in Loop : \A k \in Loop \ {h, l} : In(k, "off")
    BY <2>2, <2>3
  <2>5. /\ \A k \in Loop \ {h, l} : act'[k].pc = "off"
        /\ act'[l].pc = "off"
    BY <1>1, <2>4 DEF LoopExit
  <2>6. LoopsBounded'
    BY <2>5 DEF LoopsBounded
  <2>7. QED BY <2>1, <2>6
<1>2. CASE ~LoopExit(l)
  <2>1. TypeOK' /\ OffStays
    <3> USE DEF OffStays
    <3>1. CASE LoopBegin(l)
      BY <3>1 DEF LoopBegin
    <3>2. CASE LoopLoad(l)
      BY <3>2 DEF LoopLoad
    <3>3. CASE LoopLook(l)
      BY <3>3 DEF LoopLook
    <3>4. CASE LoopPresent(l) \/ LoopFail(l)
      BY <3>4 DEF LoopPresent, LoopFail
    <3>5. CASE LoopAsk(l)
      BY <3>5, ZenonT(40) DEF LoopAsk
    <3>6. CASE Mark(l)
      BY <3>6 DEF Mark
    <3>7. QED BY <1>2, <3>1, <3>2, <3>3, <3>4, <3>5, <3>6 DEF LoopStep
  <2>2. QED BY <2>1, OffStaysKeepsBound
<1>3. QED BY <1>1, <1>2

LEMMA RestartKeepsLoopInv ==
  ASSUME LoopInv, Restart
  PROVE  LoopInv'
<1>1. FirstLoop \in Loop
  BY FirstLoopIsLoop
<1>2. TypeOK'
  BY <1>1, ActorAssumption DEF LoopInv, TypeOK, Restart
<1>3. PICK m \in Loop : m # FirstLoop
  BY ActorAssumption
<1>4. \A k \in Loop \ {FirstLoop} : act'[k].pc = "off"
  BY <1>1 DEF Restart
<1>5. LoopsBounded'
  BY <1>1, <1>3, <1>4 DEF LoopsBounded
<1>6. QED BY <1>2, <1>5 DEF LoopInv

LEMMA LoopInvInductive == LoopInv /\ [Next]_vars => LoopInv'
<1> SUFFICES ASSUME LoopInv, [Next]_vars PROVE LoopInv'
  OBVIOUS
<1>1. CASE \E r \in Request : RequestStep(r)
  BY <1>1, RequestKeepsLoopInv
<1>2. CASE \E a \in Actor : SharedStep(a)
  BY <1>2, SharedKeepsLoopInv
<1>3. CASE \E l \in Loop : LoopStep(l)
  BY <1>3, LoopKeepsLoopInv
<1>4. CASE Restart
  BY <1>4, RestartKeepsLoopInv
<1>5. CASE UNCHANGED vars
  BY <1>5 DEF LoopInv, TypeOK, LoopsBounded, vars
<1>6. QED BY <1>1, <1>2, <1>3, <1>4, <1>5 DEF Next

(* There are never more than two sign-in loops (startAutoLogin), and every *)
(* variable keeps its type, for any number of requests and loops.           *)
THEOREM LoopInvariant == Spec => []LoopInv
BY InitEstablishesLoopInv, LoopInvInductive, PTL DEF Spec

-----------------------------------------------------------------------------
(* What a sign-out that met no sign-in leaves: no session and nobody on the  *)
(* way to one; its client is detached before the stored login is deleted,    *)
(* and after that no loop can read it.                                       *)
Absent == ~authenticated /\ \A a \in Actor : ~HasLogin(a)
SignedOut ==
  /\ left \/ leaving # {} => Absent
  /\ \A r \in leaving : In(r, "logout-detach") \/ (In(r, "forget") /\ attached = "none")
  /\ left => attached = "none" /\ ~saved

Watched == left \/ leaving # {}

LEMMA LeavingIsSigningOut ==
  ASSUME SignedOut, NEW a \in Actor, ~In(a, "logout-detach"), ~In(a, "forget")
  PROVE  a \notin leaving
BY DEF SignedOut

(* A step that moves one actor, and not onto the way to a session. *)
LEMMA QuietStep ==
  ASSUME LoopInv, SignedOut, NEW a \in Actor, a \notin leaving,
         UNCHANGED <<authenticated, attached, saved, leaving, left>>,
         \A b \in Actor : b # a => act'[b] = act[b],
         Watched => ~HasLogin(a)'
  PROVE  SignedOut'
<1>1. Watched => Absent'
  BY DEF SignedOut, Absent, HasLogin, SigningIn, Watched
<1>2. \A r \in leaving : r \in Actor /\ act'[r] = act[r]
  BY DEF LoopInv, TypeOK
<1> QED BY <1>1, <1>2 DEF SignedOut, Watched

(* A session that is dropped is gone for the sign-outs too. *)
LEMMA DropStep ==
  ASSUME LoopInv, SignedOut, NEW a \in Actor, a \notin leaving, Watched => ~HasLogin(a),
         NEW where, where = "detach" \/ (where = "expire-detach" /\ a \notin Loop),
         ClearSession(a, where), UNCHANGED <<saved, leaving, left>>
  PROVE  SignedOut'
<1>1. \A b \in Actor : act'[b].pc = IF b = a THEN where ELSE act[b].pc
  BY DEF ClearSession
<1>2. ~authenticated' /\ (attached = "none" => attached' = "none")
  BY DEF ClearSession, Dropped
<1>3. Watched => Absent'
  BY <1>1, <1>2 DEF SignedOut, Absent, HasLogin, SigningIn, Watched
<1>4. \A r \in leaving : r \in Actor /\ act'[r].pc = act[r].pc
  BY <1>1 DEF LoopInv, TypeOK
<1> QED BY <1>2, <1>3, <1>4 DEF SignedOut, Watched

LEMMA RequestKeepsSignedOut ==
  ASSUME LoopInv, SignedOut, NEW r \in Request, RequestStep(r)
  PROVE  SignedOut'
<1>0. r \in Actor /\ r \notin Loop
  BY ActorAssumption
<1>1. CASE AskChallenge(r) \/ GetChallenge(r)
  <2>1. /\ UNCHANGED <<authenticated, attached, saved, leaving, left>>
        /\ In(r, "idle") \/ In(r, "challenge")
        /\ act'[r].pc \in {"challenge", "idle"} /\ \A b \in Actor : b # r => act'[b] = act[b]
    <3>1. CASE AskChallenge(r)
      BY <1>0, <3>1 DEF AskChallenge, LoopInv, TypeOK
    <3>2. CASE GetChallenge(r)
      BY <1>0, <3>2 DEF GetChallenge, LoopInv, TypeOK
    <3> QED BY <1>1, <3>1, <3>2
  <2>2. ~HasLogin(r)' /\ r \notin leaving
    BY <1>0, <2>1, LeavingIsSigningOut DEF HasLogin, SigningIn
  <2> QED BY <1>0, <2>1, <2>2, QuietStep
<1>2. CASE Login(r)
  <2>1. CASE leaving' = {} /\ left' = FALSE
    BY <2>1 DEF SignedOut
  <2>2. CASE UNCHANGED <<client, act, leaving, left>>
    <3>1. UNCHANGED <<authenticated, attached, saved>>
      BY <1>2 DEF Login
    <3> QED BY <2>2, <3>1 DEF SignedOut, Absent, HasLogin, SigningIn
  <2> QED BY <1>2, <2>1, <2>2 DEF Login
<1>3. CASE Logout(r)
  <2>1. \A b \in Actor : act'[b].pc = IF b = r THEN "logout-detach" ELSE act[b].pc
    BY <1>3 DEF Logout, ClearSession
  <2>2. ~authenticated' /\ (attached = "none" => attached' = "none")
    BY <1>3 DEF Logout, ClearSession, Dropped
  <2>3. UNCHANGED <<saved, left>> /\ In(r, "idle")
    BY <1>3 DEF Logout
  <2>4. leaving' # {} => \A a \in Actor : ~HasLogin(a)
    BY <1>3 DEF Logout
  <2>5. left' \/ leaving' # {} => Absent'
    BY <1>0, <2>1, <2>2, <2>3, <2>4 DEF SignedOut, Absent, HasLogin, SigningIn
  <2>6. leaving' \subseteq leaving \cup {r}
    BY <1>3 DEF Logout
  <2>7. \A q \in leaving : q \in Actor
    BY DEF LoopInv, TypeOK
  <2>8. \A q \in leaving' : \/ act'[q].pc = "logout-detach"
                            \/ act'[q].pc = "forget" /\ attached' = "none"
    BY <1>0, <2>1, <2>2, <2>6, <2>7 DEF SignedOut
  <2> QED BY <2>2, <2>3, <2>5, <2>8 DEF SignedOut
<1>4. CASE Forget(r)
  <2>1. /\ UNCHANGED <<authenticated, attached>> /\ saved' = FALSE
        /\ In(r, "forget") /\ leaving' = leaving \ {r} /\ (left' <=> left \/ r \in leaving)
    BY <1>4, Zenon DEF Forget
  <2>2. act'[r].pc = "idle" /\ \A b \in Actor : b # r => act'[b] = act[b]
    BY <1>0, <1>4 DEF Forget, LoopInv, TypeOK
  <2>3. left' \/ leaving' # {} => Watched
    BY <2>1 DEF Watched
  <2>4. Watched => Absent'
    BY <1>0, <2>1, <2>2 DEF SignedOut, Absent, HasLogin, SigningIn, Watched
  <2>5. \A q \in leaving' : q \in Actor /\ act'[q] = act[q]
    BY <2>1, <2>2 DEF LoopInv, TypeOK
  <2>6. r \in leaving => attached = "none"
    BY <2>1 DEF SignedOut
  <2> QED BY <2>1, <2>3, <2>4, <2>5, <2>6 DEF SignedOut
<1>5. CASE SaveCredentials(r)
  <2>1. UNCHANGED <<authenticated, attached, act, leaving>> /\ (left' <=> left /\ ~saved')
    BY <1>5, Zenon DEF SaveCredentials
  <2> QED BY <2>1 DEF SignedOut, Absent, HasLogin, SigningIn
<1> QED BY <1>1, <1>2, <1>3, <1>4, <1>5 DEF RequestStep

LEMMA SharedKeepsSignedOut ==
  ASSUME LoopInv, SignedOut, NEW a \in Actor, SharedStep(a)
  PROVE  SignedOut'
<1> USE ActorAssumption
<1>1. Watched => \A b \in Actor : ~HasLogin(b)
  BY DEF SignedOut, Watched, Absent
<1>2. CASE LoginAccepted(a) \/ Attach(a)
  <2>1. HasLogin(a)
    BY <1>2 DEF LoginAccepted, Attach, HasLogin, SigningIn
  <2>2. leaving' = leaving /\ left' = left
    BY <1>2 DEF LoginAccepted, Attach
  <2> QED BY <1>1, <2>1, <2>2 DEF SignedOut, Watched
<1>3. CASE Refused(a)
  <2>1. a \notin leaving
    BY <1>3, LeavingIsSigningOut DEF Refused
  <2> QED BY <1>1, <1>3, <2>1, DropStep DEF Refused
<1>4. CASE Expire(a)
  <2>1. a \notin leaving
    BY <1>4, LeavingIsSigningOut DEF Expire
  <2>2. CASE a \notin Loop
    BY <1>1, <1>4, <2>1, <2>2, DropStep DEF Expire
  <2>3. CASE a \in Loop
    <3>1. HasLogin(a) /\ leaving' = leaving /\ left' = left
      BY <1>4, <2>3 DEF Expire, HasLogin, SigningIn
    <3> QED BY <1>1, <3>1 DEF SignedOut, Watched
  <2> QED BY <2>2, <2>3
<1>5. CASE Detach(a)
  <2>1. /\ attached' = "none" /\ UNCHANGED <<authenticated, saved, left>>
        /\ \A r \in leaving' : r \in leaving /\ (r = a => act'[a].pc = "forget")
    BY <1>5 DEF Detach
  <2>2. /\ act'[a].pc \in {"fail", "idle", "decide", "forget"}
        /\ act'[a].pc = "decide" => In(a, "expire-detach")
        /\ \A b \in Actor : b # a => act'[b] = act[b]
    BY <1>5 DEF Detach, LoopInv, TypeOK
  <2>3. left' \/ leaving' # {} => Watched
    BY <2>1 DEF Watched
  <2>4. Watched => Absent'
    BY <2>1, <2>2 DEF SignedOut, Absent, HasLogin, SigningIn, Watched
  <2>5. \A r \in leaving' : \/ act'[r].pc = "logout-detach"
                            \/ act'[r].pc = "forget" /\ attached' = "none"
    BY <2>1, <2>2 DEF SignedOut, LoopInv, TypeOK
  <2> QED BY <2>1, <2>3, <2>4, <2>5 DEF SignedOut
<1>6. CASE Unauthorized(a) \/ Decide(a) \/ (Arm(a) /\ cancel)
  <2>1. /\ UNCHANGED <<authenticated, attached, saved, leaving, left>>
        /\ act[a].pc \in {"idle", "sync", "decide", "arm"}
        /\ act'[a].pc \in {"expire", "arm", "mark", "idle"}
        /\ act'[a].pc = "mark" => a \in Loop
        /\ \A b \in Actor : b # a => act'[b] = act[b]
    <3>1. CASE Unauthorized(a)
      BY <3>1 DEF Unauthorized, Return, LoopInv, TypeOK
    <3>2. CASE Decide(a)
      BY <3>2 DEF Decide, Return, LoopInv, TypeOK
    <3>3. CASE Arm(a) /\ cancel
      BY <3>3 DEF Arm, Return, LoopInv, TypeOK
    <3> QED BY <1>6, <3>1, <3>2, <3>3
  <2>2. a \in Loop => act[a].pc # "idle"
    BY <1>6 DEF Unauthorized, Decide, Arm
  <2>3. Watched => ~HasLogin(a)'
    BY <1>1, <2>1, <2>2 DEF HasLogin, SigningIn
  <2>4. a \notin leaving
    BY <2>1, LeavingIsSigningOut
  <2> QED BY <2>1, <2>3, <2>4, QuietStep
<1>7. CASE Arm(a) /\ ~cancel
  <2>1. PICK f \in Loop : f = FreeLoop /\ act[f].pc = "off"
    BY <1>7, FreeLoopIsFree
  <2>2. /\ act' = [act EXCEPT ![a] = At(Return(a)), ![f] = At("begin")]
        /\ UNCHANGED <<authenticated, attached, saved, leaving, left>> /\ In(a, "arm")
    BY <1>7, <2>1 DEF Arm
  <2>3. Watched => a \notin Loop
    BY <1>1, <2>2 DEF HasLogin, SigningIn
  <2>4. \A b \in Actor : act'[b] = act[b] \/ act'[b].pc \in {"idle", "begin", "mark"}
    BY <2>2 DEF Return, LoopInv, TypeOK
  <2>5. Watched => \A b \in Actor : act'[b] = act[b] \/ act'[b].pc \in {"idle", "begin"}
    BY <2>1, <2>2, <2>3 DEF Return, LoopInv, TypeOK
  <2>6. Watched => Absent'
    BY <1>1, <2>2, <2>5 DEF SignedOut, Absent, HasLogin, SigningIn, Watched
  <2>7. \A r \in leaving : r # a /\ r # f
    BY <2>1, <2>2, LeavingIsSigningOut
  <2>8. \A r \in leaving : act'[r] = act[r]
    BY <2>2, <2>7 DEF LoopInv, TypeOK
  <2> QED BY <2>2, <2>6, <2>8 DEF SignedOut, Watched
<1> QED BY <1>2, <1>3, <1>4, <1>5, <1>6, <1>7 DEF SharedStep

LEMMA LoopKeepsSignedOut ==
  ASSUME LoopInv, SignedOut, NEW l \in Loop, LoopStep(l)
  PROVE  SignedOut'
<1>1. Watched => \A b \in Actor : ~HasLogin(b)
  BY DEF SignedOut, Watched, Absent
<1>2. CASE LoopLook(l) \/ LoopAsk(l) \/ Mark(l)
  <2>1. HasLogin(l) /\ leaving' = leaving /\ left' = left
    BY <1>2 DEF LoopLook, LoopAsk, Mark, HasLogin, SigningIn
  <2> QED BY <1>1, <2>1 DEF SignedOut, Watched
<1>3. CASE LoopLoad(l) /\ saved
  <2>1. leaving' = {} /\ left' = left
    BY <1>3 DEF LoopLoad
  <2> QED BY <1>3, <2>1 DEF SignedOut
<1>4. CASE LoopBegin(l) \/ LoopPresent(l) \/ LoopFail(l) \/ LoopExit(l) \/ (LoopLoad(l) /\ ~saved)
  <2>1. /\ UNCHANGED <<authenticated, attached, saved, leaving, left>>
        /\ act[l].pc \in {"begin", "present", "fail", "exit", "load"}
        /\ act'[l].pc \in {"load", "exit", "begin", "off"}
        /\ \A b \in Actor : b # l => act'[b] = act[b]
    <3>1. CASE LoopBegin(l)
      BY <3>1 DEF LoopBegin, LoopInv, TypeOK
    <3>2. CASE LoopPresent(l)
      BY <3>2 DEF LoopPresent, LoopInv, TypeOK
    <3>3. CASE LoopFail(l)
      BY <3>3 DEF LoopFail, LoopInv, TypeOK
    <3>4. CASE LoopExit(l)
      BY <3>4 DEF LoopExit, LoopInv, TypeOK
    <3>5. CASE LoopLoad(l) /\ ~saved
      BY <3>5 DEF LoopLoad, LoopInv, TypeOK
    <3> QED BY <1>4, <3>1, <3>2, <3>3, <3>4, <3>5
  <2>2. ~HasLogin(l)' /\ l \notin leaving
    BY <2>1, LeavingIsSigningOut DEF HasLogin, SigningIn
  <2> QED BY <2>1, <2>2, QuietStep
<1> QED BY <1>2, <1>3, <1>4 DEF LoopStep

LEMMA SignedOutInductive ==
  ASSUME LoopInv, SignedOut, [Next]_vars
  PROVE  SignedOut'
<1>1. CASE Restart
  <2>1. \A a \in Actor : act'[a].pc \in {"off", "idle", "begin"}
    BY <1>1, FirstLoopIsLoop DEF Restart
  <2>2. ~authenticated' /\ attached' = "none" /\ leaving' = {} /\ UNCHANGED <<saved, left>>
    BY <1>1 DEF Restart
  <2> QED BY <2>1, <2>2 DEF SignedOut, Absent, HasLogin, SigningIn
<1>2. CASE UNCHANGED vars
  BY <1>2 DEF vars, SignedOut, Absent, HasLogin, SigningIn
<1> QED BY <1>1, <1>2, RequestKeepsSignedOut, SharedKeepsSignedOut, LoopKeepsSignedOut DEF Next

(* When the owner has signed out at the computer, and neither a sign-in nor *)
(* a loop that had read the stored login was under way then, nobody is       *)
(* signed in and no login is stored until somebody signs in or saves one,    *)
(* restarts or not (HandleLogout), for any number of requests and loops.     *)
THEOREM SignOutIsFinal == Spec => []SignOutStands
<1>1. Init => SignedOut
  BY DEF Init, SignedOut
<1>2. SignedOut => SignOutStands
  BY DEF SignedOut, SignOutStands, Absent
<1>3. LoopInv /\ SignedOut /\ [Next]_vars => SignedOut'
  BY SignedOutInductive
<1>4. QED BY <1>1, <1>2, <1>3, LoopInvariant, PTL DEF Spec

-----------------------------------------------------------------------------
(* Why the status is true: while it is calm a client on its way is the     *)
(* current one, a dropped one is about to be detached, and a loop that has  *)
(* attached its client and not marked it yet stands for the session.        *)
Attached(l) == act[l].pc \in {"sync", "expire", "mark"}
Coherent ==
  calm =>
    /\ \A a \in Actor : act[a].pc \in {"login", "attach"} => act[a].c = "current" /\ a # Syncer
    /\ \A r \in Request : In(r, "attach") => authenticated
    /\ \A l \in Loop : /\ In(l, "ask") => act[l].c = "current"
                       /\ Attached(l) => attached = "current"
                       /\ act[l].pc \notin {"expire-detach", "decide", "arm"}
    /\ Detaching => attached # "current"
    /\ attached = "dropped" => Detaching
    /\ authenticated => attached = "current" \/ \E r \in Request : In(r, "attach")
    /\ attached = "current" => authenticated \/ \E l \in Loop : Attached(l)

(* Dropping the session, unless another sign-in is under way. *)
LEMMA ClearKeepsCoherent ==
  ASSUME LoopInv, NEW a \in Actor, NEW where \in {"detach", "expire-detach", "logout-detach"},
         ClearSession(a, where), a \in Loop => ~In(a, "expire") /\ where = "detach"
  PROVE  Coherent'
<1> SUFFICES ASSUME calm' PROVE Coherent'
  BY DEF Coherent
<1> USE ActorAssumption DEF LoopInv, TypeOK, Actor
<1>1. ASSUME NEW b \in Actor PROVE act'[b].pc = IF b = a THEN where ELSE act[b].pc
  BY DEF ClearSession, At
<1>2. \A b \in Actor : b # a => ~SigningIn(b) /\ act'[b].pc = act[b].pc
  BY <1>1 DEF ClearSession
<1>3. act'[a].pc = where
  BY <1>1
<1>4. Detaching'
  BY <1>3 DEF Detaching
<1>5. ~authenticated' /\ attached' # "current"
  BY DEF ClearSession, Dropped
<1>6. \A b \in Actor : act'[b].pc \notin {"login", "attach"}
  BY <1>2, <1>3 DEF SigningIn
<1>7. \A l \in Loop : act'[l].pc \notin {"ask", "sync", "expire", "mark", "expire-detach",
                                         "decide", "arm"}
  BY <1>2, <1>3 DEF SigningIn
<1> QED BY <1>4, <1>5, <1>6, <1>7 DEF Coherent, Attached

(* A step of actors that Coherent does not look at, before or after it. *)
Plain(a) ==
  /\ act[a].pc \notin {"login", "attach", "detach", "expire-detach", "logout-detach"}
  /\ a \in Loop => act[a].pc \notin {"ask", "sync", "mark", "expire", "decide", "arm"}

LEMMA PlainKeepsCoherent ==
  ASSUME Coherent, UNCHANGED <<calm, attached, authenticated>>,
         \A a \in Actor : act'[a] = act[a] \/ (Plain(a) /\ Plain(a)')
  PROVE  Coherent'
<1> SUFFICES ASSUME calm PROVE Coherent'
  BY DEF Coherent
<1> USE DEF Coherent, Plain
<1>1. \A a \in Actor : act'[a].pc \in {"login", "attach"} => act'[a].c = "current" /\ a # Syncer
  OBVIOUS
<1>2. \A r \in Request : In(r, "attach")' <=> In(r, "attach")
  BY DEF Actor, In
<1>3. \A l \in Loop : /\ Attached(l)' <=> Attached(l)
                      /\ In(l, "ask")' => act'[l].c = "current"
                      /\ act'[l].pc \notin {"expire-detach", "decide", "arm"}
  BY DEF Actor, In, Attached
<1>4. Detaching' <=> Detaching
  BY DEF Detaching
<1> QED BY <1>1, <1>2, <1>3, <1>4

(* A step of one actor, with what it had in hand. *)
LEMMA MoveFacts ==
  ASSUME LoopInv, NEW a \in Actor, NEW t, Goto(a, t)
  PROVE  act'[a] = t /\ \A b \in Actor : b # a => act'[b] = act[b]
BY DEF Goto, LoopInv, TypeOK

LEMMA RequestKeepsCoherent ==
  ASSUME LoopInv, Coherent, NEW r \in Request, RequestStep(r)
  PROVE  Coherent'
<1> USE ActorAssumption DEF Actor
<1>0. r \in Actor /\ r \notin Loop
  OBVIOUS
<1>1. CASE AskChallenge(r) \/ GetChallenge(r) \/ Forget(r) \/ SaveCredentials(r)
  <2>1. UNCHANGED <<calm, attached, authenticated>>
    BY <1>1 DEF AskChallenge, GetChallenge, Forget, SaveCredentials, sessionVars, SessionClient
  <2>2. \A a \in Actor : act'[a] = act[a] \/ (Plain(a) /\ Plain(a)')
    <3>1. CASE SaveCredentials(r)
      BY <3>1 DEF SaveCredentials
    <3>2. CASE AskChallenge(r) \/ GetChallenge(r) \/ Forget(r)
      <4>1. /\ act'[r].pc \in {"challenge", "idle"}
            /\ \A b \in Actor : b # r => act'[b] = act[b]
        <5>1. CASE AskChallenge(r)
          BY <1>0, <5>1 DEF AskChallenge, LoopInv, TypeOK
        <5>2. CASE GetChallenge(r)
          BY <1>0, <5>2 DEF GetChallenge, LoopInv, TypeOK
        <5>3. CASE Forget(r)
          BY <1>0, <5>3 DEF Forget, LoopInv, TypeOK
        <5> QED BY <3>2, <5>1, <5>2, <5>3
      <4>2. Plain(r)
        BY <1>0, <3>2 DEF AskChallenge, GetChallenge, Forget, Plain
      <4> QED BY <1>0, <4>1, <4>2 DEF Plain
    <3> QED BY <1>1, <3>1, <3>2
  <2> QED BY <2>1, <2>2, PlainKeepsCoherent
<1>2. CASE Login(r) /\ UNCHANGED act
  <2>1. UNCHANGED <<calm, attached, authenticated>>
    BY <1>2 DEF Login
  <2> QED BY <1>2, <2>1, PlainKeepsCoherent
<1>3. CASE Login(r) /\ act' # act
  <2>1. Goto(r, With("login")) /\ In(r, "idle") /\ UNCHANGED <<calm, attached, authenticated>>
    BY <1>3 DEF Login
  <2>2. act'[r] = With("login") /\ \A b \in Actor : b # r => act'[b] = act[b]
    BY <1>0, <2>1, MoveFacts
  <2>3. Detaching' <=> Detaching
    BY <1>0, <2>1, <2>2 DEF Detaching, With, In
  <2> QED BY <1>0, <2>1, <2>2, <2>3 DEF Coherent, Attached, In, With
<1>4. CASE Logout(r)
  BY <1>0, <1>4, ClearKeepsCoherent DEF Logout
<1> QED BY <1>1, <1>2, <1>3, <1>4 DEF RequestStep

(* What a step of one actor does to the places and clients. *)
Stays(a, pc, c) ==
  /\ act'[a].pc = pc /\ act'[a].c = c
  /\ \A b \in Actor : b # a => act'[b] = act[b]

LEMMA MoveStays ==
  ASSUME LoopInv, NEW a \in Actor, NEW pc, Move(a, pc)
  PROVE  Stays(a, pc, act[a].c)
BY DEF Stays, LoopInv, TypeOK

LEMMA SignInKeepsCoherent ==
  ASSUME LoopInv, Coherent, NEW a \in Actor, LoginAccepted(a) \/ Attach(a)
  PROVE  Coherent'
<1> SUFFICES ASSUME calm' PROVE Coherent'
  BY DEF Coherent
<1> USE ActorAssumption
<1>1. calm
  BY DEF LoginAccepted, Attach
<1>2. act[a].c = "current" /\ a # Syncer
  BY <1>1 DEF LoginAccepted, Attach, Coherent
<1>3. CASE LoginAccepted(a)
  <2>1. Stays(a, "attach", "current") /\ In(a, "login")
    BY <1>2, <1>3, MoveStays DEF LoginAccepted
  <2>2. /\ attached' = attached /\ authenticated \in BOOLEAN
        /\ authenticated' = (authenticated \/ a \in Request)
    BY <1>3 DEF LoginAccepted, LoopInv, TypeOK
  <2>3. Detaching' <=> Detaching
    BY <2>1 DEF Detaching, Stays
  <2>4. \A r \in Request : act'[r].pc = "attach" => authenticated'
    BY <1>1, <2>1, <2>2 DEF Coherent, Stays
  <2>5. authenticated' => attached' = "current" \/ \E r \in Request : act'[r].pc = "attach"
    BY <1>1, <2>1, <2>2 DEF Coherent, Stays
  <2>6. attached' = "current" => authenticated' \/ \E l \in Loop : Attached(l)'
    BY <1>1, <2>1, <2>2 DEF Coherent, Stays, Attached
  <2>7. \A l \in Loop : /\ act'[l].pc = "ask" => act'[l].c = "current"
                        /\ Attached(l)' => attached' = "current"
                        /\ act'[l].pc \notin {"expire-detach", "decide", "arm"}
    BY <1>1, <2>1, <2>2 DEF Coherent, Stays, Attached
  <2>8. \A b \in Actor : act'[b].pc \in {"login", "attach"} => act'[b].c = "current" /\ b # Syncer
    BY <1>1, <1>2, <2>1 DEF Coherent, Stays
  <2> QED BY <1>1, <2>2, <2>3, <2>4, <2>5, <2>6, <2>7, <2>8 DEF Coherent, Attached
<1>4. CASE Attach(a)
  <2>1. attached' = "current" /\ authenticated' = authenticated /\ ~Detaching
    BY <1>2, <1>4 DEF Attach
  <2>2. /\ act'[a] = At(IF a \in Loop THEN "sync" ELSE "idle")
        /\ \A b \in Actor : b # a => act'[b] = act[b]
    BY <1>4 DEF Attach, LoopInv, TypeOK
  <2>3. ~Detaching'
    BY <2>1, <2>2 DEF Detaching
  <2>4. authenticated' \/ (Attached(a)' /\ a \in Loop)
    <3>1. CASE a \in Loop
      BY <2>2, <3>1 DEF Attached
    <3>2. CASE a \in Request
      BY <1>1, <1>4, <2>1, <3>2 DEF Attach, Coherent
    <3> QED BY <1>2, <3>1, <3>2
  <2>5. \A l \in Loop : /\ act'[l].pc = "ask" => act'[l].c = "current"
                        /\ act'[l].pc \notin {"expire-detach", "decide", "arm"}
    BY <1>1, <2>2 DEF Coherent
  <2>6. \A b \in Actor : act'[b].pc \in {"login", "attach"} => act'[b].c = "current" /\ b # Syncer
    BY <1>1, <2>2 DEF Coherent
  <2>7. \A r \in Request : act'[r].pc = "attach" => authenticated'
    BY <1>1, <2>1, <2>2 DEF Coherent
  <2> QED BY <2>1, <2>3, <2>4, <2>5, <2>6, <2>7 DEF Coherent, Attached
<1> QED BY <1>3, <1>4

LEMMA DetachKeepsCoherent ==
  ASSUME LoopInv, Coherent, NEW a \in Actor, Detach(a)
  PROVE  Coherent'
<1> SUFFICES ASSUME calm' PROVE Coherent'
  BY DEF Coherent
<1> USE ActorAssumption
<1>1. calm /\ attached' = "none" /\ authenticated' = authenticated
  BY DEF Detach
<1>2. In(a, "detach") \/ In(a, "expire-detach") \/ In(a, "logout-detach")
  BY DEF Detach
<1>3. attached # "current"
  BY <1>1, <1>2 DEF Coherent, Detaching
<1>4. /\ act'[a].pc \in {"fail", "idle", "decide", "forget"}
      /\ a \in Loop => act'[a].pc # "decide"
      /\ \A b \in Actor : b # a => act'[b] = act[b]
  BY <1>1 DEF Detach, Coherent, LoopInv, TypeOK
<1>5. \A l \in Loop : ~Attached(l)
  BY <1>1, <1>3 DEF Coherent
<1>6. \A l \in Loop : /\ act'[l].pc = "ask" => act'[l].c = "current"
                      /\ ~Attached(l)'
                      /\ act'[l].pc \notin {"expire-detach", "decide", "arm"}
  BY <1>1, <1>4, <1>5 DEF Coherent, Attached
<1>7. \A b \in Actor : act'[b].pc \in {"login", "attach"} => act'[b].c = "current" /\ b # Syncer
  BY <1>1, <1>4 DEF Coherent
<1>8. authenticated' => \E r \in Request : act'[r].pc = "attach"
  BY <1>1, <1>2, <1>3, <1>4 DEF Coherent
<1>9. \A r \in Request : act'[r].pc = "attach" => authenticated'
  BY <1>1, <1>4 DEF Coherent
<1> QED BY <1>1, <1>6, <1>7, <1>8, <1>9 DEF Coherent, Attached

LEMMA UnauthorizedKeepsCoherent ==
  ASSUME LoopInv, Coherent, NEW a \in Actor, Unauthorized(a)
  PROVE  Coherent'
<1> SUFFICES ASSUME calm' PROVE Coherent'
  BY DEF Coherent
<1> USE ActorAssumption
<1>1. calm /\ UNCHANGED <<calm, attached, authenticated>>
  BY DEF Unauthorized
<1>2. /\ act'[a].pc \in {"expire", Return(a)}
      /\ \A b \in Actor : b # a => act'[b] = act[b]
  BY DEF Unauthorized, LoopInv, TypeOK
<1>3. CASE a \notin Loop
  <2>1. Plain(a) /\ Plain(a)'
    BY <1>2, <1>3 DEF Unauthorized, Return, Plain
  <2> QED BY <1>1, <1>2, <2>1, PlainKeepsCoherent
<1>4. CASE a \in Loop
  <2>1. Attached(a) /\ Attached(a)' /\ act[a].pc = "sync" /\ act'[a].pc \in {"expire", "mark"}
    BY <1>2, <1>4 DEF Unauthorized, Return, Attached
  <2>2. Detaching' <=> Detaching
    BY <1>2, <2>1 DEF Detaching
  <2>3. \A l \in Loop : Attached(l)' <=> Attached(l)
    BY <1>2, <2>1 DEF Attached
  <2>4. \A l \in Loop : /\ act'[l].pc = "ask" => act'[l].c = "current"
                        /\ act'[l].pc \notin {"expire-detach", "decide", "arm"}
    BY <1>1, <1>2, <2>1 DEF Coherent
  <2>5. \A b \in Actor : act'[b].pc \in {"login", "attach"} => act'[b].c = "current" /\ b # Syncer
    BY <1>1, <1>2, <2>1 DEF Coherent
  <2>6. \A r \in Request : act'[r].pc = "attach" <=> act[r].pc = "attach"
    BY <1>2, <2>1
  <2> QED BY <1>1, <2>2, <2>3, <2>4, <2>5, <2>6 DEF Coherent, Attached
<1> QED BY <1>3, <1>4

LEMMA RenewKeepsCoherent ==
  ASSUME LoopInv, Coherent, NEW a \in Actor, Decide(a) \/ Arm(a)
  PROVE  Coherent'
<1> SUFFICES ASSUME calm' PROVE Coherent'
  BY DEF Coherent
<1> USE ActorAssumption
<1>1. calm /\ UNCHANGED <<calm, attached, authenticated>>
  BY DEF Decide, Arm
<1>2. a \notin Loop /\ Plain(a)
  BY <1>1 DEF Decide, Arm, Coherent, Plain
<1>3. CASE Decide(a) \/ (Arm(a) /\ cancel)
  <2>1. /\ act'[a].pc \in {"arm", "idle"}
        /\ \A b \in Actor : b # a => act'[b] = act[b]
    <3>1. CASE Decide(a)
      BY <1>2, <3>1 DEF Decide, Return, LoopInv, TypeOK
    <3>2. CASE Arm(a) /\ cancel
      BY <1>2, <3>2 DEF Arm, Return, LoopInv, TypeOK
    <3> QED BY <1>3, <3>1, <3>2
  <2> QED BY <1>1, <1>2, <2>1, PlainKeepsCoherent DEF Plain
<1>4. CASE Arm(a) /\ ~cancel
  <2>1. PICK f \in Loop : f = FreeLoop /\ act[f].pc = "off"
    BY <1>4, FreeLoopIsFree
  <2>2. act' = [act EXCEPT ![a] = At("idle"), ![f] = At("begin")]
    BY <1>2, <1>4, <2>1 DEF Arm, Return
  <2>3. /\ a # f /\ act'[a].pc = "idle" /\ act'[f].pc = "begin"
        /\ \A b \in Actor : b # a /\ b # f => act'[b] = act[b]
    BY <1>2, <2>1, <2>2 DEF LoopInv, TypeOK
  <2>4. Plain(f) /\ Plain(f)' /\ Plain(a)'
    BY <1>2, <2>1, <2>3 DEF Plain
  <2> QED BY <1>1, <1>2, <2>3, <2>4, PlainKeepsCoherent
<1> QED BY <1>3, <1>4

LEMMA SharedKeepsCoherent ==
  ASSUME LoopInv, Coherent, NEW a \in Actor, SharedStep(a)
  PROVE  Coherent'
<1>1. CASE Refused(a)
  BY <1>1, ClearKeepsCoherent DEF Refused
<1>2. CASE Expire(a) /\ a \notin Loop
  BY <1>2, ClearKeepsCoherent DEF Expire
<1>3. CASE Expire(a) /\ a \in Loop
  <2>1. ~calm'
    BY <1>3 DEF Expire, ClearSession, SigningIn
  <2> QED BY <2>1 DEF Coherent
<1> QED BY <1>1, <1>2, <1>3, SignInKeepsCoherent, DetachKeepsCoherent,
           UnauthorizedKeepsCoherent, RenewKeepsCoherent DEF SharedStep

LEMMA LoopKeepsCoherent ==
  ASSUME LoopInv, Coherent, NEW l \in Loop, LoopStep(l)
  PROVE  Coherent'
<1> SUFFICES ASSUME calm' PROVE Coherent'
  BY DEF Coherent
<1> USE ActorAssumption
<1>0. l \in Actor /\ l # Syncer /\ l \notin Request
  OBVIOUS
<1>1. calm /\ UNCHANGED <<calm, attached>>
  BY DEF LoopStep, LoopBegin, LoopLoad, LoopLook, LoopPresent, LoopAsk, Mark, LoopFail, LoopExit
<1>2. CASE \/ LoopBegin(l) \/ LoopLoad(l) \/ LoopPresent(l) \/ LoopFail(l) \/ LoopExit(l)
          \/ (LoopLook(l) /\ authenticated)
  <2>1. /\ act[l].pc \in {"begin", "load", "present", "fail", "exit", "look"}
        /\ act'[l].pc \in {"load", "look", "exit", "begin", "off", "present"}
        /\ \A b \in Actor : b # l => act'[b] = act[b]
        /\ authenticated' = authenticated
    <3>1. CASE LoopBegin(l)
      BY <1>0, <3>1 DEF LoopBegin, LoopInv, TypeOK
    <3>2. CASE LoopLoad(l)
      BY <1>0, <3>2 DEF LoopLoad, LoopInv, TypeOK
    <3>3. CASE LoopPresent(l)
      BY <1>0, <3>3 DEF LoopPresent, LoopInv, TypeOK
    <3>4. CASE LoopFail(l)
      BY <1>0, <3>4 DEF LoopFail, LoopInv, TypeOK
    <3>5. CASE LoopExit(l)
      BY <1>0, <3>5 DEF LoopExit, LoopInv, TypeOK
    <3>6. CASE LoopLook(l) /\ authenticated
      BY <1>0, <3>6 DEF LoopLook, LoopInv, TypeOK
    <3> QED BY <1>2, <3>1, <3>2, <3>3, <3>4, <3>5, <3>6
  <2>2. Plain(l) /\ Plain(l)'
    BY <2>1 DEF Plain
  <2> QED BY <1>1, <2>1, <2>2, PlainKeepsCoherent
<1>3. CASE (LoopLook(l) /\ ~authenticated) \/ LoopAsk(l)
  <2>1. /\ act[l].pc \in {"look", "ask"} /\ act'[l].pc \in {"ask", "login"}
        /\ \A b \in Actor : b # l => act'[b] = act[b]
        /\ authenticated' = authenticated
    <3>1. CASE LoopLook(l) /\ ~authenticated
      BY <1>0, <3>1 DEF LoopLook, LoopInv, TypeOK
    <3>2. CASE LoopAsk(l)
      BY <1>0, <3>2 DEF LoopAsk, LoopInv, TypeOK
    <3> QED BY <1>3, <3>1, <3>2
  <2>2. act'[l].c = "current"
    BY <1>0, <1>1, <1>3 DEF LoopLook, LoopAsk, LoopInv, TypeOK, Coherent
  <2>3. Detaching' <=> Detaching
    BY <2>1 DEF Detaching
  <2>4. \A k \in Loop : /\ Attached(k)' <=> Attached(k)
                        /\ act'[k].pc = "ask" => act'[k].c = "current"
                        /\ act'[k].pc \notin {"expire-detach", "decide", "arm"}
    BY <1>1, <2>1, <2>2 DEF Coherent, Attached
  <2>5. \A b \in Actor : act'[b].pc \in {"login", "attach"} => act'[b].c = "current" /\ b # Syncer
    BY <1>0, <1>1, <2>1, <2>2 DEF Coherent
  <2>6. \A r \in Request : act'[r].pc = act[r].pc
    BY <1>0, <2>1
  <2> QED BY <1>1, <2>1, <2>3, <2>4, <2>5, <2>6 DEF Coherent, Attached
<1>4. CASE Mark(l)
  <2>1. /\ act[l].pc \in {"sync", "mark"} /\ act'[l].pc = "exit"
        /\ \A b \in Actor : b # l => act'[b] = act[b]
        /\ authenticated' = TRUE
    BY <1>0, <1>4 DEF Mark, LoopInv, TypeOK
  <2>2. attached' = "current"
    BY <1>1, <2>1 DEF Coherent, Attached
  <2>3. Detaching' <=> Detaching
    BY <2>1 DEF Detaching
  <2>4. \A k \in Loop : /\ act'[k].pc = "ask" => act'[k].c = "current"
                        /\ act'[k].pc \notin {"expire-detach", "decide", "arm"}
    BY <1>1, <2>1 DEF Coherent
  <2>5. \A b \in Actor : act'[b].pc \in {"login", "attach"} => act'[b].c = "current" /\ b # Syncer
    BY <1>1, <2>1 DEF Coherent
  <2> QED BY <1>1, <2>1, <2>2, <2>3, <2>4, <2>5 DEF Coherent, Attached
<1> QED BY <1>2, <1>3, <1>4 DEF LoopStep

LEMMA RestingIsCoherent ==
  ASSUME NEW f \in Loop, act = [Resting EXCEPT ![f] = At("begin")],
         attached = "none", ~authenticated
  PROVE  Coherent
<1>1. \A a \in Actor : act[a].pc \in {"off", "idle", "begin"}
  OBVIOUS
<1> QED BY <1>1 DEF Coherent, Detaching, Attached

(* The status tells the truth in every quiet state of a calm run, one in    *)
(* which no session was dropped under a sign-in that goes on regardless, by  *)
(* a sign-out, another's refused sign-in or a 401, and none attached between *)
(* the two steps of a drop: the session it calls authenticated is the one    *)
(* that later synchronisations use (HandleStatus), for any number of         *)
(* requests and loops. StatusIsHonest says what happens otherwise.           *)
THEOREM StatusIsTrue == Spec => []SessionCoherent
<1>1. Init => Coherent
  BY FirstLoopIsLoop, RestingIsCoherent DEF Init
<1>2. LoopInv /\ Coherent /\ [Next]_vars => Coherent'
  <2> SUFFICES ASSUME LoopInv, Coherent, [Next]_vars PROVE Coherent'
    OBVIOUS
  <2>1. CASE Restart
    <3>1. act' = [Resting EXCEPT ![FirstLoop] = At("begin")]
          /\ attached' = "none" /\ authenticated' = FALSE
      BY <2>1 DEF Restart
    <3>2. \A a \in Actor : act'[a].pc \in {"off", "idle", "begin"}
      BY <3>1, FirstLoopIsLoop
    <3> QED BY <3>1, <3>2 DEF Coherent, Detaching, Attached
  <2>2. CASE UNCHANGED vars
    BY <2>2, PlainKeepsCoherent DEF vars
  <2> QED BY <2>1, <2>2, RequestKeepsCoherent, SharedKeepsCoherent, LoopKeepsCoherent DEF Next
<1>3. Coherent /\ LoopInv => SessionCoherent
  <2> SUFFICES ASSUME Coherent, LoopInv, calm, \A a \in Actor : Between(a)
               PROVE  authenticated = (attached # "none") /\ (authenticated => attached = "current")
    BY DEF SessionCoherent
  <2>1. ~Detaching
    BY DEF Detaching, Between
  <2>2. ~\E r \in Request : In(r, "attach")
    BY DEF Between
  <2>3. ~\E l \in Loop : Attached(l)
    BY DEF Between, Attached
  <2>4. attached \in {"none", "current"} /\ authenticated \in BOOLEAN
    BY <2>1 DEF Coherent, LoopInv, TypeOK
  <2> QED BY <2>1, <2>2, <2>3, <2>4 DEF Coherent
<1>4. QED BY <1>1, <1>2, <1>3, LoopInvariant, PTL DEF Spec
=============================================================================
