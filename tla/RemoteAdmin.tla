---------------------------- MODULE RemoteAdmin ----------------------------
(***************************************************************************)
(* The 88FRP sign-in of PhoneBridge: RemoteAdminService in frp_auth.go     *)
(* with the stored login of credential_store.go. A browser signs in with a *)
(* challenge and a proof; goroutines sign in with the stored login, at the *)
(* start and again after 88FRP has answered 401; the owner signs out.      *)
(*                                                                         *)
(* Between its critical sections an actor waits for 88FRP's HTTP answer or *)
(* is preempted, and any other may run; an answer and the section that     *)
(* follows it are one step. An HTTP client stands for its cookie jar; of a *)
(* client only counts whether it is the service's current one or one that  *)
(* the service has dropped. 88FRP may answer 401 to any. Settings and      *)
(* synchronisation are PublicAccess; here only the 401 counts. Abstracted  *)
(* are proofs, names, URLs, the 3 s between two actions and failed writes. *)
(***************************************************************************)
EXTENDS Naturals

CONSTANTS Request,  \* concurrent requests to the sign-in API
          Loop,     \* goroutines of startAutoLogin that may run at once
          Syncer    \* the periodic synchronisation

ASSUME ActorAssumption ==
  /\ Request \cap Loop = {} /\ Syncer \notin Request \cup Loop
  /\ \E l, m \in Loop : l # m

VARIABLES
  client,        \* service.frpClient and its cookieJar: "none" or "current"
  attached,      \* publicAccess.frpClient: "none", "current" or "dropped"
  authenticated, \* service.authenticated
  attempt,       \* service.attempt is one a browser was given
  autoState,     \* autoLoginState
  cancel,        \* autoLoginCancel is set
  saved,         \* the credential store holds a login
  act,           \* where each actor is, and its HTTP client
  calm,          \* history: the last drop of the session met no sign-in that goes
                 \* on regardless, and none was attached between its two steps
  leaving,       \* history: the sign-outs under way, and no sign-in since they began
  left           \* history: such a sign-out deleted the login, and nobody signed in since

sessionVars == <<client, attached, authenticated>>
autoVars == <<autoState, cancel>>
vars == <<sessionVars, autoVars, saved, act, attempt, calm, leaving, left>>

Actor == Request \cup Loop \cup {Syncer}

At(where) == [pc |-> where, c |-> "none"]
With(where) == [pc |-> where, c |-> "current"]
Resting == [a \in Actor |-> At(IF a \in Loop THEN "off" ELSE "idle")]
Goto(a, t) == act' = [act EXCEPT ![a] = t]
Move(a, where) == Goto(a, [act[a] EXCEPT !.pc = where])
In(a, where) == act[a].pc = where

(* The loop that Run starts, and one that is free: LoopsBounded shows that  *)
(* there is one.                                                            *)
FirstLoop == CHOOSE l \in Loop : TRUE
FreeLoop == CHOOSE l \in Loop : In(l, "off")

Init ==
  /\ client = "none" /\ attached = "none" /\ authenticated = FALSE
  /\ attempt = FALSE /\ autoState = "idle" /\ cancel = FALSE
  /\ saved \in BOOLEAN
  /\ act = [Resting EXCEPT ![FirstLoop] = At("begin")]
  /\ calm = TRUE /\ leaving = {} /\ left = FALSE

(* frpSessionClient: the client there is, or a new one. *)
SessionClient == client' = "current"
-----------------------------------------------------------------------------
(* HandleChallenge asks 88FRP, in proxyChallenge; the new attempt replaces  *)
(* the one that was there.                                                  *)
AskChallenge(r) ==
  /\ In(r, "idle")
  /\ SessionClient
  /\ Goto(r, At("challenge"))
  /\ UNCHANGED <<attached, authenticated, autoVars, saved, attempt, calm, leaving, left>>

GetChallenge(r) ==
  /\ In(r, "challenge")
  /\ attempt' \in {attempt, TRUE}
  /\ Goto(r, At("idle"))
  /\ UNCHANGED <<sessionVars, autoVars, saved, calm, leaving, left>>

(* HandleLogin takes the attempt out of its slot in any case. Without one,  *)
(* or if it is too old or not the browser's, the answer is 401.             *)
Login(r) ==
  /\ In(r, "idle")
  /\ attempt' = FALSE
  /\ \/ attempt /\ SessionClient /\ Goto(r, With("login")) /\ leaving' = {} /\ left' = FALSE
     \/ UNCHANGED <<client, act, leaving, left>>
  /\ UNCHANGED <<attached, authenticated, autoVars, saved, calm>>

(* proxyLogin succeeds. The session counts as authenticated at once for a  *)
(* browser, for a loop only after its synchronisation.                      *)
LoginAccepted(a) ==
  /\ In(a, "login")
  /\ authenticated' = (authenticated \/ a \in Request)
  /\ Move(a, "attach")
  /\ UNCHANGED <<client, attached, autoVars, saved, attempt, calm, leaving, left>>

(* completeFRPLogin: SetFRPClient, then Save and Sync. A loop goes on after *)
(* them; a request is done, and its 401 is as good as the syncer's.         *)
Detaching == \E a \in Actor : act[a].pc \in {"detach", "expire-detach", "logout-detach"}
Attach(a) ==
  /\ In(a, "attach")
  /\ attached' = act[a].c
  /\ calm' = (calm /\ ~Detaching)
  /\ Goto(a, At(IF a \in Loop THEN "sync" ELSE "idle"))
  /\ UNCHANGED <<client, authenticated, autoVars, saved, attempt, leaving, left>>

(* The end of a loop's sign-in, whatever its synchronisation met. *)
Mark(l) ==
  /\ act[l].pc \in {"sync", "mark"}
  /\ authenticated' = TRUE /\ autoState' = "done"
  /\ Goto(l, At("exit"))
  /\ UNCHANGED <<client, attached, cancel, saved, attempt, calm, leaving, left>>
-----------------------------------------------------------------------------
(* A sign-in is on its way that goes on when its session is dropped; a loop *)
(* is until it has marked its session, also while it drops it itself for    *)
(* the 401 that its own synchronisation met.                                *)
SigningIn(a) ==
  \/ act[a].pc \in {"login", "attach"}
  \/ a \in Loop /\ act[a].pc \in {"ask", "sync", "mark", "expire", "expire-detach",
                                  "decide", "arm"}

(* clearFRPSession, what it holds under the mutex; SetFRPClient(nil), a     *)
(* step later, is Detach. The actor goes on at where.                       *)
Dropped(c) == IF c = "current" THEN "dropped" ELSE c
ClearSession(a, where) ==
  /\ client' = "none" /\ authenticated' = FALSE /\ attached' = Dropped(attached)
  /\ calm' = \A b \in Actor : SigningIn(b) => b = a /\ act[a].pc \in {"ask", "login"}
  /\ act' = [b \in Actor |-> IF b = a THEN At(where)
                             ELSE [act[b] EXCEPT !.c = Dropped(@)]]

(* Variant: a refused sign-in leaves the client with the synchronisation.  *)
RefusedKeepsAttached(a) ==
  /\ In(a, "login") \/ In(a, "ask")
  /\ ClearSession(a, IF a \in Loop THEN "fail" ELSE "idle")
  /\ UNCHANGED <<autoVars, saved, attempt, leaving, left>>

(* proxyLogin, or a loop's proxyChallenge, fails: the session is dropped,   *)
(* whoever made it.                                                         *)
Refused(a) ==
  /\ In(a, "login") \/ In(a, "ask")
  /\ ClearSession(a, "detach")
  /\ UNCHANGED <<autoVars, saved, attempt, leaving, left>>

Detach(a) ==
  /\ attached' = "none"
  /\ \/ In(a, "detach") /\ Move(a, IF a \in Loop THEN "fail" ELSE "idle")
     \/ In(a, "expire-detach") /\ Move(a, "decide")
     \/ \E here \in BOOLEAN :  \* from this computer, or over the tunnel
          In(a, "logout-detach") /\ Move(a, IF here THEN "forget" ELSE "idle")
  /\ leaving' = {r \in leaving : r = a => act'[a].pc = "forget"}
  /\ UNCHANGED <<client, authenticated, autoVars, saved, attempt, calm, left>>

(* invalidateFRPSession: the management API has forgotten the session of    *)
(* the client that asked, or it never had one, and answers 401. Without any *)
(* session that is nobody's loss.                                           *)
Return(a) == IF a \in Loop THEN "mark" ELSE "idle"
Unauthorized(a) ==
  /\ In(a, IF a = Syncer THEN "idle" ELSE "sync")
  /\ Move(a, IF authenticated \/ client # "none" THEN "expire" ELSE Return(a))
  /\ UNCHANGED <<sessionVars, autoVars, saved, attempt, calm, leaving, left>>

(* expireFRPSession: drop the session, which may be a newer one ... *)
Expire(a) ==
  /\ In(a, "expire")
  /\ ClearSession(a, "expire-detach")
  /\ UNCHANGED <<autoVars, saved, attempt, leaving, left>>

(* ... and, with a stored login and no sign-in running, ... *)
Decide(a) ==
  /\ In(a, "decide")
  /\ Move(a, IF saved /\ autoState # "running" THEN "arm" ELSE Return(a))
  /\ UNCHANGED <<sessionVars, autoVars, saved, attempt, calm, leaving, left>>

(* Variant: autoLoginCancel is not set. *)
ArmUnmarked(a) ==
  /\ In(a, "arm")
  /\ IF cancel
     THEN Move(a, Return(a)) /\ UNCHANGED autoVars
     ELSE /\ autoState' = "idle"
          /\ act' = [act EXCEPT ![a] = At(Return(a)), ![FreeLoop] = At("begin")]
          /\ UNCHANGED cancel
  /\ UNCHANGED <<sessionVars, saved, attempt, calm, leaving, left>>

(* ... start a loop, unless an earlier call has and it has not ended.      *)
Arm(a) ==
  /\ In(a, "arm")
  /\ IF cancel
     THEN Move(a, Return(a)) /\ UNCHANGED autoVars
     ELSE /\ cancel' = TRUE /\ autoState' = "idle"
          /\ act' = [act EXCEPT ![a] = At(Return(a)), ![FreeLoop] = At("begin")]
  /\ UNCHANGED <<sessionVars, saved, attempt, calm, leaving, left>>
-----------------------------------------------------------------------------
(* HandleLogout. From the owner's computer it also deletes the stored login,*)
(* which a loop that is about to look has read already.                     *)
HasLogin(a) == SigningIn(a) \/ In(a, "look")
Logout(r) ==
  /\ In(r, "idle")
  /\ ClearSession(r, "logout-detach")
  /\ leaving' = IF \E a \in Actor : HasLogin(a) THEN {} ELSE leaving \cup {r}
  /\ UNCHANGED <<autoVars, saved, attempt, left>>

Forget(r) ==
  /\ In(r, "forget")
  /\ saved' = FALSE
  /\ leaving' = leaving \ {r} /\ left' = (left \/ r \in leaving)
  /\ Move(r, "idle")
  /\ UNCHANGED <<sessionVars, autoVars, attempt, calm>>

(* HandleSaveCredentials, with or without "remember"; the file is replaced  *)
(* in one step.                                                             *)
SaveCredentials(r) ==
  /\ In(r, "idle")
  /\ saved' \in BOOLEAN
  /\ left' = (left /\ ~saved')
  /\ UNCHANGED <<sessionVars, autoVars, act, attempt, calm, leaving>>
-----------------------------------------------------------------------------
(* autoLoginOnce *)
LoopBegin(l) ==
  /\ In(l, "begin")
  /\ autoState' = "running"
  /\ Move(l, "load")
  /\ UNCHANGED <<sessionVars, cancel, saved, attempt, calm, leaving, left>>

(* Variant: the login that was read for the first try is used again.       *)
LoopLoadOnce(l) ==
  /\ In(l, "load")
  /\ Move(l, "look") /\ leaving' = {}
  /\ UNCHANGED <<sessionVars, autoVars, saved, attempt, calm, left>>

LoopLoad(l) ==
  /\ In(l, "load")
  /\ IF saved
     THEN Move(l, "look") /\ leaving' = {} /\ UNCHANGED autoState
     ELSE autoState' = "idle" /\ Move(l, "exit") /\ UNCHANGED leaving
  /\ UNCHANGED <<sessionVars, cancel, saved, attempt, calm, left>>

(* Nothing is to be done for a session that is there, else runAutoLogin.    *)
LoopLook(l) ==
  /\ In(l, "look")
  /\ IF authenticated
     THEN Move(l, "present") /\ UNCHANGED client
     ELSE SessionClient /\ Goto(l, With("ask"))
  /\ UNCHANGED <<attached, authenticated, autoVars, saved, attempt, calm, leaving, left>>

LoopPresent(l) ==
  /\ In(l, "present")
  /\ autoState' = "done"
  /\ Move(l, "exit")
  /\ UNCHANGED <<sessionVars, cancel, saved, attempt, calm, leaving, left>>

(* proxyChallenge: the attempt of a browser that was waiting is replaced by *)
(* one that no browser knows.                                               *)
LoopAsk(l) ==
  /\ In(l, "ask")
  /\ attempt' = FALSE
  /\ Move(l, "login")
  /\ UNCHANGED <<sessionVars, autoVars, saved, calm, leaving, left>>

(* Variant: the loop ends after a failure. *)
LoopFailGivesUp(l) ==
  /\ In(l, "fail")
  /\ autoState' = "failed"
  /\ Move(l, "exit")
  /\ UNCHANGED <<sessionVars, cancel, saved, attempt, calm, leaving, left>>

(* Then it begins again after the back-off. *)
LoopFail(l) ==
  /\ In(l, "fail")
  /\ autoState' = "failed"
  /\ Move(l, "begin")
  /\ UNCHANGED <<sessionVars, cancel, saved, attempt, calm, leaving, left>>

LoopExit(l) ==
  /\ In(l, "exit")
  /\ cancel' = FALSE
  /\ Move(l, "off")
  /\ UNCHANGED <<sessionVars, autoState, saved, attempt, calm, leaving, left>>
-----------------------------------------------------------------------------
(* PhoneBridge restarts: only the stored login is left. *)
Restart ==
  /\ client' = "none" /\ attached' = "none" /\ authenticated' = FALSE
  /\ attempt' = FALSE /\ autoState' = "idle" /\ cancel' = FALSE
  /\ calm' = TRUE /\ leaving' = {}
  /\ act' = [Resting EXCEPT ![FirstLoop] = At("begin")]
  /\ UNCHANGED <<saved, left>>

RequestStep(r) ==
  \/ AskChallenge(r) \/ GetChallenge(r) \/ Login(r)
  \/ Logout(r) \/ Forget(r) \/ SaveCredentials(r)

(* What actors of different kinds do. *)
SharedStep(a) ==
  \/ LoginAccepted(a) \/ Refused(a) \/ Attach(a) \/ Detach(a)
  \/ Unauthorized(a) \/ Expire(a) \/ Decide(a) \/ Arm(a)

LoopStep(l) ==
  \/ LoopBegin(l) \/ LoopLoad(l) \/ LoopLook(l) \/ LoopPresent(l) \/ LoopAsk(l)
  \/ Mark(l) \/ LoopFail(l) \/ LoopExit(l)

Next ==
  \/ \E r \in Request : RequestStep(r)
  \/ \E a \in Actor : SharedStep(a)
  \/ \E l \in Loop : LoopStep(l)
  \/ Restart

Spec == Init /\ [][Next]_vars

(* An HTTP call ends by its time limit, a back-off ends, and 88FRP does not *)
(* refuse the stored login for ever.                                        *)
Fairness ==
  \A l \in Loop : /\ WF_vars(SharedStep(l) \/ LoopStep(l))
                  /\ SF_vars(LoopAsk(l)) /\ SF_vars(LoginAccepted(l))

FairSpec == Spec /\ Fairness
-----------------------------------------------------------------------------
TypeOK ==
  /\ client \in {"none", "current"} /\ attached \in {"none", "current", "dropped"}
  /\ authenticated \in BOOLEAN /\ attempt \in BOOLEAN
  /\ autoState \in {"idle", "running", "done", "failed"} /\ cancel \in BOOLEAN
  /\ saved \in BOOLEAN /\ calm \in BOOLEAN /\ left \in BOOLEAN /\ leaving \subseteq Request
  /\ act \in [Actor -> [pc : {"idle", "challenge", "login", "attach", "detach",
                             "logout-detach", "forget", "off", "begin", "load", "look",
                             "present", "ask", "sync", "mark", "fail", "exit",
                             "expire", "expire-detach", "decide", "arm"},
                       c : {"none", "current", "dropped"}]]

Between(a) ==
  act[a].pc \in {"idle", "challenge", "off", "begin", "load", "look", "present", "fail",
                 "exit"}

(* What the status reports is true once nobody is signing in or out: the    *)
(* session it calls authenticated is the one later synchronisations use.    *)
(* calm leaves out every session that was dropped under a sign-in that goes *)
(* on regardless: by a sign-out, by a sign-in of another that is refused,   *)
(* by a 401 of the syncer, and by a 401 of the loop's own synchronisation;  *)
(* and a sign-in so fast that it attaches its client between the two steps  *)
(* of a drop. There the status may be wrong: StatusIsHonest.                *)
SessionCoherent ==
  calm /\ (\A a \in Actor : Between(a)) =>
    authenticated = (attached # "none") /\ (authenticated => attached = "current")

(* The status reports no session that is gone: after a 401 the session is   *)
(* dropped and one is only reported again when there is one                 *)
(* (invalidateFRPSession, expireFRPSession). A 401 met while a loop signs   *)
(* in, by its own synchronisation or another, refutes it.                   *)
StatusIsHonest == (\A a \in Actor : Between(a)) /\ authenticated => attached # "none"

(* After a sign-out at the owner's computer nobody is signed in until       *)
(* somebody signs in or saves a login, not even after a restart             *)
(* (HandleLogout). leaving leaves out the sign-out that meets a sign-in     *)
(* under way, or a loop that reads the stored login before it is deleted:   *)
(* those go on and may end signed in.                                       *)
SignOutStands == left => ~authenticated /\ attached = "none" /\ ~saved

(* There are never more than two loops, the one Run starts and another one  *)
(* of expireFRPSession, so that Arm finds a free one.                       *)
LoopsBounded ==
  \E l, m \in Loop : /\ \A k \in Loop \ {l, m} : In(k, "off")
                     /\ ~cancel => In(m, "off")

LoopInv == TypeOK /\ LoopsBounded

(* A loop that failed comes to report a session in the end, unless the      *)
(* stored login is deleted or PhoneBridge restarted for ever                *)
(* (startAutoLogin). Whether that session lives is SessionCoherent.         *)
RetryRestoresSession ==
  <>[][~Restart]_vars => (\E l \in Loop : In(l, "fail")) ~> authenticated \/ ~saved
=============================================================================
