--------------------------- MODULE ControllerPage ---------------------------
(***************************************************************************)
(* The page of a viewer, controller.js: joining, the WebRTC rounds with    *)
(* their recovery budget and circuit breaker, the fallback pictures, the    *)
(* takeover notice and the end of the share.                               *)
(*                                                                         *)
(* JavaScript runs one handler at a time; a step is a handler, or the part  *)
(* of an async function between two awaits. The page's variables are the    *)
(* fields of page, and the functions that several handlers call are         *)
(* operators on it, in the order of the calls. Of the server counts who     *)
(* holds the lease and whether the share has ended; of a request in flight, *)
(* which answers it may still get, and any may fail.                        *)
(* Left out: what the page writes into its elements, profiles, statistics,  *)
(* pointer events, demo shares, and two polls or events at the same time.  *)
(***************************************************************************)
EXTENDS Naturals

CONSTANTS MaxRecoveries,  \* WEBRTC_MAX_AUTO_RECOVERIES
          MaxRounds       \* bound of the model: rounds that are told apart

ASSUME RecoveryAssumption == MaxRecoveries \in Nat /\ MaxRounds \in Nat /\ MaxRecoveries + 1 < MaxRounds

VARIABLES
  page,     \* the variables of the page and the state of its elements
  call,     \* the answers that a poll or control event in flight may get
  join,     \* the same of a request to join or reclaim
  mine,     \* server: the page's viewer token holds the lease
  gone      \* server: the share has ended

vars == <<page, call, join, mine, gone>>

Answer == {"ok", "taken", "gone"}
Verdict == IF gone THEN {"gone"} ELSE IF mine THEN {"ok"} ELSE {"taken"}
Joined(p) == p.screen = "joined"

Init ==
  /\ page = [screen |-> "form",
             round |-> "off",       \* webRTCStarting, and what it awaits
             asked |-> {},          \* the answers its request may get
             own |-> FALSE,         \* its connection is peerConnection
             pending |-> FALSE,     \* recoveryPending
             attempts |-> 0,        \* reconnectAttempts
             timer |-> FALSE,       \* reconnectTimer
             circuit |-> "closed",  \* webrtcCircuitOpen, cooling or cooled down
             peer |-> "none",       \* peerConnection and its state
             channel |-> "none",    \* dataChannel
             watchdog |-> FALSE,    \* offerWatchdogTimer
             decoded |-> FALSE,     \* the video element has data
             visible |-> FALSE,     \* it is shown, else the fallback image is
             native |-> TRUE,       \* renderMode
             fallback |-> "off",    \* fallbackRunning, with a loop or without
             retry |-> FALSE,       \* fallbackRetryTimer
             rounds |-> 0,          \* history: since a connection or the user's wish
             unusable |-> 0,        \* history: since a data channel or that wish
             skipped |-> FALSE]     \* history: a join or the button started no round
  /\ call = {} /\ join = {} /\ mine = FALSE /\ gone = FALSE
-----------------------------------------------------------------------------
MediaRestored(p) == p.peer = "connected" /\ p.channel = "open"

(* A loop that is started outside of a joined page marks itself as running *)
(* and does nothing; one that finds native video shown stops at once.       *)
StartFallback(p) ==
  IF p.fallback # "off" THEN p
  ELSE [p EXCEPT !.fallback = CASE ~Joined(p) -> "dead"
                                [] Joined(p) /\ p.visible -> "off"
                                [] OTHER -> "live"]

StopFallback(p) == [p EXCEPT !.fallback = "off"]

ShowNative(p) ==
  IF p.native /\ p.decoded
  THEN StopFallback([p EXCEPT !.visible = TRUE, !.retry = FALSE]) ELSE p

(* Variant: the recovery timer runs on. *)
CleanupKeepsTimer(p) ==
  [p EXCEPT !.watchdog = FALSE, !.channel = "none", !.peer = "none",
            !.own = FALSE, !.decoded = FALSE]

Cleanup(p) ==
  [p EXCEPT !.timer = FALSE, !.watchdog = FALSE, !.channel = "none", !.peer = "none",
            !.own = FALSE, !.decoded = FALSE]

ShowTakeover(p) == [StopFallback(Cleanup(p)) EXCEPT !.screen = "taken"]
EndSession(p) == [StopFallback(Cleanup(p)) EXCEPT !.screen = "ended", !.retry = FALSE]

OpenCircuit(p) ==
  IF p.circuit # "closed" THEN p
  ELSE StartFallback([p EXCEPT !.circuit = "cooling", !.timer = FALSE, !.native = FALSE])

ResetCircuit(p) ==
  [p EXCEPT !.circuit = "closed", !.attempts = 0, !.rounds = 0, !.unusable = 0]

(* scheduleWebRTCRecovery, once no round is running and the breaker lets it: *)
(* the timer is set, or the budget is used up.                              *)
SpendBudget(p, immediate) ==
  CASE p.timer /\ ~immediate -> p
    [] p.attempts < MaxRecoveries -> [p EXCEPT !.attempts = @ + 1, !.timer = TRUE]
    [] OTHER -> OpenCircuit([p EXCEPT !.attempts = @ + 1, !.timer = FALSE])

Schedule(p, immediate) ==
  CASE ~Joined(p) -> p
    [] Joined(p) /\ p.round # "off" -> [p EXCEPT !.pending = TRUE]
    [] Joined(p) /\ p.round = "off" /\ p.circuit = "closed" -> SpendBudget(p, immediate)
    [] Joined(p) /\ p.round = "off" /\ p.circuit = "cooled" /\ immediate ->
         SpendBudget(ResetCircuit(p), immediate)
    [] OTHER -> p

Counted(n) == IF n < MaxRounds THEN n + 1 ELSE n

(* startWebRTC up to its first await; answers are those of its request.     *)
StartWebRTC(p, answers) ==
  IF p.screen = "taken" \/ p.round # "off" THEN p
  ELSE [Cleanup(p) EXCEPT !.round = "config", !.asked = answers, !.pending = FALSE,
                          !.skipped = FALSE, !.rounds = Counted(@), !.unusable = Counted(@)]

(* Variant: a recovery that was asked for during the round is forgotten.   *)
FinishForgets(p) == [p EXCEPT !.round = "off", !.asked = {}, !.own = FALSE]

(* Variant: the next round is not charged to the budget. *)
FinishRestarts(p) ==
  LET q == [p EXCEPT !.round = "off", !.asked = {}, !.own = FALSE]
  IN IF q.pending /\ Joined(q) THEN [q EXCEPT !.timer = TRUE] ELSE q

(* Its end, the finally block. *)
Finish(p) ==
  LET q == [p EXCEPT !.round = "off", !.asked = {}, !.own = FALSE]
  IN IF q.pending /\ Joined(q) THEN Schedule(q, TRUE) ELSE q

(* An error that is neither a takeover nor the end of the share. *)
RoundFails(p) == Finish(Schedule(StartFallback(p), FALSE))

Refused(p, answer) == IF answer = "taken" THEN ShowTakeover(p) ELSE EndSession(p)
-----------------------------------------------------------------------------
(* A join from the form, or a reclaim from the takeover notice: performJoin. *)
AskJoin ==
  /\ page.screen \in {"form", "taken"} /\ join = {}
  /\ join' = IF gone THEN {"gone"} ELSE {"ok"}
  /\ UNCHANGED <<page, call, mine, gone>>

(* A request under way that the server sees after the lease has changed its  *)
(* viewer token, which is Taken, or after the share has ended.              *)
Taken(answers) == IF "ok" \in answers THEN answers \cup {"taken"} ELSE answers
Ended(answers) == IF answers = {} THEN {} ELSE answers \cup {"gone"}

(* The answer, wherever the page is by then; showController starts the      *)
(* fallback pictures and a round. Requests under way carry the old token.   *)
JoinAnswered ==
  /\ join # {} /\ join' = {}
  /\ \/ /\ "ok" \in join
        /\ mine' = ~gone
        /\ call' = Taken(call)
        /\ LET shown == StartFallback([page EXCEPT !.screen = "joined", !.visible = FALSE,
                                        !.asked = Taken(@), !.rounds = 0, !.unusable = 0,
                                        !.skipped = (page.round # "off")])
           IN page' = StartWebRTC(shown, IF gone THEN {"gone"} ELSE {"ok"})
     \/ UNCHANGED <<page, call, mine>>
  /\ UNCHANGED gone

(* pollSession every 1.5 s, or a control event that the data channel does   *)
(* not take; an event answered with the end of the share may also only show *)
(* that the page reconnects.                                                *)
AskServer ==
  /\ Joined(page) /\ call = {}
  /\ call' = Verdict
  /\ UNCHANGED <<page, join, mine, gone>>

ServerAnswers ==
  /\ call # {} /\ call' = {}
  /\ \/ UNCHANGED page
     \/ \E answer \in call \ {"ok"} : page' = Refused(page, answer)
  /\ UNCHANGED <<join, mine, gone>>

(* The countdown of the page; its clock is the server's. *)
Countdown ==
  /\ Joined(page) /\ gone
  /\ page' = EndSession(page)
  /\ UNCHANGED <<call, join, mine, gone>>

(* Leaving from the takeover notice. *)
Exit ==
  /\ page.screen = "taken"
  /\ page' = EndSession(page)
  /\ UNCHANGED <<call, join, mine, gone>>
-----------------------------------------------------------------------------
(* The configuration arrives. Nothing looks at the screen again: the round  *)
(* makes its connection also under a takeover notice.                       *)
ConfigAnswered ==
  /\ page.round = "config"
  /\ \/ /\ "ok" \in page.asked
        /\ \/ page' = [page EXCEPT !.round = "gather", !.asked = {}, !.own = TRUE,
                                  !.peer = "new", !.channel = "opening", !.watchdog = TRUE]
           \/ page' = Finish(OpenCircuit(page))  \* realtimeExpected is false
     \/ \E answer \in page.asked \ {"ok"} : page' = Finish(Refused(page, answer))
     \/ page' = RoundFails(page)
  /\ UNCHANGED <<call, join, mine, gone>>

(* The offer is made and its candidates are gathered; on a connection that  *)
(* was closed meanwhile this may fail.                                      *)
Gathered ==
  /\ page.round = "gather"
  /\ \/ page' = [page EXCEPT !.round = "offer", !.asked = Verdict]
     \/ page' = RoundFails(page)
  /\ UNCHANGED <<call, join, mine, gone>>

OfferAnswered ==
  /\ page.round = "offer"
  /\ \/ /\ "ok" \in page.asked
        /\ page' = Finish(IF page.own THEN [page EXCEPT !.peer = "answered"] ELSE page)
     \/ \E answer \in page.asked \ {"ok"} : page' = Finish(Refused(page, answer))
     \/ page' = RoundFails(page)
  /\ UNCHANGED <<call, join, mine, gone>>

(* Variant: the watchdog closes the connection, and that is all. *)
WatchdogGivesUp ==
  /\ page.watchdog
  /\ page' = StartFallback([page EXCEPT !.watchdog = FALSE, !.peer = "none",
                                       !.channel = "none", !.own = FALSE])
  /\ UNCHANGED <<call, join, mine, gone>>

(* 35 s after the connection was made. *)
Watchdog ==
  /\ page.watchdog
  /\ page' = Schedule(StartFallback([page EXCEPT !.watchdog = FALSE, !.peer = "none",
                                       !.channel = "none", !.own = FALSE]), FALSE)
  /\ UNCHANGED <<call, join, mine, gone>>
-----------------------------------------------------------------------------
Connected ==
  /\ page.peer \in {"answered", "disconnected"}
  /\ page' = [page EXCEPT !.peer = "connected", !.timer = FALSE, !.attempts = 0,
                         !.pending = FALSE, !.rounds = 0]
  /\ UNCHANGED <<call, join, mine, gone>>

Lost ==
  /\ page.peer \in {"answered", "connected", "disconnected"}
  /\ \E state \in {"disconnected", "failed"} \ {page.peer} :
       page' = Schedule(StartFallback([page EXCEPT !.peer = state]), FALSE)
  /\ UNCHANGED <<call, join, mine, gone>>

(* prioritizeNativeVideo sets the timer of the fallback pictures. *)
ChannelOpens ==
  /\ page.peer = "connected" /\ page.channel = "opening"
  /\ page' = [page EXCEPT !.channel = "open", !.watchdog = FALSE, !.attempts = 0,
                         !.retry = (@ \/ page.native), !.rounds = 0, !.unusable = 0]
  /\ UNCHANGED <<call, join, mine, gone>>

ChannelCloses ==
  /\ page.peer \in {"connected", "disconnected", "failed"} /\ page.channel # "none"
  /\ LET closed == [page EXCEPT !.channel = "none", !.watchdog = FALSE]
     IN page' = IF Joined(page) THEN Schedule(StartFallback(closed), FALSE) ELSE closed
  /\ UNCHANGED <<call, join, mine, gone>>

(* The first frame of the native track is decoded. *)
Decoded ==
  /\ page.peer = "connected" /\ ~page.decoded
  /\ page' = ShowNative([page EXCEPT !.decoded = TRUE])
  /\ UNCHANGED <<call, join, mine, gone>>
-----------------------------------------------------------------------------
RecoveryTimer ==
  /\ page.timer
  /\ LET fired == [page EXCEPT !.timer = FALSE]
     IN page' = IF Joined(page) /\ ~MediaRestored(page) THEN StartWebRTC(fired, Verdict) ELSE fired
  /\ UNCHANGED <<call, join, mine, gone>>

FallbackTimer ==
  /\ page.retry
  /\ LET fired == [page EXCEPT !.retry = FALSE]
     IN page' = IF Joined(page) /\ ~page.visible THEN StartFallback(fired) ELSE fired
  /\ UNCHANGED <<call, join, mine, gone>>

(* The cooldown of the breaker is over. *)
Cooldown ==
  /\ page.circuit = "cooling"
  /\ page' = [page EXCEPT !.circuit = "cooled"]
  /\ UNCHANGED <<call, join, mine, gone>>

(* The page comes into view again. *)
Visible ==
  /\ Joined(page) /\ ~MediaRestored(page)
  /\ page' = Schedule(page, TRUE)
  /\ UNCHANGED <<call, join, mine, gone>>

(* useCompatibilityPreview and retryLowLatencyVideo behind one button. *)
Compatibility ==
  /\ Joined(page) /\ page.native
  /\ page' = StartFallback([page EXCEPT !.native = FALSE, !.visible = FALSE])
  /\ UNCHANGED <<call, join, mine, gone>>

LowLatency ==
  /\ Joined(page) /\ ~page.native
  /\ LET reset == [ResetCircuit(page) EXCEPT !.native = TRUE]
     IN page' = IF page.decoded THEN ShowNative([reset EXCEPT !.skipped = ~MediaRestored(page)])
                ELSE StartWebRTC(reset, Verdict)
  /\ UNCHANGED <<call, join, mine, gone>>
-----------------------------------------------------------------------------
(* Another viewer takes control. *)
Takeover ==
  /\ mine /\ ~gone
  /\ mine' = FALSE
  /\ call' = Taken(call) /\ page' = [page EXCEPT !.asked = Taken(@)]
  /\ UNCHANGED <<join, gone>>

ShareEnds ==
  /\ ~gone
  /\ gone' = TRUE /\ mine' = FALSE
  /\ call' = Ended(call) /\ join' = Ended(join) /\ page' = [page EXCEPT !.asked = Ended(@)]

Answers == JoinAnswered \/ ServerAnswers \/ ConfigAnswered \/ Gathered \/ OfferAnswered
Timers == Watchdog \/ RecoveryTimer \/ FallbackTimer \/ Cooldown \/ Countdown
Network == Connected \/ Lost \/ ChannelOpens \/ ChannelCloses \/ Decoded
Viewer == AskJoin \/ Exit \/ Visible \/ Compatibility \/ LowLatency
Server == Takeover \/ ShareEnds

Next == Answers \/ Timers \/ Network \/ Viewer \/ AskServer \/ Server

Spec == Init /\ [][Next]_vars

(* A browser answers its timers and reports a dead connection; an HTTP call *)
(* ends; ICE ends by itself or by the watchdog.                             *)
Fairness ==
  /\ WF_vars(ConfigAnswered) /\ WF_vars(Gathered) /\ WF_vars(OfferAnswered)
  /\ WF_vars(Watchdog) /\ WF_vars(RecoveryTimer)

FairSpec == Spec /\ Fairness
-----------------------------------------------------------------------------
Page ==
  [screen : {"form", "joined", "taken", "ended"},
   round : {"off", "config", "gather", "offer"}, asked : SUBSET Answer, own : BOOLEAN,
   pending : BOOLEAN, attempts : 0 .. MaxRecoveries + 1, timer : BOOLEAN,
   circuit : {"closed", "cooling", "cooled"},
   peer : {"none", "new", "answered", "connected", "disconnected", "failed"},
   channel : {"none", "opening", "open"}, watchdog : BOOLEAN, decoded : BOOLEAN,
   visible : BOOLEAN, native : BOOLEAN, fallback : {"off", "live", "dead"}, retry : BOOLEAN,
   rounds : 0 .. MaxRounds, unusable : 0 .. MaxRounds, skipped : BOOLEAN]

TypeOK ==
  /\ page \in Page
  /\ call \in SUBSET Answer /\ join \in SUBSET {"ok", "gone"}
  /\ mine \in BOOLEAN /\ gone \in BOOLEAN

(* A recovery that waits for its timer can neither tear down a round that   *)
(* is running nor get past the breaker or a takeover (scheduleWebRTCRecovery *)
(* and cleanupWebRTC).                                                      *)
RecoveriesDoNotOverlap ==
  page.timer => Joined(page) /\ page.round = "off" /\ page.circuit = "closed"

(* The types, and that recoveries do not overlap.                           *)
PageInv == TypeOK /\ RecoveriesDoNotOverlap

(* No reconnect storm: between two connections, and without the viewer's    *)
(* doing, there are the first round and MaxRecoveries more, however late    *)
(* answers, watchdog and network events come (scheduleWebRTCRecovery).      *)
RecoveryBounded == page.rounds <= MaxRecoveries + 1

(* The recovery of the connection is never forgotten: a joined page without *)
(* a usable connection has a round, a timer or the watchdog that goes on, or *)
(* its breaker has opened, after which it waits for the viewer              *)
(* (scheduleWebRTCRecovery, the finally block of startWebRTC). The code does *)
(* not give it, and it is not claimed, after a join that met the round of   *)
(* an earlier lease, which startWebRTC leaves alone (skipped), after a      *)
(* button that found the last frame of a dead connection (skipped), and for *)
(* a channel that closed on a connection that came back, whose report takes *)
(* the timer away. Nothing is said of what the viewer sees meanwhile:       *)
(* FallbackRuns and BreakerShowsFallback below are what the code misses.    *)
KeepsTrying ==
  Joined(page) /\ ~MediaRestored(page) =>
    \/ page.round # "off" \/ page.timer \/ page.watchdog \/ page.circuit # "closed"
    \/ page.skipped \/ (page.peer = "connected" /\ page.channel = "none")

(* A joined page comes to a connection or opens the breaker, if the viewer  *)
(* does not press the button for ever.                                      *)
RoundsSettle ==
  <>[][~LowLatency]_vars =>
    (Joined(page) ~> \/ ~Joined(page) \/ page.peer = "connected"
                     \/ page.circuit # "closed" \/ page.skipped)

-----------------------------------------------------------------------------
(* What comments of controller.js say and TLC refutes.                      *)

(* "At most one automatic recovery round after the initial offer", where a  *)
(* round is good for "a usable data channel".                               *)
OneRecoveryPerChannel == page.unusable <= MaxRecoveries + 1

(* "Fallback frames keep the controller usable when ICE/TURN is             *)
(* unavailable": those that a joined page has started do run.               *)
FallbackRuns == Joined(page) => page.fallback # "dead"

(* "the breaker opens and the viewer gets a stable compatibility mode".     *)
BreakerShowsFallback ==
  Joined(page) /\ page.circuit = "cooling" /\ ~page.native => page.fallback # "off"
=============================================================================
