----------------------- MODULE ControllerPage_proofs -----------------------
(***************************************************************************)
(* Theorems about the page, for any budget: its recoveries are bounded, do *)
(* not overlap and are not forgotten.                                      *)
(***************************************************************************)
EXTENDS ControllerPage, TLAPS

USE RecoveryAssumption

-----------------------------------------------------------------------------
(* Every function of the page keeps the types. *)
LEMMA PageNumbers ==
  ASSUME NEW p \in Page
  PROVE  /\ p.rounds \in Nat /\ p.attempts \in Nat /\ p.timer \in BOOLEAN
         /\ Counted(p.rounds) \in 0 .. MaxRounds /\ Counted(p.unusable) \in 0 .. MaxRounds
BY DEF Page, Counted

LEMMA SettersKeepType ==
  ASSUME NEW p \in Page
  PROVE  /\ [p EXCEPT !.screen = "taken"] \in Page
         /\ [p EXCEPT !.screen = "ended", !.retry = FALSE] \in Page
         /\ [p EXCEPT !.visible = TRUE, !.retry = FALSE] \in Page
         /\ [p EXCEPT !.circuit = "cooling", !.timer = FALSE, !.native = FALSE] \in Page
         /\ [p EXCEPT !.pending = TRUE] \in Page
         /\ [p EXCEPT !.round = "off", !.asked = {}, !.own = FALSE] \in Page
BY ZenonT(60) DEF Page

LEMMA StartFallbackKeepsType ==
  ASSUME NEW p \in Page
  PROVE  StartFallback(p) \in Page
BY DEF Page, StartFallback

LEMMA StopFallbackKeepsType ==
  ASSUME NEW p \in Page
  PROVE  StopFallback(p) \in Page
BY DEF Page, StopFallback

LEMMA CleanupKeepsType ==
  ASSUME NEW p \in Page
  PROVE  Cleanup(p) \in Page
BY ZenonT(30) DEF Page, Cleanup

LEMMA EndsKeepType ==
  ASSUME NEW p \in Page
  PROVE  ShowTakeover(p) \in Page /\ EndSession(p) \in Page
BY CleanupKeepsType, StopFallbackKeepsType, SettersKeepType DEF ShowTakeover, EndSession

LEMMA ShowNativeKeepsType ==
  ASSUME NEW p \in Page
  PROVE  ShowNative(p) \in Page
BY StopFallbackKeepsType, SettersKeepType DEF ShowNative

LEMMA OpenCircuitKeepsType ==
  ASSUME NEW p \in Page
  PROVE  OpenCircuit(p) \in Page
BY StartFallbackKeepsType, SettersKeepType DEF OpenCircuit

LEMMA ResetCircuitKeepsType ==
  ASSUME NEW p \in Page
  PROVE  ResetCircuit(p) \in Page
<1>1. 0 \in 0 .. MaxRounds /\ 0 \in 0 .. MaxRecoveries + 1
  OBVIOUS
<1> QED BY <1>1, ZenonT(30) DEF Page, ResetCircuit

LEMMA StartWebRTCKeepsType ==
  ASSUME NEW p \in Page, NEW answers \in SUBSET Answer
  PROVE  StartWebRTC(p, answers) \in Page
<1>1. ASSUME NEW q \in Page
      PROVE  [q EXCEPT !.round = "config", !.asked = answers, !.pending = FALSE,
                       !.skipped = FALSE, !.rounds = Counted(@), !.unusable = Counted(@)] \in Page
  <2>1. Counted(q.rounds) \in 0 .. MaxRounds /\ Counted(q.unusable) \in 0 .. MaxRounds
    BY PageNumbers
  <2> QED BY <2>1, ZenonT(30) DEF Page
<1> QED BY <1>1, CleanupKeepsType DEF StartWebRTC

LEMMA SpendBudgetKeepsType ==
  ASSUME NEW p \in Page, p.attempts <= MaxRecoveries, NEW immediate \in BOOLEAN
  PROVE  SpendBudget(p, immediate) \in Page
<1>1. p.attempts + 1 \in 0 .. MaxRecoveries + 1
  BY PageNumbers
<1>2. /\ [p EXCEPT !.attempts = @ + 1, !.timer = TRUE] \in Page
      /\ [p EXCEPT !.attempts = @ + 1, !.timer = FALSE] \in Page
  BY <1>1, ZenonT(30) DEF Page
<1> QED BY <1>2, OpenCircuitKeepsType DEF SpendBudget

-----------------------------------------------------------------------------
(* What every function of the page preserves. A round that is about to     *)
(* start is paid for: a timer that runs has been charged to the budget. The *)
(* budget may be overdrawn by one just before the breaker opens.            *)
Charged(p) ==
  /\ p \in Page
  /\ p.rounds <= p.attempts + 1 /\ p.rounds <= MaxRecoveries + 1
  /\ p.timer => /\ Joined(p) /\ p.round = "off" /\ p.circuit = "closed"
                /\ p.rounds <= p.attempts /\ p.attempts <= MaxRecoveries

Budget(p) == Charged(p) /\ (p.circuit = "closed" => p.attempts <= MaxRecoveries)

(* A function that leaves these fields alone, the timer perhaps stopped.    *)
SameBudget(p, q) ==
  /\ q \in Page /\ q.rounds = p.rounds /\ q.attempts = p.attempts /\ q.circuit = p.circuit
  /\ q.timer => p.timer /\ q.screen = p.screen /\ q.round = p.round

LEMMA SameBudgetIsEnough ==
  ASSUME NEW p, NEW q, SameBudget(p, q)
  PROVE  (Budget(p) => Budget(q)) /\ (Charged(p) => Charged(q))
BY DEF SameBudget, Budget, Charged, Joined

LEMMA FallbackKeepsBudget ==
  ASSUME NEW p \in Page
  PROVE  SameBudget(p, StartFallback(p)) /\ SameBudget(p, StopFallback(p))
<1>1. StartFallback(p) \in Page /\ StopFallback(p) \in Page
  BY StartFallbackKeepsType, StopFallbackKeepsType
<1>2. \A v : LET q == [p EXCEPT !.fallback = v]
             IN /\ q.rounds = p.rounds /\ q.attempts = p.attempts /\ q.circuit = p.circuit
                /\ q.timer = p.timer /\ q.screen = p.screen /\ q.round = p.round
  BY DEF Page
<1> QED BY <1>1, <1>2 DEF SameBudget, StartFallback, StopFallback

LEMMA CleanupKeepsBudget ==
  ASSUME NEW p \in Page
  PROVE  /\ SameBudget(p, Cleanup(p)) /\ Cleanup(p).timer = FALSE
         /\ Cleanup(p).screen = p.screen /\ Cleanup(p).round = p.round
<1>1. Cleanup(p) \in Page
  BY CleanupKeepsType
<1>2. LET q == Cleanup(p)
      IN /\ q.rounds = p.rounds /\ q.attempts = p.attempts /\ q.circuit = p.circuit
         /\ q.timer = FALSE /\ q.screen = p.screen /\ q.round = p.round
  BY DEF Page, Cleanup
<1> QED BY <1>1, <1>2 DEF SameBudget

LEMMA EndsKeepBudget ==
  ASSUME NEW p \in Page
  PROVE  /\ SameBudget(p, ShowTakeover(p)) /\ ShowTakeover(p).timer = FALSE
         /\ SameBudget(p, EndSession(p)) /\ EndSession(p).timer = FALSE
<1>1. ASSUME NEW q \in Page, NEW v, q.timer = FALSE
      PROVE  LET t == [q EXCEPT !.screen = v]
                 e == [q EXCEPT !.screen = v, !.retry = FALSE]
             IN /\ t.rounds = q.rounds /\ t.attempts = q.attempts /\ t.circuit = q.circuit
                /\ e.rounds = q.rounds /\ e.attempts = q.attempts /\ e.circuit = q.circuit
                /\ t.timer = FALSE /\ e.timer = FALSE
  BY <1>1 DEF Page
<1>2. PICK q \in Page : /\ q = StopFallback(Cleanup(p)) /\ q.timer = FALSE
                        /\ q.rounds = p.rounds /\ q.attempts = p.attempts /\ q.circuit = p.circuit
  <2>1. PICK c \in Page : c = Cleanup(p) /\ c.timer = FALSE /\ SameBudget(p, c)
    BY CleanupKeepsBudget, CleanupKeepsType
  <2>2. SameBudget(c, StopFallback(c)) /\ StopFallback(c) \in Page
    BY FallbackKeepsBudget DEF SameBudget
  <2>3. StopFallback(c).timer = FALSE
    BY <2>1, <2>2, PageNumbers DEF SameBudget
  <2> QED BY <2>1, <2>2, <2>3 DEF SameBudget
<1>3. ShowTakeover(p) = [q EXCEPT !.screen = "taken"]
      /\ EndSession(p) = [q EXCEPT !.screen = "ended", !.retry = FALSE]
  BY <1>2 DEF ShowTakeover, EndSession
<1>4. ShowTakeover(p) \in Page /\ EndSession(p) \in Page
  BY EndsKeepType
<1> QED BY <1>1, <1>2, <1>3, <1>4 DEF SameBudget

LEMMA OpenCircuitBalances ==
  ASSUME NEW p, Charged(p)
  PROVE  Budget(OpenCircuit(p))
<1>1. CASE p.circuit # "closed"
  BY <1>1 DEF OpenCircuit, Budget
<1>2. CASE p.circuit = "closed"
  <2> DEFINE q == [p EXCEPT !.circuit = "cooling", !.timer = FALSE, !.native = FALSE]
  <2>1. q \in Page
    BY SettersKeepType DEF Charged
  <2>2. /\ q.rounds = p.rounds /\ q.attempts = p.attempts /\ q.circuit = "cooling"
        /\ q.timer = FALSE
    BY DEF Charged, Page
  <2>3. Budget(q)
    BY <2>1, <2>2 DEF Charged, Budget
  <2>4. Budget(StartFallback(q))
    BY <2>1, <2>3, FallbackKeepsBudget, SameBudgetIsEnough
  <2> QED BY <1>2, <2>4 DEF OpenCircuit
<1> QED BY <1>1, <1>2

LEMMA ResetCircuitKeepsBudget ==
  ASSUME NEW p, Budget(p)
  PROVE  /\ Budget(ResetCircuit(p)) /\ ResetCircuit(p).circuit = "closed"
         /\ ResetCircuit(p).rounds = 0 /\ ResetCircuit(p).attempts = 0
         /\ ResetCircuit(p).screen = p.screen /\ ResetCircuit(p).round = p.round
<1>1. p \in Page
  BY DEF Budget, Charged
<1>2. ResetCircuit(p) \in Page
  BY <1>1, ResetCircuitKeepsType
<1>3. LET q == ResetCircuit(p)
      IN /\ q.rounds = 0 /\ q.attempts = 0 /\ q.circuit = "closed"
         /\ q.timer = p.timer /\ q.screen = p.screen /\ q.round = p.round
  BY <1>1 DEF Page, ResetCircuit
<1> QED BY <1>2, <1>3 DEF Budget, Charged, Joined

LEMMA StartWebRTCKeepsBudget ==
  ASSUME NEW p, Budget(p), p.rounds <= p.attempts, p.rounds <= MaxRecoveries,
         NEW answers \in SUBSET Answer
  PROVE  Budget(StartWebRTC(p, answers))
<1>1. p \in Page
  BY DEF Budget, Charged
<1>2. CASE p.screen = "taken" \/ p.round # "off"
  BY <1>2 DEF StartWebRTC
<1>3. CASE ~(p.screen = "taken" \/ p.round # "off")
  <2>1. PICK q \in Page : /\ q = Cleanup(p) /\ q.timer = FALSE /\ q.rounds = p.rounds
                          /\ q.attempts = p.attempts /\ q.circuit = p.circuit
    BY <1>1, CleanupKeepsBudget, CleanupKeepsType DEF SameBudget
  <2> DEFINE r == [q EXCEPT !.round = "config", !.asked = answers, !.pending = FALSE,
                            !.skipped = FALSE, !.rounds = Counted(@), !.unusable = Counted(@)]
  <2>2. StartWebRTC(p, answers) = r
    BY <1>3, <2>1 DEF StartWebRTC
  <2>3. r \in Page
    BY <1>1, <2>2, StartWebRTCKeepsType
  <2>4. /\ r.rounds = Counted(q.rounds) /\ r.attempts = q.attempts
        /\ r.circuit = q.circuit /\ r.timer = FALSE
    BY <2>1 DEF Page
  <2>5. Counted(q.rounds) <= q.rounds + 1
    BY <2>1, PageNumbers DEF Counted
  <2>6. r.rounds <= r.attempts + 1 /\ r.rounds <= MaxRecoveries + 1
    BY <1>1, <2>1, <2>3, <2>4, <2>5, PageNumbers
  <2>7. Budget(r)
    BY <2>1, <2>3, <2>4, <2>6 DEF Budget, Charged
  <2> QED BY <2>2, <2>7
<1> QED BY <1>2, <1>3

LEMMA SpendBudgetBalances ==
  ASSUME NEW p, Budget(p), Joined(p), p.round = "off", p.circuit = "closed",
         NEW immediate \in BOOLEAN
  PROVE  Budget(SpendBudget(p, immediate))
<1>1. p \in Page /\ p.attempts <= MaxRecoveries
  BY DEF Budget, Charged
<1>2. p.attempts + 1 \in 0 .. MaxRecoveries + 1
  BY <1>1, PageNumbers
<1> DEFINE on  == [p EXCEPT !.attempts = @ + 1, !.timer = TRUE]
           off == [p EXCEPT !.attempts = @ + 1, !.timer = FALSE]
<1>3. on \in Page /\ off \in Page
  BY <1>1, <1>2, ZenonT(30) DEF Page
<1>4. /\ on.rounds = p.rounds /\ on.attempts = p.attempts + 1 /\ on.circuit = p.circuit
      /\ on.screen = p.screen /\ on.round = p.round
      /\ off.rounds = p.rounds /\ off.attempts = p.attempts + 1 /\ off.timer = FALSE
  BY <1>1 DEF Page
<1>5. ASSUME p.attempts < MaxRecoveries
      PROVE  Budget(on)
  BY <1>1, <1>3, <1>4, <1>5, PageNumbers DEF Budget, Charged, Joined
<1>6. Budget(OpenCircuit(off))
  <2>1. Charged(off)
    BY <1>1, <1>3, <1>4, PageNumbers DEF Budget, Charged
  <2> QED BY <2>1, OpenCircuitBalances
<1> QED BY <1>5, <1>6 DEF SpendBudget

LEMMA ScheduleKeepsBudget ==
  ASSUME NEW p, Budget(p), NEW immediate \in BOOLEAN
  PROVE  Budget(Schedule(p, immediate))
<1>1. p \in Page
  BY DEF Budget, Charged
<1> DEFINE waits == [p EXCEPT !.pending = TRUE]
<1>2. Budget(waits)
  <2>1. waits \in Page
    BY <1>1, SettersKeepType
  <2>2. /\ waits.rounds = p.rounds /\ waits.attempts = p.attempts
        /\ waits.circuit = p.circuit /\ waits.timer = p.timer
        /\ waits.screen = p.screen /\ waits.round = p.round
    BY <1>1 DEF Page
  <2> QED BY <2>1, <2>2, SameBudgetIsEnough DEF SameBudget
<1>3. ASSUME Joined(p), p.round = "off", p.circuit = "closed"
      PROVE  Budget(SpendBudget(p, immediate))
  BY <1>3, SpendBudgetBalances
<1>4. ASSUME Joined(p), p.round = "off"
      PROVE  Budget(SpendBudget(ResetCircuit(p), immediate))
  BY <1>4, ResetCircuitKeepsBudget, SpendBudgetBalances DEF Joined
<1> QED BY <1>2, <1>3, <1>4 DEF Schedule

LEMMA FinishKeepsBudget ==
  ASSUME NEW p, Budget(p)
  PROVE  Budget(Finish(p))
<1>1. p \in Page
  BY DEF Budget, Charged
<1> DEFINE q == [p EXCEPT !.round = "off", !.asked = {}, !.own = FALSE]
<1>2. q \in Page
  BY <1>1, SettersKeepType
<1>3. /\ q.rounds = p.rounds /\ q.attempts = p.attempts /\ q.circuit = p.circuit
      /\ q.timer = p.timer /\ q.screen = p.screen /\ q.round = "off"
  BY <1>1 DEF Page
<1>4. Budget(q)
  BY <1>2, <1>3 DEF Budget, Charged, Joined
<1>5. Budget(Schedule(q, TRUE))
  BY <1>4, ScheduleKeepsBudget
<1> QED BY <1>4, <1>5 DEF Finish

LEMMA EndOfRoundKeepsBudget ==
  ASSUME NEW p, Budget(p), NEW answer
  PROVE  /\ Budget(StartFallback(p)) /\ Budget(RoundFails(p)) /\ Budget(Refused(p, answer))
         /\ Budget(EndSession(p))
<1>1. p \in Page
  BY DEF Budget, Charged
<1>2. Budget(StartFallback(p))
  BY <1>1, FallbackKeepsBudget, SameBudgetIsEnough
<1>3. Budget(RoundFails(p))
  BY <1>2, ScheduleKeepsBudget, FinishKeepsBudget DEF RoundFails
<1>4. Budget(ShowTakeover(p)) /\ Budget(EndSession(p))
  BY <1>1, EndsKeepBudget, SameBudgetIsEnough
<1> QED BY <1>2, <1>3, <1>4 DEF Refused

LEMMA ShowNativeKeepsBudget ==
  ASSUME NEW p, Budget(p)
  PROVE  Budget(ShowNative(p))
<1>1. p \in Page
  BY DEF Budget, Charged
<1> DEFINE q == [p EXCEPT !.visible = TRUE, !.retry = FALSE]
<1>2. q \in Page
  BY <1>1, SettersKeepType
<1>3. /\ q.rounds = p.rounds /\ q.attempts = p.attempts /\ q.circuit = p.circuit
      /\ q.timer = p.timer /\ q.screen = p.screen /\ q.round = p.round
  BY <1>1 DEF Page
<1>4. Budget(q)
  BY <1>2, <1>3, SameBudgetIsEnough DEF SameBudget
<1>5. Budget(StopFallback(q))
  BY <1>2, <1>4, FallbackKeepsBudget, SameBudgetIsEnough
<1> QED BY <1>5 DEF ShowNative

(* Assignments of a handler that leave the fields of the budget alone.     *)
LEMMA AssignmentsKeepBudget ==
  ASSUME NEW p, Budget(p), NEW answers \in SUBSET Answer,
         NEW state \in {"answered", "disconnected", "failed"}, NEW b \in BOOLEAN
  PROVE  /\ Budget([p EXCEPT !.asked = answers])
         /\ Budget([p EXCEPT !.peer = state])
         /\ Budget([p EXCEPT !.watchdog = FALSE, !.peer = "none", !.channel = "none",
                             !.own = FALSE])
         /\ Budget([p EXCEPT !.channel = "none", !.watchdog = FALSE])
         /\ Budget([p EXCEPT !.decoded = TRUE])
         /\ Budget([p EXCEPT !.timer = FALSE])
         /\ Budget([p EXCEPT !.retry = FALSE])
         /\ Budget([p EXCEPT !.native = FALSE, !.visible = FALSE])
         /\ Budget([p EXCEPT !.native = TRUE])
         /\ Budget([p EXCEPT !.skipped = b])
<1>1. p \in Page
  BY DEF Budget, Charged
<1> DEFINE a == [p EXCEPT !.asked = answers]
           c == [p EXCEPT !.peer = state]
           d == [p EXCEPT !.watchdog = FALSE, !.peer = "none", !.channel = "none", !.own = FALSE]
           e == [p EXCEPT !.channel = "none", !.watchdog = FALSE]
           f == [p EXCEPT !.decoded = TRUE]
           g == [p EXCEPT !.timer = FALSE]
           h == [p EXCEPT !.retry = FALSE]
           k == [p EXCEPT !.native = FALSE, !.visible = FALSE]
           l == [p EXCEPT !.native = TRUE]
           m == [p EXCEPT !.skipped = b]
<1>2. a \in Page /\ c \in Page /\ d \in Page /\ e \in Page /\ f \in Page
  <2>1. a \in Page /\ c \in Page
    BY <1>1, ZenonT(30) DEF Page
  <2>2. d \in Page
    BY <1>1, ZenonT(30) DEF Page
  <2>3. e \in Page /\ f \in Page
    BY <1>1, ZenonT(30) DEF Page
  <2>4. QED BY <2>1, <2>2, <2>3
<1>3. g \in Page /\ h \in Page /\ k \in Page /\ l \in Page /\ m \in Page
  BY <1>1, ZenonT(30) DEF Page
<1> DEFINE Same(q) == /\ q.rounds = p.rounds /\ q.attempts = p.attempts
                      /\ q.circuit = p.circuit /\ q.screen = p.screen /\ q.round = p.round
                      /\ (q.timer = p.timer \/ q.timer = FALSE)
<1>4. Same(a) /\ Same(c) /\ Same(d) /\ Same(e) /\ Same(f)
  BY <1>1 DEF Page
<1>5. Same(g) /\ Same(h) /\ Same(k) /\ Same(l) /\ Same(m)
  BY <1>1 DEF Page
<1>6. ASSUME NEW q \in Page, Same(q)
      PROVE  Budget(q)
  BY <1>6, SameBudgetIsEnough DEF SameBudget
<1> HIDE DEF a, c, d, e, f, g, h, k, l, m, Same
<1>7. /\ Budget(a) /\ Budget(c) /\ Budget(d) /\ Budget(e) /\ Budget(f)
      /\ Budget(g) /\ Budget(h) /\ Budget(k) /\ Budget(l) /\ Budget(m)
  BY <1>2, <1>3, <1>4, <1>5, <1>6
<1> QED BY <1>7 DEF a, c, d, e, f, g, h, k, l, m

-----------------------------------------------------------------------------
Inv ==
  /\ Budget(page)
  /\ call \in SUBSET Answer /\ join \in SUBSET {"ok", "gone"}
  /\ mine \in BOOLEAN /\ gone \in BOOLEAN

LEMMA AnswersKeepType ==
  ASSUME Inv
  PROVE  /\ Verdict \in SUBSET Answer
         /\ \A answers \in SUBSET Answer : /\ Taken(answers) \in SUBSET Answer
                                           /\ Ended(answers) \in SUBSET Answer
         /\ Ended(join) \in SUBSET {"ok", "gone"}
         /\ page.asked \in SUBSET Answer
BY DEF Inv, Verdict, Taken, Ended, Answer, Budget, Charged, Page

LEMMA InitInv ==
  ASSUME Init
  PROVE  Inv
<1>1. page \in Page
  <2>1. 0 \in 0 .. MaxRounds /\ 0 \in 0 .. MaxRecoveries + 1
    OBVIOUS
  <2> QED BY <2>1 DEF Init, Page
<1>2. /\ page.rounds = 0 /\ page.attempts = 0 /\ page.timer = FALSE
  BY DEF Init
<1>3. call = {} /\ join = {} /\ mine = FALSE /\ gone = FALSE
  BY DEF Init
<1>4. Budget(page)
  BY <1>1, <1>2 DEF Budget, Charged
<1> QED BY <1>3, <1>4 DEF Inv

LEMMA JoinInv ==
  ASSUME Inv, AskJoin \/ JoinAnswered
  PROVE  Inv'
<1>1. CASE AskJoin
  BY <1>1 DEF Inv, AskJoin
<1>2. CASE JoinAnswered
  <2>1. CASE UNCHANGED <<page, call, mine>>
    BY <1>2, <2>1 DEF Inv, JoinAnswered
  <2>2. CASE ~ UNCHANGED <<page, call, mine>>
    <3> DEFINE now == [page EXCEPT !.screen = "joined", !.visible = FALSE,
                                   !.asked = Taken(@), !.rounds = 0, !.unusable = 0,
                                   !.skipped = (page.round # "off")]
               shown == StartFallback(now)
               answers == IF gone THEN {"gone"} ELSE {"ok"}
    <3>1. /\ page' = StartWebRTC(shown, answers) /\ call' = Taken(call)
          /\ mine' = ~gone /\ join' = {} /\ gone' = gone
      BY <1>2, <2>2 DEF JoinAnswered
    <3>2. page \in Page
      BY DEF Inv, Budget, Charged
    <3>3. now \in Page
      <4>1. Taken(page.asked) \in SUBSET Answer /\ 0 \in 0 .. MaxRounds
            /\ (page.round # "off") \in BOOLEAN
        BY AnswersKeepType
      <4> QED BY <3>2, <4>1, ZenonT(60) DEF Page
    <3>4. /\ now.rounds = 0 /\ now.attempts = page.attempts /\ now.circuit = page.circuit
          /\ now.timer = page.timer /\ now.screen = "joined" /\ now.round = page.round
      BY <3>2 DEF Page
    <3>5. Budget(now)
      BY <3>2, <3>3, <3>4, PageNumbers DEF Inv, Budget, Charged, Joined
    <3>6. SameBudget(now, shown)
      BY <3>3, FallbackKeepsBudget
    <3>7. answers \in SUBSET Answer
      BY DEF Answer
    <3> HIDE DEF now, shown, answers
    <3>8. Budget(shown) /\ shown.rounds = 0 /\ shown \in Page
      BY <3>4, <3>5, <3>6, SameBudgetIsEnough DEF SameBudget
    <3>9. Budget(StartWebRTC(shown, answers))
      BY <3>7, <3>8, PageNumbers, StartWebRTCKeepsBudget
    <3> QED BY <3>1, <3>9, AnswersKeepType DEF Inv
  <2> QED BY <2>1, <2>2
<1> QED BY <1>1, <1>2

LEMMA ServerInv ==
  ASSUME Inv, AskServer \/ ServerAnswers \/ Countdown \/ Exit \/ Takeover \/ ShareEnds
  PROVE  Inv'
<1>1. CASE AskServer
  BY <1>1, AnswersKeepType DEF Inv, AskServer
<1>2. CASE ServerAnswers
  BY <1>2, EndOfRoundKeepsBudget DEF Inv, ServerAnswers
<1>3. CASE Countdown \/ Exit
  BY <1>3, EndOfRoundKeepsBudget DEF Inv, Countdown, Exit
<1>4. CASE Takeover
  BY <1>4, AnswersKeepType, AssignmentsKeepBudget DEF Inv, Takeover
<1>5. CASE ShareEnds
  BY <1>5, AnswersKeepType, AssignmentsKeepBudget DEF Inv, ShareEnds
<1> QED BY <1>1, <1>2, <1>3, <1>4, <1>5

LEMMA RoundInv ==
  ASSUME Inv, ConfigAnswered \/ Gathered \/ OfferAnswered
  PROVE  Inv'
<1>1. page \in Page /\ Budget(page)
  BY DEF Inv, Budget, Charged
<1>2. UNCHANGED <<call, join, mine, gone>>
  BY DEF ConfigAnswered, Gathered, OfferAnswered
<1>3. /\ Budget(RoundFails(page))
      /\ \A answer : Budget(Finish(Refused(page, answer)))
  BY <1>1, EndOfRoundKeepsBudget, FinishKeepsBudget
<1>4. CASE ConfigAnswered
  <2> DEFINE made == [page EXCEPT !.round = "gather", !.asked = {}, !.own = TRUE,
                                  !.peer = "new", !.channel = "opening", !.watchdog = TRUE]
  <2>1. page.round = "config"
    BY <1>4 DEF ConfigAnswered
  <2>2. made \in Page
    BY <1>1, ZenonT(30) DEF Page
  <2>3. /\ made.rounds = page.rounds /\ made.attempts = page.attempts
        /\ made.circuit = page.circuit /\ made.timer = page.timer
    BY <1>1 DEF Page
  <2>4. Budget(made)
    BY <1>1, <2>1, <2>2, <2>3 DEF Budget, Charged
  <2>5. Budget(Finish(OpenCircuit(page)))
    BY <1>1, OpenCircuitBalances, FinishKeepsBudget DEF Budget
  <2>6. Budget(page')
    BY <1>3, <1>4, <2>4, <2>5 DEF ConfigAnswered
  <2> QED BY <1>2, <2>6 DEF Inv
<1>5. CASE Gathered
  <2> DEFINE sent == [page EXCEPT !.round = "offer", !.asked = Verdict]
  <2>1. page.round = "gather"
    BY <1>5 DEF Gathered
  <2>2. sent \in Page
    BY <1>1, AnswersKeepType, ZenonT(30) DEF Page
  <2>3. /\ sent.rounds = page.rounds /\ sent.attempts = page.attempts
        /\ sent.circuit = page.circuit /\ sent.timer = page.timer
    BY <1>1 DEF Page
  <2>4. Budget(sent)
    BY <1>1, <2>1, <2>2, <2>3 DEF Budget, Charged
  <2>5. Budget(page')
    BY <1>3, <1>5, <2>4 DEF Gathered
  <2> QED BY <1>2, <2>5 DEF Inv
<1>6. CASE OfferAnswered
  <2>1. Budget([page EXCEPT !.peer = "answered"])
    BY <1>1, AssignmentsKeepBudget
  <2>2. Budget(Finish(IF page.own THEN [page EXCEPT !.peer = "answered"] ELSE page))
    BY <1>1, <2>1, FinishKeepsBudget
  <2>3. Budget(page')
    BY <1>3, <1>6, <2>2 DEF OfferAnswered
  <2> QED BY <1>2, <2>3 DEF Inv
<1> QED BY <1>4, <1>5, <1>6

LEMMA NetworkInv ==
  ASSUME Inv, Network \/ Watchdog
  PROVE  Inv'
<1>1. page \in Page /\ Budget(page)
  BY DEF Inv, Budget, Charged
<1>2. UNCHANGED <<call, join, mine, gone>>
  BY DEF Network, Watchdog, Connected, Lost, ChannelOpens, ChannelCloses, Decoded
<1>3. ASSUME NEW q, Budget(q)
      PROVE  Budget(Schedule(StartFallback(q), FALSE))
  BY <1>3, EndOfRoundKeepsBudget, ScheduleKeepsBudget
<1>4. CASE Watchdog
  <2> DEFINE closed == [page EXCEPT !.watchdog = FALSE, !.peer = "none",
                                    !.channel = "none", !.own = FALSE]
  <2>1. Budget(closed)
    BY <1>1, AssignmentsKeepBudget
  <2>2. Budget(page')
    BY <1>3, <1>4, <2>1 DEF Watchdog
  <2> QED BY <1>2, <2>2 DEF Inv
<1>5. CASE Connected
  <2> DEFINE up == [page EXCEPT !.peer = "connected", !.timer = FALSE, !.attempts = 0,
                                !.pending = FALSE, !.rounds = 0]
  <2>1. up \in Page
    <3>1. 0 \in 0 .. MaxRounds /\ 0 \in 0 .. MaxRecoveries + 1
      OBVIOUS
    <3> QED BY <1>1, <3>1, ZenonT(30) DEF Page
  <2>2. up.rounds = 0 /\ up.attempts = 0 /\ up.timer = FALSE
    BY <1>1 DEF Page
  <2>3. Budget(up)
    BY <2>1, <2>2 DEF Budget, Charged
  <2> QED BY <1>2, <1>5, <2>3 DEF Connected, Inv
<1>6. CASE Lost
  <2>1. PICK state \in {"disconnected", "failed"} :
          page' = Schedule(StartFallback([page EXCEPT !.peer = state]), FALSE)
    BY <1>6 DEF Lost
  <2>2. Budget([page EXCEPT !.peer = state])
    BY <1>1, AssignmentsKeepBudget
  <2> QED BY <1>2, <1>3, <2>1, <2>2 DEF Inv
<1>7. CASE ChannelOpens
  <2> DEFINE retry == page.retry \/ page.native
             open == [page EXCEPT !.channel = "open", !.watchdog = FALSE, !.attempts = 0,
                                  !.retry = retry, !.rounds = 0, !.unusable = 0]
  <2>1. page' = open
    BY <1>7 DEF ChannelOpens
  <2>2. open \in Page
    <3>1. 0 \in 0 .. MaxRounds /\ 0 \in 0 .. MaxRecoveries + 1 /\ retry \in BOOLEAN
      BY <1>1 DEF Page
    <3> HIDE DEF retry
    <3> QED BY <1>1, <3>1, ZenonT(30) DEF Page
  <2>3. /\ open.rounds = 0 /\ open.attempts = 0 /\ open.circuit = page.circuit
        /\ open.timer = page.timer /\ open.screen = page.screen /\ open.round = page.round
    BY <1>1 DEF Page
  <2>4. Budget(open)
    BY <1>1, <2>2, <2>3 DEF Budget, Charged, Joined
  <2> QED BY <1>2, <2>1, <2>4 DEF Inv
<1>8. CASE ChannelCloses
  <2>1. Budget([page EXCEPT !.channel = "none", !.watchdog = FALSE])
    BY <1>1, AssignmentsKeepBudget
  <2>2. Budget(page')
    BY <1>3, <1>8, <2>1 DEF ChannelCloses
  <2> QED BY <1>2, <2>2 DEF Inv
<1>9. CASE Decoded
  <2>1. Budget([page EXCEPT !.decoded = TRUE])
    BY <1>1, AssignmentsKeepBudget
  <2>2. Budget(page')
    BY <1>9, <2>1, ShowNativeKeepsBudget DEF Decoded
  <2> QED BY <1>2, <2>2 DEF Inv
<1> QED BY <1>4, <1>5, <1>6, <1>7, <1>8, <1>9 DEF Network

LEMMA TimerInv ==
  ASSUME Inv, RecoveryTimer \/ FallbackTimer \/ Cooldown
  PROVE  Inv'
<1>1. page \in Page /\ Budget(page)
  BY DEF Inv, Budget, Charged
<1>2. UNCHANGED <<call, join, mine, gone>>
  BY DEF RecoveryTimer, FallbackTimer, Cooldown
<1>3. CASE RecoveryTimer
  <2> DEFINE fired == [page EXCEPT !.timer = FALSE]
  <2>1. Budget(fired)
    BY <1>1, AssignmentsKeepBudget
  <2>2. fired.rounds = page.rounds /\ fired.attempts = page.attempts
    BY <1>1 DEF Page
  <2>3. fired.rounds <= fired.attempts /\ fired.rounds <= MaxRecoveries
    BY <1>1, <1>3, <2>2, PageNumbers DEF Budget, Charged, RecoveryTimer
  <2>4. Budget(StartWebRTC(fired, Verdict))
    BY <2>1, <2>3, AnswersKeepType, StartWebRTCKeepsBudget
  <2>5. Budget(page')
    BY <1>3, <2>1, <2>4 DEF RecoveryTimer
  <2> QED BY <1>2, <2>5 DEF Inv
<1>4. CASE FallbackTimer
  <2>1. Budget([page EXCEPT !.retry = FALSE])
    BY <1>1, AssignmentsKeepBudget
  <2>2. Budget(page')
    BY <1>4, <2>1, EndOfRoundKeepsBudget DEF FallbackTimer
  <2> QED BY <1>2, <2>2 DEF Inv
<1>5. CASE Cooldown
  <2> DEFINE cool == [page EXCEPT !.circuit = "cooled"]
  <2>1. cool \in Page
    BY <1>1 DEF Page
  <2>2. /\ cool.rounds = page.rounds /\ cool.attempts = page.attempts
        /\ cool.circuit = "cooled" /\ cool.timer = page.timer
    BY <1>1 DEF Page
  <2>3. Budget(cool)
    BY <1>1, <1>5, <2>1, <2>2 DEF Budget, Charged, Cooldown
  <2> QED BY <1>2, <1>5, <2>3 DEF Cooldown, Inv
<1> QED BY <1>3, <1>4, <1>5

LEMMA ViewerInv ==
  ASSUME Inv, Visible \/ Compatibility \/ LowLatency
  PROVE  Inv'
<1>1. page \in Page /\ Budget(page)
  BY DEF Inv, Budget, Charged
<1>2. UNCHANGED <<call, join, mine, gone>>
  BY DEF Visible, Compatibility, LowLatency
<1>3. CASE Visible
  BY <1>1, <1>2, <1>3, ScheduleKeepsBudget DEF Visible, Inv
<1>4. CASE Compatibility
  <2>1. Budget([page EXCEPT !.native = FALSE, !.visible = FALSE])
    BY <1>1, AssignmentsKeepBudget
  <2>2. Budget(page')
    BY <1>4, <2>1, EndOfRoundKeepsBudget DEF Compatibility
  <2> QED BY <1>2, <2>2 DEF Inv
<1>5. CASE LowLatency
  <2> DEFINE fresh == ResetCircuit(page)
             reset == [fresh EXCEPT !.native = TRUE]
             skip == ~MediaRestored(page)
             old == [reset EXCEPT !.skipped = skip]
  <2>1. Budget(fresh) /\ fresh \in Page /\ fresh.rounds = 0 /\ fresh.attempts = 0
    BY <1>1, ResetCircuitKeepsBudget DEF Budget, Charged
  <2>2. Budget(reset) /\ reset.rounds = 0 /\ reset.attempts = 0
    <3> HIDE DEF fresh
    <3>1. reset.rounds = fresh.rounds /\ reset.attempts = fresh.attempts
      BY <2>1 DEF Page
    <3> QED BY <2>1, <3>1, AssignmentsKeepBudget
  <2>3. skip \in BOOLEAN
    BY DEF MediaRestored
  <2>4. page' = IF page.decoded THEN ShowNative(old) ELSE StartWebRTC(reset, Verdict)
    BY <1>5 DEF LowLatency
  <2> HIDE DEF reset, skip
  <2>5. Budget(ShowNative(old))
    BY <2>2, <2>3, AssignmentsKeepBudget, ShowNativeKeepsBudget
  <2>6. Budget(StartWebRTC(reset, Verdict))
    BY <2>2, AnswersKeepType, StartWebRTCKeepsBudget
  <2> QED BY <1>2, <2>4, <2>5, <2>6 DEF Inv
<1> QED BY <1>3, <1>4, <1>5

(* The budget of recoveries is kept by every handler of controller.js.     *)
THEOREM Inductive == Spec => []Inv
<1>1. Init => Inv
  BY InitInv
<1>2. Inv /\ [Next]_vars => Inv'
  <2> SUFFICES ASSUME Inv, [Next]_vars
               PROVE  Inv'
    OBVIOUS
  <2>1. CASE UNCHANGED vars
    BY <2>1 DEF Inv, vars
  <2>2. CASE Next
    BY <2>2, JoinInv, ServerInv, RoundInv, NetworkInv, TimerInv, ViewerInv
       DEF Next, Answers, Timers, Viewer, Server
  <2> QED BY <2>1, <2>2
<1> QED BY <1>1, <1>2, PTL DEF Spec

(* No reconnect storm, for any budget: between two connections there are   *)
(* the first round and as many more as scheduleWebRTCRecovery allows.      *)
THEOREM RecoveriesBounded == Spec => []RecoveryBounded
<1>1. Inv => RecoveryBounded
  BY DEF Inv, RecoveryBounded, Budget, Charged
<1> QED BY <1>1, Inductive, PTL

(* The types, with at most one attempt beyond the budget, and a recovery    *)
(* timer on a joined page only, with no round under way and the breaker     *)
(* closed: for any budget and any order of late answers.                    *)
THEOREM PageInvariant == Spec => []PageInv
<1>1. Inv => PageInv
  BY DEF Inv, PageInv, TypeOK, RecoveriesDoNotOverlap, Budget, Charged
<1> QED BY <1>1, Inductive, PTL
-----------------------------------------------------------------------------
(* What is behind KeepsTrying. A channel that is opening is watched.        *)
Watched(p) == p.channel = "opening" => p.watchdog

(* The connection of a round is new and watched, and a round runs beside no *)
(* older connection.                                                        *)
Linked(p) ==
  /\ Watched(p)
  /\ p.own => p.peer = "new" /\ p.watchdog
  /\ p.round # "off" => p.peer \in {"none", "new"}

(* A round that has lost its connection is followed by another, or was met  *)
(* by a join.                                                               *)
Recalled(p) ==
  p.round \in {"gather", "offer"} /\ Joined(p) /\ ~p.own => p.pending \/ p.skipped

(* KeepsTrying, of any page. *)
Trying(p) ==
  Joined(p) /\ ~MediaRestored(p) =>
    \/ p.round # "off" \/ p.timer \/ p.watchdog \/ p.circuit # "closed"
    \/ p.skipped \/ (p.peer = "connected" /\ p.channel = "none")

Held(p) == Linked(p) /\ Recalled(p) /\ Trying(p)

(* A function that leaves the connection alone. *)
SameLink(p, q) ==
  /\ q.screen = p.screen /\ q.round = p.round /\ q.own = p.own /\ q.peer = p.peer
  /\ q.channel = p.channel /\ q.watchdog = p.watchdog /\ q.skipped = p.skipped

LEMMA FallbackStarts ==
  ASSUME NEW p \in Page
  PROVE  LET q == StartFallback(p)
         IN /\ SameLink(p, q) /\ q.pending = p.pending /\ q.timer = p.timer
            /\ q.circuit = p.circuit
<1>1. \A v : LET q == [p EXCEPT !.fallback = v]
             IN /\ q.screen = p.screen /\ q.round = p.round /\ q.own = p.own /\ q.peer = p.peer
                /\ q.channel = p.channel /\ q.watchdog = p.watchdog /\ q.skipped = p.skipped
                /\ q.pending = p.pending /\ q.timer = p.timer
                /\ q.circuit = p.circuit
  BY DEF Page
<1> QED BY <1>1 DEF StartFallback, SameLink

LEMMA OpenCircuitOpens ==
  ASSUME NEW p \in Page
  PROVE  LET q == OpenCircuit(p)
         IN SameLink(p, q) /\ q.pending = p.pending /\ q.circuit # "closed"
<1> DEFINE r == [p EXCEPT !.circuit = "cooling", !.timer = FALSE, !.native = FALSE]
<1>1. r \in Page
  BY SettersKeepType
<1>2. SameLink(p, r) /\ r.pending = p.pending /\ r.circuit = "cooling"
  BY DEF Page, SameLink
<1> HIDE DEF r
<1>3. LET q == StartFallback(r)
      IN SameLink(r, q) /\ q.pending = r.pending /\ q.circuit = "cooling"
  BY <1>1, <1>2, FallbackStarts
<1> QED BY <1>2, <1>3 DEF OpenCircuit, SameLink, r

(* scheduleWebRTCRecovery makes a joined page try again: now, or when the   *)
(* round that is running ends.                                              *)
LEMMA SpendBudgetActs ==
  ASSUME NEW p, Budget(p), p.circuit = "closed", NEW immediate \in BOOLEAN
  PROVE  LET q == SpendBudget(p, immediate)
         IN SameLink(p, q) /\ q.pending = p.pending /\ (q.timer \/ q.circuit # "closed")
<1>1. p \in Page /\ p.attempts + 1 \in 0 .. MaxRecoveries + 1
  BY PageNumbers DEF Budget, Charged
<1> DEFINE on  == [p EXCEPT !.attempts = @ + 1, !.timer = TRUE]
           off == [p EXCEPT !.attempts = @ + 1, !.timer = FALSE]
<1>2. on \in Page /\ off \in Page
  BY <1>1, ZenonT(30) DEF Page
<1>3. SameLink(p, on) /\ on.pending = p.pending /\ on.timer
      /\ SameLink(p, off) /\ off.pending = p.pending
  BY <1>1 DEF Page, SameLink
<1>4. SameLink(p, p)
  BY DEF SameLink
<1>5. SpendBudget(p, immediate) \in {on, OpenCircuit(off)} \/ (p.timer /\ SpendBudget(p, immediate) = p)
  BY DEF SpendBudget
<1> HIDE DEF on, off
<1>6. LET q == OpenCircuit(off)
      IN SameLink(off, q) /\ q.pending = off.pending /\ q.circuit # "closed"
  BY <1>2, OpenCircuitOpens
<1>7. LET q == OpenCircuit(off)
      IN SameLink(p, q) /\ q.pending = p.pending /\ q.circuit # "closed"
  BY <1>3, <1>6 DEF SameLink
<1> QED BY <1>3, <1>4, <1>5, <1>7

LEMMA ScheduleActs ==
  ASSUME NEW p, Budget(p), NEW immediate \in BOOLEAN
  PROVE  LET q == Schedule(p, immediate)
         IN /\ SameLink(p, q)
            /\ p.pending => q.pending
            /\ Joined(p) /\ p.round # "off" => q.pending
            /\ Joined(p) /\ p.round = "off" => q.timer \/ q.circuit # "closed"
<1>1. p \in Page
  BY DEF Budget, Charged
<1>2. SameLink(p, p)
  BY DEF SameLink
<1>3. CASE ~Joined(p)
  BY <1>2, <1>3 DEF Schedule
<1>4. CASE Joined(p) /\ p.round # "off"
  <2> DEFINE waits == [p EXCEPT !.pending = TRUE]
  <2>1. SameLink(p, waits) /\ waits.pending
    BY <1>1 DEF Page, SameLink
  <2> QED BY <1>4, <2>1 DEF Schedule
<1>5. CASE Joined(p) /\ p.round = "off" /\ p.circuit = "closed"
  BY <1>5, SpendBudgetActs DEF Schedule
<1>6. CASE Joined(p) /\ p.round = "off" /\ p.circuit = "cooled" /\ immediate
  <2> DEFINE fresh == ResetCircuit(p)
  <2>1. SameLink(p, fresh) /\ fresh.pending = p.pending
    BY <1>1 DEF Page, SameLink, ResetCircuit
  <2>2. Budget(fresh) /\ fresh.circuit = "closed"
    BY ResetCircuitKeepsBudget
  <2>3. Schedule(p, immediate) = SpendBudget(fresh, immediate)
    BY <1>6 DEF Schedule
  <2> HIDE DEF fresh
  <2>4. LET q == SpendBudget(fresh, immediate)
        IN SameLink(fresh, q) /\ q.pending = fresh.pending /\ (q.timer \/ q.circuit # "closed")
    BY <2>2, SpendBudgetActs
  <2> QED BY <1>6, <2>1, <2>3, <2>4 DEF SameLink
<1>7. CASE Joined(p) /\ p.round = "off" /\ p.circuit # "closed"
           /\ ~(p.circuit = "cooled" /\ immediate)
  BY <1>2, <1>7 DEF Schedule
<1> QED BY <1>3, <1>4, <1>5, <1>6, <1>7

LEMMA SameLinkIsEnough ==
  ASSUME NEW p, NEW q, SameLink(p, q), Linked(p)
  PROVE  Linked(q)
BY DEF SameLink, Linked, Watched, Joined

LEMMA ScheduleHolds ==
  ASSUME NEW p, Budget(p), Linked(p), NEW immediate \in BOOLEAN
  PROVE  Held(Schedule(p, immediate))
BY ScheduleActs, SameLinkIsEnough DEF Held, Recalled, Trying, SameLink, Joined

(* The end of a round that leaves something behind that goes on.            *)
LEMMA FinishHolds ==
  ASSUME NEW p, Budget(p), Watched(p),
         Joined(p) => p.pending \/ p.skipped \/ p.watchdog \/ p.circuit # "closed"
  PROVE  Held(Finish(p))
<1>1. p \in Page
  BY DEF Budget, Charged
<1> DEFINE q == [p EXCEPT !.round = "off", !.asked = {}, !.own = FALSE]
<1>2. /\ q.screen = p.screen /\ q.round = "off" /\ q.own = FALSE /\ q.peer = p.peer
      /\ q.channel = p.channel /\ q.watchdog = p.watchdog /\ q.skipped = p.skipped
      /\ q.pending = p.pending
      /\ q.circuit = p.circuit /\ q.timer = p.timer
  BY <1>1 DEF Page
<1>3. Budget(q)
  <2>1. q \in Page
    BY <1>1, SettersKeepType
  <2>2. q.rounds = p.rounds /\ q.attempts = p.attempts
    BY <1>1 DEF Page
  <2> QED BY <1>2, <2>1, <2>2 DEF Budget, Charged, Joined
<1>4. Finish(p) = IF q.pending /\ Joined(q) THEN Schedule(q, TRUE) ELSE q
  BY DEF Finish
<1> HIDE DEF q
<1>5. Linked(q)
  BY <1>2 DEF Linked, Watched, Joined
<1>6. Held(Schedule(q, TRUE))
  BY <1>3, <1>5, ScheduleHolds
<1>7. ~(q.pending /\ Joined(q)) => Held(q)
  BY <1>2, <1>5 DEF Held, Recalled, Trying, Joined
<1> QED BY <1>4, <1>6, <1>7

LEMMA RoundFailsHolds ==
  ASSUME NEW p, Budget(p), Linked(p), p.round # "off"
  PROVE  Held(RoundFails(p))
<1> DEFINE f == StartFallback(p)
           s == Schedule(f, FALSE)
<1>1. p \in Page
  BY DEF Budget, Charged
<1>2. Budget(f) /\ SameLink(p, f)
  BY <1>1, FallbackStarts, EndOfRoundKeepsBudget
<1>3. RoundFails(p) = Finish(s)
  BY DEF RoundFails
<1> HIDE DEF f
<1>4. Budget(s)
  BY <1>2, ScheduleKeepsBudget
<1>5. SameLink(f, s) /\ (Joined(f) /\ f.round # "off" => s.pending)
  BY <1>2, ScheduleActs
<1> HIDE DEF s
<1>6. Linked(s)
  BY <1>2, <1>5, SameLinkIsEnough
<1>7. Joined(s) => s.pending
  BY <1>2, <1>5 DEF SameLink, Joined
<1> QED BY <1>3, <1>4, <1>6, <1>7, FinishHolds DEF Linked

LEMMA CleanupActs ==
  ASSUME NEW p \in Page
  PROVE  LET q == Cleanup(p)
         IN /\ q.own = FALSE /\ q.peer = "none" /\ q.channel = "none"
            /\ q.screen = p.screen /\ q.round = p.round
BY DEF Page, Cleanup

(* A page that is taken over or ended is not joined and has no connection.  *)
LEMMA EndsHold ==
  ASSUME NEW p \in Page
  PROVE  /\ Held(ShowTakeover(p)) /\ ~Joined(ShowTakeover(p))
         /\ Held(EndSession(p)) /\ ~Joined(EndSession(p))
<1>1. PICK q \in Page : q = StopFallback(Cleanup(p)) /\ q.own = FALSE /\ q.channel = "none"
                        /\ q.peer = "none"
  <2>1. PICK c \in Page : c = Cleanup(p) /\ c.own = FALSE /\ c.channel = "none" /\ c.peer = "none"
    BY CleanupActs, CleanupKeepsType
  <2>2. LET s == StopFallback(c)
        IN s \in Page /\ s.own = c.own /\ s.channel = c.channel /\ s.peer = c.peer
    BY StopFallbackKeepsType DEF Page, StopFallback
  <2> QED BY <2>1, <2>2
<1>2. \A v : LET t == [q EXCEPT !.screen = v]
                 e == [q EXCEPT !.screen = v, !.retry = FALSE]
             IN /\ t.own = q.own /\ t.channel = q.channel /\ t.peer = q.peer /\ t.screen = v
                /\ e.own = q.own /\ e.channel = q.channel /\ e.peer = q.peer /\ e.screen = v
  BY DEF Page
<1>3. ShowTakeover(p) = [q EXCEPT !.screen = "taken"]
      /\ EndSession(p) = [q EXCEPT !.screen = "ended", !.retry = FALSE]
  BY <1>1 DEF ShowTakeover, EndSession
<1> QED BY <1>1, <1>2, <1>3 DEF Held, Linked, Watched, Recalled, Trying, Joined

LEMMA RefusedFinishes ==
  ASSUME NEW p, Budget(p), NEW answer
  PROVE  Held(Refused(p, answer)) /\ Held(Finish(Refused(p, answer)))
<1>1. p \in Page
  BY DEF Budget, Charged
<1>2. Held(Refused(p, answer)) /\ ~Joined(Refused(p, answer)) /\ Budget(Refused(p, answer))
  BY <1>1, EndsHold, EndOfRoundKeepsBudget DEF Refused
<1> QED BY <1>2, FinishHolds DEF Held, Linked

LEMMA ShowNativeHolds ==
  ASSUME NEW p, Budget(p), Held(p)
  PROVE  Held(ShowNative(p))
<1>1. p \in Page
  BY DEF Budget, Charged
<1> DEFINE shown == [p EXCEPT !.visible = TRUE, !.retry = FALSE]
           q == [shown EXCEPT !.fallback = "off"]
<1>2. shown \in Page
  BY <1>1, SettersKeepType
<1>3. /\ shown.screen = p.screen /\ shown.round = p.round /\ shown.own = p.own
      /\ shown.peer = p.peer /\ shown.channel = p.channel /\ shown.watchdog = p.watchdog
      /\ shown.skipped = p.skipped /\ shown.pending = p.pending
      /\ shown.timer = p.timer /\ shown.circuit = p.circuit
  BY <1>1 DEF Page
<1> HIDE DEF shown
<1>4. /\ q.screen = shown.screen /\ q.round = shown.round /\ q.own = shown.own
      /\ q.peer = shown.peer /\ q.channel = shown.channel /\ q.watchdog = shown.watchdog
      /\ q.skipped = shown.skipped
      /\ q.pending = shown.pending /\ q.timer = shown.timer /\ q.circuit = shown.circuit
  BY <1>2 DEF Page
<1> HIDE DEF q
<1>5. Held(q)
  BY <1>3, <1>4 DEF Held, Linked, Watched, Recalled, Trying, Joined, MediaRestored
<1> QED BY <1>5 DEF ShowNative, StopFallback, q, shown

LEMMA StartWebRTCHolds ==
  ASSUME NEW p \in Page, Linked(p), Recalled(p), Joined(p), NEW answers \in SUBSET Answer
  PROVE  Held(StartWebRTC(p, answers))
<1>1. CASE p.round # "off"
  BY <1>1 DEF StartWebRTC, Held, Trying
<1>2. CASE p.round = "off"
  <2>1. PICK c \in Page : /\ c = Cleanup(p) /\ c.own = FALSE /\ c.peer = "none"
                          /\ c.channel = "none" /\ c.screen = p.screen
    BY CleanupActs, CleanupKeepsType
  <2> DEFINE r == [c EXCEPT !.round = "config", !.asked = answers, !.pending = FALSE,
                            !.skipped = FALSE, !.rounds = Counted(@), !.unusable = Counted(@)]
  <2>2. StartWebRTC(p, answers) = r
    BY <1>2, <2>1 DEF StartWebRTC, Joined
  <2>3. /\ r.round = "config" /\ r.own = c.own /\ r.peer = c.peer /\ r.channel = c.channel
        /\ r.screen = c.screen
    BY <2>1 DEF Page
  <2> HIDE DEF r
  <2> QED BY <2>1, <2>2, <2>3 DEF Held, Linked, Watched, Recalled, Trying, Joined
<1> QED BY <1>1, <1>2

-----------------------------------------------------------------------------
(* Every handler keeps a page Held. *)
LEMMA JoinHolds ==
  ASSUME Inv, Held(page), AskJoin \/ JoinAnswered
  PROVE  Held(page')
<1>1. CASE AskJoin \/ UNCHANGED page
  BY <1>1 DEF AskJoin
<1>2. CASE JoinAnswered /\ ~ UNCHANGED page
  <2> DEFINE now == [page EXCEPT !.screen = "joined", !.visible = FALSE,
                                 !.asked = Taken(@), !.rounds = 0, !.unusable = 0,
                                 !.skipped = (page.round # "off")]
             shown == StartFallback(now)
             answers == IF gone THEN {"gone"} ELSE {"ok"}
  <2>1. page' = StartWebRTC(shown, answers)
    BY <1>2 DEF JoinAnswered
  <2>2. page \in Page
    BY DEF Inv, Budget, Charged
  <2>3. now \in Page
    <3>1. Taken(page.asked) \in SUBSET Answer /\ 0 \in 0 .. MaxRounds
          /\ (page.round # "off") \in BOOLEAN
      BY AnswersKeepType
    <3> QED BY <2>2, <3>1, ZenonT(60) DEF Page
  <2>4. /\ now.screen = "joined" /\ now.round = page.round /\ now.own = page.own
        /\ now.peer = page.peer /\ now.channel = page.channel /\ now.watchdog = page.watchdog
        /\ now.skipped = (page.round # "off")
    BY <2>2 DEF Page
  <2>5. answers \in SUBSET Answer
    BY DEF Answer
  <2> HIDE DEF now, answers
  <2>6. SameLink(now, shown)
    BY <2>3, FallbackStarts
  <2>7. shown \in Page
    BY <2>3, StartFallbackKeepsType
  <2>8. Joined(shown) /\ Linked(shown) /\ Recalled(shown)
    BY <2>4, <2>6 DEF Held, Linked, Watched, Recalled, SameLink, Joined
  <2> QED BY <2>1, <2>5, <2>7, <2>8, StartWebRTCHolds
<1> QED BY <1>1, <1>2

(* The fields that neither the answers under way nor the clock change. *)
LEMMA AskedHolds ==
  ASSUME NEW p \in Page, Held(p), NEW answers
  PROVE  Held([p EXCEPT !.asked = answers])
<1>1. LET q == [p EXCEPT !.asked = answers]
      IN /\ SameLink(p, q) /\ q.pending = p.pending /\ q.timer = p.timer
         /\ q.circuit = p.circuit
  BY DEF Page, SameLink
<1> QED BY <1>1, SameLinkIsEnough
     DEF Held, Recalled, Trying, SameLink, Joined, MediaRestored

LEMMA ServerHolds ==
  ASSUME Inv, Held(page),
         AskServer \/ ServerAnswers \/ Countdown \/ Exit \/ Takeover \/ ShareEnds
  PROVE  Held(page')
<1>1. page \in Page /\ Budget(page)
  BY DEF Inv, Budget, Charged
<1>2. CASE AskServer
  BY <1>2 DEF AskServer
<1>3. CASE ServerAnswers
  BY <1>1, <1>3, RefusedFinishes DEF ServerAnswers
<1>4. CASE Countdown \/ Exit
  BY <1>1, <1>4, EndsHold DEF Countdown, Exit
<1>5. CASE Takeover \/ ShareEnds
  BY <1>1, <1>5, AskedHolds DEF Takeover, ShareEnds
<1> QED BY <1>2, <1>3, <1>4, <1>5

LEMMA RoundHolds ==
  ASSUME Inv, Held(page), ConfigAnswered \/ Gathered \/ OfferAnswered
  PROVE  Held(page')
<1>1. page \in Page /\ Budget(page) /\ Linked(page)
  BY DEF Inv, Budget, Charged, Held
<1>2. Held(RoundFails(page))
  BY <1>1, RoundFailsHolds DEF ConfigAnswered, Gathered, OfferAnswered
<1>3. \A answer : Held(Finish(Refused(page, answer)))
  BY <1>1, RefusedFinishes
<1>4. CASE ConfigAnswered
  <2> DEFINE made == [page EXCEPT !.round = "gather", !.asked = {}, !.own = TRUE,
                                  !.peer = "new", !.channel = "opening", !.watchdog = TRUE]
             open == OpenCircuit(page)
  <2>1. Held(made)
    <3>1. /\ made.round = "gather" /\ made.own = TRUE /\ made.peer = "new" /\ made.watchdog = TRUE
          /\ made.screen = page.screen
      BY <1>1 DEF Page
    <3> HIDE DEF made
    <3> QED BY <1>1, <3>1 DEF Held, Linked, Watched, Recalled, Trying, Joined
  <2>2. Held(Finish(open))
    <3>1. SameLink(page, open) /\ open.circuit # "closed"
      BY <1>1, OpenCircuitOpens
    <3>2. Budget(open)
      BY <1>1, OpenCircuitBalances DEF Budget
    <3> QED BY <1>1, <3>1, <3>2, SameLinkIsEnough, FinishHolds DEF Linked
  <2> QED BY <1>2, <1>3, <1>4, <2>1, <2>2 DEF ConfigAnswered
<1>5. CASE Gathered
  <2> DEFINE sent == [page EXCEPT !.round = "offer", !.asked = Verdict]
  <2>1. Held(sent)
    <3>1. /\ sent.round = "offer" /\ sent.own = page.own /\ sent.peer = page.peer
          /\ sent.channel = page.channel /\ sent.watchdog = page.watchdog
          /\ sent.screen = page.screen
          /\ sent.pending = page.pending
          /\ sent.skipped = page.skipped
      BY <1>1 DEF Page
    <3> HIDE DEF sent
    <3> QED BY <1>5, <3>1 DEF Gathered, Held, Linked, Watched, Recalled, Trying, Joined
  <2> QED BY <1>2, <1>5, <2>1 DEF Gathered
<1>6. CASE OfferAnswered
  <2> DEFINE set == [page EXCEPT !.peer = "answered"]
  <2>1. page.round = "offer"
    BY <1>6 DEF OfferAnswered
  <2>2. ASSUME page.own
        PROVE  Held(Finish(set))
    <3>1. page.watchdog /\ Budget(set)
      BY <1>1, <2>2, AssignmentsKeepBudget DEF Linked
    <3>2. /\ set.watchdog = page.watchdog /\ set.channel = page.channel
          /\ set.screen = page.screen
      BY <1>1 DEF Page
    <3> HIDE DEF set
    <3>3. Watched(set)
      BY <1>1, <3>2 DEF Linked, Watched, Joined
    <3> QED BY <3>1, <3>2, <3>3, FinishHolds
  <2>3. ASSUME ~page.own
        PROVE  Held(Finish(page))
    BY <1>1, <2>1, <2>3, FinishHolds DEF Held, Linked, Recalled
  <2> QED BY <1>2, <1>3, <1>6, <2>2, <2>3 DEF OfferAnswered
<1> QED BY <1>4, <1>5, <1>6

LEMMA NetworkHolds ==
  ASSUME Inv, Held(page), Network \/ Watchdog
  PROVE  Held(page')
<1>1. page \in Page /\ Budget(page) /\ Linked(page)
  BY DEF Inv, Budget, Charged, Held
<1>2. ASSUME NEW q, Budget(q), Linked(q)
      PROVE  Held(Schedule(StartFallback(q), FALSE))
  <2>1. q \in Page
    BY <1>2 DEF Budget, Charged
  <2>2. Budget(StartFallback(q)) /\ Linked(StartFallback(q))
    BY <1>2, <2>1, EndOfRoundKeepsBudget, FallbackStarts, SameLinkIsEnough
  <2> QED BY <2>2, ScheduleHolds
<1>3. CASE Watchdog
  <2> DEFINE closed == [page EXCEPT !.watchdog = FALSE, !.peer = "none",
                                    !.channel = "none", !.own = FALSE]
  <2>1. Budget(closed)
    BY <1>1, AssignmentsKeepBudget
  <2>2. /\ closed.peer = "none" /\ closed.channel = "none" /\ closed.own = FALSE
        /\ closed.screen = page.screen
    BY <1>1 DEF Page
  <2>3. page' = Schedule(StartFallback(closed), FALSE)
    BY <1>3 DEF Watchdog
  <2> HIDE DEF closed
  <2>4. Linked(closed)
    BY <1>1, <2>2 DEF Linked, Watched, Joined
  <2> QED BY <1>2, <2>1, <2>3, <2>4
<1>4. CASE Connected
  <2> DEFINE up == [page EXCEPT !.peer = "connected", !.timer = FALSE, !.attempts = 0,
                                !.pending = FALSE, !.rounds = 0]
  <2>1. /\ up.peer = "connected" /\ up.own = page.own /\ up.round = page.round
        /\ up.channel = page.channel /\ up.watchdog = page.watchdog
        /\ up.screen = page.screen
    BY <1>1 DEF Page
  <2>2. page' = up /\ page.peer \in {"answered", "disconnected"}
    BY <1>4 DEF Connected
  <2>3. page.channel \in {"none", "opening", "open"}
    BY <1>1 DEF Page
  <2> HIDE DEF up
  <2> QED BY <1>1, <2>1, <2>2, <2>3
           DEF Held, Linked, Watched, Recalled, Trying, Joined, MediaRestored
<1>5. CASE Lost
  <2>1. PICK state \in {"disconnected", "failed"} :
          page' = Schedule(StartFallback([page EXCEPT !.peer = state]), FALSE)
    BY <1>5 DEF Lost
  <2> DEFINE down == [page EXCEPT !.peer = state]
  <2>2. Budget(down)
    BY <1>1, AssignmentsKeepBudget
  <2>3. /\ down.own = page.own /\ down.round = page.round
        /\ down.channel = page.channel /\ down.watchdog = page.watchdog
        /\ down.screen = page.screen
    BY <1>1 DEF Page
  <2>4. page.peer \in {"answered", "connected", "disconnected"}
    BY <1>5 DEF Lost
  <2> HIDE DEF down
  <2>5. Linked(down)
    BY <1>1, <2>3, <2>4 DEF Linked, Watched, Joined
  <2>6. page' = Schedule(StartFallback(down), FALSE)
    BY <2>1 DEF down
  <2> QED BY <1>2, <2>2, <2>5, <2>6
<1>6. CASE ChannelOpens
  <2> DEFINE retry == page.retry \/ page.native
             open == [page EXCEPT !.channel = "open", !.watchdog = FALSE, !.attempts = 0,
                                  !.retry = retry, !.rounds = 0, !.unusable = 0]
  <2>1. page' = open /\ page.peer = "connected"
    BY <1>6 DEF ChannelOpens
  <2>2. /\ open.channel = "open" /\ open.peer = page.peer /\ open.own = page.own
        /\ open.round = page.round /\ open.screen = page.screen
    BY <1>1 DEF Page
  <2> HIDE DEF open
  <2> QED BY <1>1, <2>1, <2>2
           DEF Held, Linked, Watched, Recalled, Trying, Joined, MediaRestored
<1>7. CASE ChannelCloses
  <2> DEFINE closed == [page EXCEPT !.channel = "none", !.watchdog = FALSE]
  <2>1. Budget(closed)
    BY <1>1, AssignmentsKeepBudget
  <2>2. /\ closed.channel = "none" /\ closed.peer = page.peer /\ closed.own = page.own
        /\ closed.round = page.round /\ closed.screen = page.screen
    BY <1>1 DEF Page
  <2>3. /\ page' = IF Joined(page) THEN Schedule(StartFallback(closed), FALSE) ELSE closed
        /\ page.peer \in {"connected", "disconnected", "failed"}
    BY <1>7 DEF ChannelCloses
  <2> HIDE DEF closed
  <2>4. Linked(closed)
    BY <1>1, <2>2, <2>3 DEF Linked, Watched, Joined
  <2>5. ~Joined(page) => Held(closed)
    BY <2>2, <2>4 DEF Held, Recalled, Trying, Joined
  <2> QED BY <1>2, <2>1, <2>3, <2>4, <2>5
<1>8. CASE Decoded
  <2> DEFINE seen == [page EXCEPT !.decoded = TRUE]
  <2>1. Budget(seen)
    BY <1>1, AssignmentsKeepBudget
  <2>2. SameLink(page, seen) /\ seen.pending = page.pending /\ seen.timer = page.timer
        /\ seen.circuit = page.circuit
    BY <1>1 DEF Page, SameLink
  <2>3. page' = ShowNative(seen)
    BY <1>8 DEF Decoded
  <2> HIDE DEF seen
  <2>4. Held(seen)
    BY <2>2, SameLinkIsEnough DEF Held, Recalled, Trying, SameLink, Joined, MediaRestored
  <2> QED BY <2>1, <2>3, <2>4, ShowNativeHolds
<1> QED BY <1>3, <1>4, <1>5, <1>6, <1>7, <1>8 DEF Network

LEMMA TimerHolds ==
  ASSUME Inv, Held(page), RecoveryTimer \/ FallbackTimer \/ Cooldown
  PROVE  Held(page')
<1>1. page \in Page /\ Budget(page) /\ Linked(page)
  BY DEF Inv, Budget, Charged, Held
<1>2. CASE RecoveryTimer
  <2> DEFINE fired == [page EXCEPT !.timer = FALSE]
  <2>1. fired \in Page
    BY <1>1 DEF Page
  <2>2. SameLink(page, fired) /\ fired.pending = page.pending
    BY <1>1 DEF Page, SameLink
  <2>3. page' = IF Joined(page) /\ ~MediaRestored(page)
                THEN StartWebRTC(fired, Verdict) ELSE fired
    BY <1>2 DEF RecoveryTimer
  <2>4. Verdict \in SUBSET Answer
    BY AnswersKeepType
  <2> HIDE DEF fired
  <2>5. Linked(fired) /\ Recalled(fired)
    BY <1>1, <2>2, SameLinkIsEnough DEF Held, Recalled, SameLink, Joined
  <2>6. Joined(fired) = Joined(page) /\ MediaRestored(fired) = MediaRestored(page)
    BY <2>2 DEF SameLink, Joined, MediaRestored
  <2>7. Joined(page) /\ ~MediaRestored(page) => Held(StartWebRTC(fired, Verdict))
    BY <2>1, <2>4, <2>5, <2>6, StartWebRTCHolds
  <2>8. ~(Joined(page) /\ ~MediaRestored(page)) => Held(fired)
    BY <2>5, <2>6 DEF Held, Trying
  <2> QED BY <2>3, <2>7, <2>8
<1>3. CASE FallbackTimer
  <2> DEFINE fired == [page EXCEPT !.retry = FALSE]
  <2>1. fired \in Page
    BY <1>1 DEF Page
  <2>2. SameLink(page, fired) /\ fired.pending = page.pending /\ fired.timer = page.timer
        /\ fired.circuit = page.circuit
    BY <1>1 DEF Page, SameLink
  <2>3. page' \in {fired, StartFallback(fired)}
    BY <1>3 DEF FallbackTimer
  <2> HIDE DEF fired
  <2>4. LET q == StartFallback(fired)
        IN /\ SameLink(page, q) /\ q.pending = page.pending /\ q.timer = page.timer
           /\ q.circuit = page.circuit
    BY <2>1, <2>2, FallbackStarts DEF SameLink
  <2>5. ASSUME NEW q, SameLink(page, q), q.pending = page.pending, q.timer = page.timer,
               q.circuit = page.circuit
        PROVE  Held(q)
    BY <2>5, SameLinkIsEnough DEF Held, Recalled, Trying, SameLink, Joined, MediaRestored
  <2> QED BY <2>2, <2>3, <2>4, <2>5
<1>4. CASE Cooldown
  <2>1. LET q == [page EXCEPT !.circuit = "cooled"]
        IN /\ SameLink(page, q) /\ q.pending = page.pending /\ q.circuit = "cooled"
    BY <1>1 DEF Page, SameLink
  <2> QED BY <1>4, <2>1, SameLinkIsEnough
           DEF Cooldown, Held, Recalled, Trying, SameLink, Joined
<1> QED BY <1>2, <1>3, <1>4

LEMMA ViewerHolds ==
  ASSUME Inv, Held(page), Visible \/ Compatibility \/ LowLatency
  PROVE  Held(page')
<1>1. page \in Page /\ Budget(page) /\ Linked(page)
  BY DEF Inv, Budget, Charged, Held
<1>2. CASE Visible
  BY <1>1, <1>2, ScheduleHolds DEF Visible
<1>3. CASE Compatibility
  <2> DEFINE still == [page EXCEPT !.native = FALSE, !.visible = FALSE]
             shown == StartFallback(still)
  <2>1. still \in Page
    BY <1>1, ZenonT(30) DEF Page
  <2>2. /\ still.screen = page.screen /\ still.round = page.round /\ still.own = page.own
        /\ still.peer = page.peer /\ still.channel = page.channel
        /\ still.watchdog = page.watchdog /\ still.skipped = page.skipped
        /\ still.pending = page.pending
        /\ still.timer = page.timer /\ still.circuit = page.circuit
    BY <1>1 DEF Page
  <2>3. page' = shown
    BY <1>3 DEF Compatibility
  <2> HIDE DEF still
  <2>4. /\ SameLink(still, shown) /\ shown.pending = still.pending /\ shown.timer = still.timer
        /\ shown.circuit = still.circuit
    BY <2>1, FallbackStarts
  <2> QED BY <1>1, <2>2, <2>3, <2>4
           DEF Held, Linked, Watched, Recalled, Trying, SameLink, Joined, MediaRestored
<1>4. CASE LowLatency
  <2> DEFINE fresh == ResetCircuit(page)
             reset == [fresh EXCEPT !.native = TRUE]
             skip == ~MediaRestored(page)
             old == [reset EXCEPT !.skipped = skip]
  <2>1. fresh \in Page /\ Budget(fresh)
    BY <1>1, ResetCircuitKeepsBudget DEF Budget, Charged
  <2>2. SameLink(page, fresh) /\ fresh.pending = page.pending
    BY <1>1 DEF Page, ResetCircuit, SameLink
  <2>3. page' = IF page.decoded THEN ShowNative(old) ELSE StartWebRTC(reset, Verdict)
    BY <1>4 DEF LowLatency
  <2> HIDE DEF fresh
  <2>4. SameLink(fresh, reset) /\ reset.pending = fresh.pending
    BY <2>1 DEF Page, SameLink
  <2>5. Budget(reset) /\ reset \in Page
    BY <2>1, AssignmentsKeepBudget DEF Budget, Charged
  <2> HIDE DEF reset
  <2>6. Linked(reset) /\ Recalled(reset) /\ Joined(reset)
    BY <1>1, <1>4, <2>2, <2>4 DEF LowLatency, Held, Linked, Watched, Recalled, SameLink, Joined
  <2>7. Held(StartWebRTC(reset, Verdict))
    BY <2>5, <2>6, AnswersKeepType, StartWebRTCHolds
  <2>8. Held(ShowNative(old))
    <3>1. skip \in BOOLEAN
      BY DEF MediaRestored
    <3>2. Budget(old)
      BY <2>5, <3>1, AssignmentsKeepBudget
    <3>3. /\ old.screen = reset.screen /\ old.round = reset.round /\ old.own = reset.own
          /\ old.peer = reset.peer /\ old.channel = reset.channel
          /\ old.watchdog = reset.watchdog /\ old.skipped = skip
          /\ old.pending = reset.pending
      BY <2>5 DEF Page
    <3>4. MediaRestored(page) => page.round = "off"
      BY <1>1 DEF MediaRestored, Linked
    <3> HIDE DEF old
    <3>5. Held(old)
      BY <2>2, <2>4, <2>6, <3>3, <3>4, ZenonT(60)
         DEF Held, Linked, Watched, Recalled, Trying, SameLink, Joined, MediaRestored
    <3> QED BY <3>2, <3>5, ShowNativeHolds
  <2> QED BY <2>3, <2>7, <2>8
<1> QED BY <1>2, <1>3, <1>4

(* A viewer's page never forgets to recover its connection: as long as that *)
(* is unusable, something is to come, or the breaker has opened. For any    *)
(* budget and any order of answers, timers and network events, but for the  *)
(* cases that KeepsTrying names.                                            *)
THEOREM RecoveryGoesOn == Spec => []KeepsTrying
<1>1. Init => Held(page)
  BY DEF Init, Held, Linked, Watched, Recalled, Trying, Joined
<1>2. Inv /\ Held(page) /\ [Next]_vars => Held(page)'
  <2> SUFFICES ASSUME Inv, Held(page), [Next]_vars
               PROVE  Held(page')
    OBVIOUS
  <2>1. CASE UNCHANGED vars
    BY <2>1 DEF vars
  <2>2. CASE Next
    BY <2>2, JoinHolds, ServerHolds, RoundHolds, NetworkHolds, TimerHolds, ViewerHolds
       DEF Next, Answers, Timers, Viewer, Server
  <2> QED BY <2>1, <2>2
<1>3. Held(page) => KeepsTrying
  BY DEF Held, Trying, KeepsTrying
<1> QED BY <1>1, <1>2, <1>3, Inductive, PTL DEF Spec
=============================================================================
