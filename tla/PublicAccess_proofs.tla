------------------------ MODULE PublicAccess_proofs ------------------------
(***************************************************************************)
(* Theorems about the public address settings: what the owner saved last   *)
(* is not undone, for any number of requests and synchronisations.         *)
(***************************************************************************)
EXTENDS PublicAccess, TLAPS

USE DEF Proc, Goto, In, At, Idle, Unset, Default, Chosen, snapshotVars, frpVars, historyVars

LEMMA NodeFacts == None \notin Node /\ Own \notin Node /\ 0 \in Node
BY AddressAssumption, BoundAssumption DEF Node

LEMMA InitEstablishesInv == Init => AccessInv
<1> SUFFICES ASSUME Init PROVE AccessInv
  OBVIOUS
<1> USE NodeFacts, BrokenAssumption DEF Init, Settings, Shown, State, Choice, From88FRP, Address
<1>1. file \in Settings
  OBVIOUS
<1>2. shown \in Shown
  BY <1>1 DEF Restored
<1>3. TypeOK
  BY <1>1, <1>2 DEF TypeOK, SaverPc, SyncerPc, IcePc
<1>4. ChoiceInv
  BY <1>1 DEF ChoiceInv, Restored
<1>5. QED BY <1>3, <1>4 DEF AccessInv

(* The type invariant in two parts: what is not a goroutine's, and a        *)
(* goroutine at a place of its own kind.                                    *)
DataOK ==
  /\ memory \in Settings /\ file \in Settings \cup {Broken} /\ probe \in BOOLEAN
  /\ shown \in Shown /\ ice \in [host : Node \cup {None}, fresh : BOOLEAN]
  /\ frp \in {"up", "down", "gone"} /\ node \in Node
  /\ owner \in Choice /\ calm \in BOOLEAN /\ written \in BOOLEAN

TaskOK(p, t) ==
  /\ t \in [pc : SaverPc \cup SyncerPc \cup IcePc, copy : Settings, verdict : Shown,
            found : Address]
  /\ p \in Saver => t.pc \in SaverPc
  /\ p \in Syncer => t.pc \in SyncerPc
  /\ p = Ice => t.pc \in IcePc /\ t.found \in Node \cup {None}
  /\ t.pc \in {"learn", "udpwrite"} => t.found \in Node

LEMMA TypeParts ==
  TypeOK <=> DataOK /\ task = [p \in Proc |-> task[p]]
             /\ \A p \in Proc : TaskOK(p, task[p])
BY DEF TypeOK, DataOK, TaskOK

LEMMA TaskStep ==
  ASSUME TypeOK, NEW p \in Proc, NEW t, TaskOK(p, t), Goto(p, t), DataOK'
  PROVE  TypeOK'
<1> HIDE DEF Proc
<1>1. \A q \in Proc : TaskOK(q, task'[q])
  BY TypeParts
<1>2. task' = [q \in Proc |-> task'[q]]
  BY TypeParts
<1>3. QED BY <1>1, <1>2 DEF Proc, TypeOK, DataOK, TaskOK

LEMMA IdleOK == \A p \in Proc : TaskOK(p, Idle)
BY NodeFacts DEF TaskOK, SaverPc, SyncerPc, IcePc, Settings, Shown, State, Choice, Address

LEMMA SaverKeepsType ==
  ASSUME TypeOK, NEW p \in Saver,
         \/ \E choice \in Choice : SaveBegin(p, choice)
         \/ SaveApply(p) \/ SaveWrite(p) \/ SaveWriteFails(p)
  PROVE  TypeOK'
<1> USE NodeFacts, ProcAssumption
<1>1. TaskOK(p, task[p]) /\ DataOK /\ task[p].copy \in Settings /\ p # Ice /\ p \notin Syncer
  BY TypeParts DEF TaskOK
<1>2. CASE \E choice \in Choice : SaveBegin(p, choice)
  <2>1. PICK choice \in Choice : SaveBegin(p, choice)
    BY <1>2
  <2> DEFINE base == IF choice \in From88FRP THEN memory ELSE Default
             t == [At("save") EXCEPT !.copy = [base EXCEPT !.choice = choice]]
  <2>2. base \in Settings
    BY <1>1 DEF DataOK, Settings, Choice
  <2>3. [base EXCEPT !.choice = choice] \in Settings
    BY <2>2 DEF Settings
  <2>4. TaskOK(p, t)
    BY <1>1, <2>3 DEF TaskOK, SaverPc, Shown, State, Address
  <2>5. Goto(p, t) /\ DataOK'
    BY <1>1, <2>1 DEF SaveBegin, DataOK
  <2>6. QED BY <2>4, <2>5, TaskStep
<1>3. CASE SaveApply(p)
  <2>1. TaskOK(p, [task[p] EXCEPT !.pc = "savewrite"])
    BY <1>1 DEF TaskOK, SaverPc
  <2>2. shown' \in Shown
    BY <1>3 DEF SaveApply, Shown, State, Address
  <2>3. owner' \in Choice /\ memory' \in Settings
    BY <1>1, <1>3 DEF SaveApply, Settings
  <2>4. calm' \in BOOLEAN /\ written' \in BOOLEAN
    BY <1>3, Zenon DEF SaveApply
  <2>5. DataOK' /\ Goto(p, [task[p] EXCEPT !.pc = "savewrite"])
    BY <1>1, <1>3, <2>2, <2>3, <2>4 DEF SaveApply, DataOK
  <2>6. QED BY <2>1, <2>5, TaskStep
<1>4. CASE SaveWrite(p) \/ SaveWriteFails(p)
  <2>1. DataOK' /\ Goto(p, Idle)
    BY <1>1, <1>4 DEF SaveWrite, SaveWriteFails, DataOK
  <2>2. QED BY <2>1, TaskStep, IdleOK
<1>5. QED BY <1>2, <1>3, <1>4

LEMMA SyncKeepsType ==
  ASSUME TypeOK, NEW p \in Syncer, SyncBegin(p) \/ SyncStep(p)
  PROVE  TypeOK'
<1> USE NodeFacts, ProcAssumption
<1>1. /\ TaskOK(p, task[p]) /\ DataOK /\ p # Ice /\ p \notin Saver
      /\ task[p].copy \in Settings /\ task[p].verdict \in Shown /\ task[p].found \in Address
  BY TypeParts DEF TaskOK
<1>2. ASSUME NEW copy \in Settings, NEW url \in Address, NEW state \in State
      PROVE  TaskOK(p, Publishing(copy, url, state))
  BY <1>1, <1>2 DEF TaskOK, SyncerPc, Shown, Address, Publishing
<1>3. shown.url \in Address /\ memory \in Settings /\ task[p].copy.last \in Address
  BY <1>1 DEF DataOK, Shown, Settings, Address
<1>4. CASE SyncBegin(p) \/ Reread(p)
  <2> DEFINE t == IF In(p, "idle") THEN [At("fetch") EXCEPT !.copy = memory]
                  ELSE [task[p] EXCEPT !.pc = "publish", !.copy = memory]
  <2>1. TaskOK(p, t)
    BY <1>1, <1>3, <1>4 DEF TaskOK, SyncerPc, Shown, State, Address
  <2>2. Goto(p, t) /\ DataOK'
    BY <1>1, <1>4 DEF SyncBegin, Reread, DataOK
  <2>3. QED BY <2>1, <2>2, TaskStep
<1>5. CASE FetchFails(p)
  <2> DEFINE last == IF task[p].copy.last # None THEN task[p].copy.last ELSE shown.url
             s == Publishing(task[p].copy, None, "frp-error")
             t == [task[p] EXCEPT !.pc = "probe", !.found = last]
  <2>1. TaskOK(p, s)
    BY <1>1, <1>2 DEF Address, State
  <2>2. TaskOK(p, t)
    BY <1>1, <1>3 DEF TaskOK, SyncerPc
  <2>3. DataOK' /\ (Goto(p, s) \/ Goto(p, t))
    BY <1>1, <1>5 DEF FetchFails, DataOK
  <2>4. QED BY <2>1, <2>2, <2>3, TaskStep
<1>6. CASE Probe(p)
  <2>1. PICK state \in {"frp-stale-ready", "frp-unreachable"} :
          Goto(p, Publishing(task[p].copy, task[p].found, state))
    BY <1>6 DEF Probe
  <2>2. TaskOK(p, Publishing(task[p].copy, task[p].found, state))
    BY <1>1, <1>2 DEF State
  <2>3. DataOK'
    BY <1>1, <1>6 DEF Probe, DataOK
  <2>4. QED BY <2>1, <2>2, <2>3, TaskStep
<1>7. CASE FetchUnusable(p)
  <2>1. PICK url \in Address, state \in State : Goto(p, Publishing(task[p].copy, url, state))
    BY <1>3, <1>7 DEF FetchUnusable, Address, State
  <2>2. TaskOK(p, Publishing(task[p].copy, url, state))
    BY <1>1, <1>2
  <2>3. DataOK'
    BY <1>1, <1>7 DEF FetchUnusable, DataOK
  <2>4. QED BY <2>1, <2>2, <2>3, TaskStep
<1>8. CASE FetchSucceeds(p)
  <2> DEFINE v == [url |-> node, state |-> "frp-ready"]
             t == [task[p] EXCEPT !.pc = "write", !.copy.last = node, !.verdict = v]
  <2>1. node \in Node /\ v \in Shown
    BY <1>1 DEF DataOK, Shown, State, Address
  <2>2. [task[p].copy EXCEPT !.last = node] \in Settings
    BY <1>1, <2>1 DEF Settings
  <2>3. TaskOK(p, t)
    BY <1>1, <2>1, <2>2 DEF TaskOK, SyncerPc
  <2>4. DataOK' /\ Goto(p, t)
    BY <1>1, <1>8 DEF FetchSucceeds, DataOK
  <2>5. QED BY <2>3, <2>4, TaskStep
<1>9. CASE SyncWrite(p)
  <2> DEFINE t == [task[p] EXCEPT !.pc = "discover", !.copy = Default]
  <2>1. TaskOK(p, t)
    BY <1>1 DEF TaskOK, SyncerPc, Settings, Choice
  <2>2. DataOK' /\ Goto(p, t)
    BY <1>1, <1>9 DEF SyncWrite, Write, DataOK
  <2>3. QED BY <2>1, <2>2, TaskStep
<1>10. CASE Publish(p)
  <2>1. DataOK' /\ Goto(p, Idle)
    BY <1>1, <1>10 DEF Publish, DataOK
  <2>2. QED BY <2>1, TaskStep, IdleOK
<1>11. QED BY <1>4, <1>5, <1>6, <1>7, <1>8, <1>9, <1>10 DEF SyncStep

LEMMA DiscoverKeepsType ==
  ASSUME TypeOK, NEW p \in Syncer \cup {Ice}, DiscoverStep(p)
  PROVE  TypeOK'
<1> USE NodeFacts, ProcAssumption
<1>1. /\ TaskOK(p, task[p]) /\ DataOK /\ p \in Proc /\ p \notin Saver /\ Ice \notin Syncer
      /\ task[p].copy \in Settings /\ task[p].verdict \in Shown /\ task[p].found \in Address
      /\ memory.udp \in Node \cup {None}
  BY TypeParts DEF TaskOK, DataOK, Settings
<1>2. ASSUME NEW mapping \in Node \cup {None}, NEW where \in {"advertise", "recover"}
      PROVE  TaskOK(p, Discovered(p, mapping, where))
  BY <1>1, <1>2 DEF TaskOK, SaverPc, SyncerPc, IcePc, Settings, Shown, State, Choice, Address,
                    Discovered
<1>3. CASE DiscoverNothing(p) \/ Restore(p)
  <2>1. DataOK' /\ \E mapping \in Node \cup {None} : Goto(p, Discovered(p, mapping, "recover"))
    BY <1>1, <1>3 DEF DiscoverNothing, Restore, DataOK
  <2>2. QED BY <1>1, <1>2, <2>1, TaskStep
<1>4. CASE Discover(p)
  <2>1. TaskOK(p, [task[p] EXCEPT !.pc = "learn", !.found = node])
    BY <1>1 DEF TaskOK, DataOK, SyncerPc, IcePc, Address
  <2>2. DataOK' /\ Goto(p, [task[p] EXCEPT !.pc = "learn", !.found = node])
    BY <1>1, <1>4 DEF Discover, DataOK
  <2>3. QED BY <1>1, <2>1, <2>2, TaskStep
<1>5. CASE Learn(p)
  <2> DEFINE found == task[p].found
             new == [memory EXCEPT !.udp = found]
             t == [task[p] EXCEPT !.pc = "udpwrite", !.copy = new]
  <2>1. found \in Node
    BY <1>1, <1>5 DEF Learn, TaskOK
  <2>2. new \in Settings
    BY <1>1, <2>1 DEF DataOK, Settings
  <2>3. TaskOK(p, t)
    BY <1>1, <2>1, <2>2 DEF TaskOK, SyncerPc, IcePc
  <2>4. DataOK' /\ (Goto(p, t) \/ Goto(p, Discovered(p, found, "advertise")))
    BY <1>1, <1>5, <2>2 DEF Learn, DataOK
  <2>5. QED BY <1>1, <1>2, <2>1, <2>3, <2>4, TaskStep
<1>6. CASE UdpWrite(p)
  <2>1. task[p].found \in Node
    BY <1>1, <1>6 DEF UdpWrite, TaskOK
  <2>2. DataOK' /\ Goto(p, Discovered(p, task[p].found, "advertise"))
    BY <1>1, <1>6 DEF UdpWrite, Write, DataOK
  <2>3. QED BY <1>1, <1>2, <2>1, <2>2, TaskStep
<1>7. QED BY <1>3, <1>4, <1>5, <1>6 DEF DiscoverStep

LEMMA EnvironmentKeepsType ==
  ASSUME TypeOK, IceBegin \/ Advertise \/ Crash \/ FrpChanges \/ NodeMoves
  PROVE  TypeOK'
<1> USE NodeFacts, ProcAssumption
<1>1. /\ DataOK /\ Ice \in Proc /\ Ice \notin Saver \cup Syncer
      /\ task[Ice].found \in Node \cup {None}
  BY TypeParts DEF TypeOK
<1>2. CASE IceBegin
  <2>1. TaskOK(Ice, At("discover")) /\ Goto(Ice, At("discover"))
    BY <1>1, <1>2 DEF IceBegin, TaskOK, SyncerPc, IcePc, Settings, Shown, State, Choice, Address
  <2>2. DataOK'
    BY <1>1, <1>2 DEF IceBegin, DataOK
  <2>3. QED BY <1>1, <2>1, <2>2, TaskStep
<1>3. CASE Advertise
  <2>1. Goto(Ice, Idle) /\ ice' \in [host : Node \cup {None}, fresh : BOOLEAN]
    BY <1>1, <1>3 DEF Advertise
  <2>2. DataOK'
    BY <1>1, <1>3, <2>1 DEF Advertise, DataOK
  <2>3. QED BY <1>1, <2>1, <2>2, TaskStep, IdleOK
<1>4. CASE Crash
  <2>1. PICK f \in Settings \cup {Broken} : Load(f)
    BY <1>1, <1>4 DEF Crash, DataOK
  <2>2. memory' \in Settings /\ file' \in Settings \cup {Broken}
    BY <2>1 DEF Load, Settings, Choice
  <2>3. shown' \in Shown /\ UNCHANGED <<owner, written>>
    BY <2>1, <2>2 DEF Load, Restored, Settings, Shown, State, Address
  <2>4. probe' \in BOOLEAN /\ calm' \in BOOLEAN
    BY <2>1, Zenon DEF Load
  <2>5. DataOK'
    BY <1>1, <1>4, <2>1, <2>2, <2>3, <2>4 DEF Crash, Load, DataOK
  <2>6. \A p \in Proc : TaskOK(p, task'[p])
    BY <2>1, IdleOK DEF Load
  <2>7. QED BY <2>1, <2>5, <2>6 DEF Load, DataOK, TaskOK, TypeOK
<1>5. CASE FrpChanges \/ NodeMoves
  BY <1>5, BoundAssumption DEF FrpChanges, NodeMoves, Node, TypeOK
<1>6. QED BY <1>2, <1>3, <1>4, <1>5

LEMMA NextKeepsType == TypeOK /\ [Next]_vars => TypeOK'
<1> SUFFICES ASSUME TypeOK, [Next]_vars PROVE TypeOK'
  OBVIOUS
<1>1. CASE UNCHANGED vars
  BY <1>1 DEF vars, TypeOK
<1>2. QED
  BY <1>1, SaverKeepsType, SyncKeepsType, DiscoverKeepsType, EnvironmentKeepsType DEF Next

-----------------------------------------------------------------------------
(* The four parts of ChoiceInv. *)
Carrying == {"savewrite", "fetch", "probe", "write", "udpwrite", "publish"}
CopiesHold == \A p \in Proc : task[p].pc \in Carrying => task[p].copy.choice = owner
FileHolds == written => file # Broken /\ file.choice = owner
OwnStands ==
  owner \notin From88FRP => shown = Chosen(memory) /\ \A p \in Syncer : In(p, "idle")
Holds == memory.choice = owner /\ CopiesHold /\ FileHolds /\ OwnStands

LEMMA ChoiceParts ==
  (ChoiceInv <=> (calm => Holds)) /\ (ChoiceInv' <=> (calm' => Holds'))
BY DEF ChoiceInv, Holds, CopiesHold, FileHolds, OwnStands, Carrying

(* A step of one goroutine that leaves shown and the choices alone. *)
LEMMA QuietStep ==
  ASSUME TypeOK, Holds, NEW p \in Proc, NEW t, Goto(p, t),
         memory'.choice = memory.choice, owner' = owner, written' = written,
         t.pc \in Carrying => t.copy.choice = owner,
         \/ file' = file
         \/ file' # Broken /\ file'.choice = owner,
         owner \notin From88FRP =>
           shown' = shown /\ Chosen(memory)' = Chosen(memory) /\ (p \in Syncer => t.pc = "idle")
  PROVE  Holds'
<1>1. CopiesHold'
  BY DEF Holds, CopiesHold, TypeOK
<1>2. FileHolds'
  BY DEF Holds, FileHolds, TypeOK
<1>3. OwnStands'
  BY ProcAssumption DEF Holds, OwnStands, TypeOK
<1>4. QED BY <1>1, <1>2, <1>3 DEF Holds

LEMMA SaverKeepsChoice ==
  ASSUME TypeOK, ChoiceInv, NEW p \in Saver,
         \/ \E choice \in Choice : SaveBegin(p, choice)
         \/ SaveApply(p) \/ SaveWrite(p) \/ SaveWriteFails(p)
  PROVE  ChoiceInv'
<1> USE ProcAssumption
<1>1. p \in Proc /\ p \notin Syncer
  OBVIOUS
<1>2. CASE \E choice \in Choice : SaveBegin(p, choice)
  <2>1. PICK choice \in Choice : SaveBegin(p, choice)
    BY <1>2
  <2> DEFINE base == IF choice \in From88FRP THEN memory ELSE Default
             t == [At("save") EXCEPT !.copy = [base EXCEPT !.choice = choice]]
  <2>2. Goto(p, t) /\ t.pc \notin Carrying
        /\ UNCHANGED <<memory, shown, file, owner, calm, written>>
    BY <2>1 DEF SaveBegin, Carrying
  <2> HIDE DEF t
  <2>3. calm => Holds'
    BY <1>1, <2>2, ChoiceParts, QuietStep
  <2>4. QED BY <2>2, <2>3, ChoiceParts
<1>3. CASE SaveApply(p)
  <2> DEFINE copy == task[p].copy
  <2> SUFFICES ASSUME calm' PROVE Holds'
    BY ChoiceParts
  <2>1. \A q \in Proc : ~Carries(q)
    BY <1>3, Zenon DEF SaveApply
  <2>2. /\ memory' = copy /\ owner' = copy.choice
        /\ task' = [task EXCEPT ![p] = [task[p] EXCEPT !.pc = "savewrite"]]
        /\ copy.choice \notin From88FRP => shown' = Chosen(copy)
    BY <1>3 DEF SaveApply
  <2>3. CopiesHold'
    BY <1>1, <2>1, <2>2 DEF CopiesHold, Carrying, Carries, TypeOK
  <2>4. FileHolds'
    BY <1>3 DEF SaveApply, FileHolds
  <2>5. OwnStands'
    BY <1>1, <2>1, <2>2 DEF OwnStands, Carries, TypeOK, SyncerPc
  <2>6. QED BY <2>2, <2>3, <2>4, <2>5 DEF Holds
<1>4. CASE SaveWrite(p)
  <2> SUFFICES ASSUME calm PROVE Holds'
    BY <1>4, ChoiceParts DEF SaveWrite
  <2>1. Holds
    BY ChoiceParts
  <2>2. In(p, "savewrite") /\ file' = task[p].copy /\ task' = [task EXCEPT ![p] = Idle]
        /\ UNCHANGED <<memory, shown, owner>>
    BY <1>4 DEF SaveWrite
  <2>3. task[p].copy \in Settings /\ task[p].copy.choice = owner
    BY <1>1, <2>1, <2>2 DEF Holds, CopiesHold, Carrying, TypeOK
  <2>4. FileHolds'
    BY <2>2, <2>3, BrokenAssumption DEF FileHolds
  <2>5. CopiesHold' /\ OwnStands'
    BY <1>1, <2>1, <2>2 DEF Holds, CopiesHold, OwnStands, Carrying, TypeOK
  <2>6. QED BY <2>1, <2>2, <2>4, <2>5 DEF Holds
<1>5. CASE SaveWriteFails(p)
  <2>1. Goto(p, Idle) /\ UNCHANGED <<memory, shown, file, owner, calm, written>>
    BY <1>5 DEF SaveWriteFails
  <2>2. calm => Holds'
    BY <1>1, <2>1, ChoiceParts, QuietStep DEF Carrying
  <2>3. QED BY <2>1, <2>2, ChoiceParts
<1>6. QED BY <1>2, <1>3, <1>4, <1>5

LEMMA SyncKeepsChoice ==
  ASSUME TypeOK, ChoiceInv, NEW p \in Syncer, SyncBegin(p) \/ SyncStep(p)
  PROVE  ChoiceInv'
<1> USE ProcAssumption
<1>1. p \in Proc /\ task[p].pc # "savewrite" /\ task[p] \in [pc : SaverPc \cup SyncerPc \cup IcePc,
                        copy : Settings, verdict : Shown, found : Address]
  BY DEF TypeOK, SyncerPc
<1>2. calm' = calm /\ owner' = owner /\ written' = written
  BY DEF SyncBegin, SyncStep, FetchFails, Probe, FetchUnusable, FetchSucceeds, SyncWrite, Reread,
         Publish
<1> SUFFICES ASSUME calm PROVE Holds'
  BY <1>2, ChoiceParts
<1>3. Holds
  BY ChoiceParts
<1>4. owner \in From88FRP
  BY <1>3 DEF Holds, OwnStands, SyncBegin, SyncStep, FetchFails, Probe, FetchUnusable,
              FetchSucceeds, SyncWrite, Reread, Publish
<1>5. task[p].pc \in Carrying => task[p].copy.choice = owner
  BY <1>1, <1>3 DEF Holds, CopiesHold
<1>6. /\ Goto(p, task'[p])
      /\ task'[p].pc \in Carrying => task'[p].copy.choice = owner
  <2>1. ASSUME NEW t, Goto(p, t), t.pc \in Carrying => t.copy.choice = owner
        PROVE  /\ Goto(p, task'[p])
               /\ task'[p].pc \in Carrying => task'[p].copy.choice = owner
    BY <1>1, <2>1 DEF TypeOK
  <2>2. ASSUME NEW url, NEW state, task[p].copy.choice = owner,
               Goto(p, Publishing(task[p].copy, url, state))
        PROVE  /\ Goto(p, task'[p])
               /\ task'[p].pc \in Carrying => task'[p].copy.choice = owner
    BY <2>1, <2>2 DEF Publishing
  <2>3. CASE SyncBegin(p)
    <3>1. Goto(p, [At("fetch") EXCEPT !.copy = memory])
      BY <2>3 DEF SyncBegin
    <3>2. QED BY <1>3, <2>1, <3>1 DEF Holds
  <2>4. CASE Reread(p)
    <3>1. Goto(p, [task[p] EXCEPT !.pc = "publish", !.copy = memory])
      BY <2>4 DEF Reread
    <3>2. QED BY <1>1, <1>3, <2>1, <3>1 DEF Holds
  <2>5. CASE FetchFails(p)
    <3> DEFINE last == IF task[p].copy.last # None THEN task[p].copy.last ELSE shown.url
               t == [task[p] EXCEPT !.pc = "probe", !.found = last]
    <3>1. task[p].copy.choice = owner
      BY <1>5, <2>5 DEF FetchFails, Carrying
    <3>2. t.copy.choice = owner
      BY <1>1, <3>1
    <3>3. Goto(p, t) \/ Goto(p, Publishing(task[p].copy, None, "frp-error"))
      BY <2>5 DEF FetchFails
    <3> HIDE DEF t
    <3>4. QED BY <2>1, <2>2, <3>1, <3>2, <3>3
  <2>6. CASE Probe(p) \/ FetchUnusable(p)
    <3>1. task[p].copy.choice = owner
      BY <1>5, <2>6 DEF Probe, FetchUnusable, Carrying
    <3>2. PICK url, state : Goto(p, Publishing(task[p].copy, url, state))
      BY <2>6 DEF Probe, FetchUnusable
    <3>3. QED BY <2>2, <3>1, <3>2
  <2>7. CASE FetchSucceeds(p)
    <3> DEFINE v == [url |-> node, state |-> "frp-ready"]
               t == [task[p] EXCEPT !.pc = "write", !.copy.last = node, !.verdict = v]
    <3>1. task[p].copy.choice = owner /\ task[p].copy \in Settings
      BY <1>1, <1>5, <2>7 DEF FetchSucceeds, Carrying
    <3>2. t.copy = [task[p].copy EXCEPT !.last = node]
      BY <1>1
    <3>3. t.copy.choice = owner
      BY <3>1, <3>2 DEF Settings
    <3>4. Goto(p, t)
      BY <2>7 DEF FetchSucceeds
    <3> HIDE DEF t
    <3>5. QED BY <2>1, <3>3, <3>4
  <2>8. CASE SyncWrite(p)
    <3> DEFINE t == [task[p] EXCEPT !.pc = "discover", !.copy = Default]
    <3>1. Goto(p, t) /\ t.pc = "discover"
      BY <1>1, <2>8 DEF SyncWrite
    <3> HIDE DEF t
    <3>2. QED BY <2>1, <3>1 DEF Carrying
  <2>9. CASE Publish(p)
    BY <2>1, <2>9 DEF Publish, Carrying
  <2>10. QED BY <2>3, <2>4, <2>5, <2>6, <2>7, <2>8, <2>9 DEF SyncStep
<1>7. memory'.choice = memory.choice
  BY <1>3, <1>5 DEF Holds, SyncBegin, SyncStep, FetchFails, Probe, FetchUnusable, FetchSucceeds,
                    SyncWrite, Reread, Publish, Carrying
<1>8. file' = file \/ (file' # Broken /\ file'.choice = owner)
  BY <1>1, <1>5, BrokenAssumption
     DEF SyncBegin, SyncStep, FetchFails, Probe, FetchUnusable, FetchSucceeds, SyncWrite, Write,
         Reread, Publish, Carrying
<1>9. QED BY <1>1, <1>2, <1>3, <1>4, <1>6, <1>7, <1>8, QuietStep

LEMMA DiscoverKeepsChoice ==
  ASSUME TypeOK, ChoiceInv, NEW p \in Syncer \cup {Ice}, DiscoverStep(p)
  PROVE  ChoiceInv'
<1> USE ProcAssumption
<1>1. p \in Proc /\ task[p].pc # "savewrite" /\ memory \in Settings
      /\ task[p] \in [pc : SaverPc \cup SyncerPc \cup IcePc,
                     copy : Settings, verdict : Shown, found : Address]
  BY DEF TypeOK, SyncerPc, IcePc
<1>2. calm' = calm /\ owner' = owner /\ written' = written /\ shown' = shown
  BY DEF DiscoverStep, DiscoverNothing, Discover, Restore, Learn, UdpWrite
<1> SUFFICES ASSUME calm PROVE Holds'
  BY <1>2, ChoiceParts
<1>3. Holds
  BY ChoiceParts
<1>4. memory'.choice = memory.choice
  BY <1>1 DEF DiscoverStep, DiscoverNothing, Discover, Restore, Learn, UdpWrite, Settings
<1>5. p \in Syncer => owner \in From88FRP
  BY <1>3 DEF Holds, OwnStands, DiscoverStep, DiscoverNothing, Discover, Restore, Learn, UdpWrite
<1>6. file' = file \/ (file' # Broken /\ file'.choice = owner)
  <2>1. CASE UdpWrite(p)
    <3>1. task[p].copy.choice = owner /\ task[p].copy \in Settings
      BY <1>1, <1>3, <2>1 DEF Holds, CopiesHold, Carrying, UdpWrite
    <3>2. QED BY <2>1, <3>1, BrokenAssumption DEF UdpWrite, Write
  <2>2. QED BY <2>1 DEF DiscoverStep, DiscoverNothing, Discover, Restore, Learn
<1>7. ASSUME NEW mapping, NEW where \in {"advertise", "recover"}
      PROVE  Discovered(p, mapping, where).pc \notin Carrying
  BY <1>1 DEF Discovered, Carrying
<1>8. PICK t : Goto(p, t) /\ (t.pc \in Carrying => t.copy.choice = owner)
  <2>1. CASE DiscoverNothing(p)
    BY <1>7, <2>1 DEF DiscoverNothing
  <2>2. CASE Restore(p)
    BY <1>7, <2>2 DEF Restore
  <2>3. CASE UdpWrite(p)
    BY <1>7, <2>3 DEF UdpWrite
  <2>4. CASE Discover(p)
    <3> DEFINE t == [task[p] EXCEPT !.pc = "learn", !.found = node]
    <3>1. Goto(p, t) /\ t.pc = "learn"
      BY <1>1, <2>4 DEF Discover
    <3> HIDE DEF t
    <3>2. QED BY <3>1 DEF Carrying
  <2>5. CASE Learn(p)
    <3> DEFINE new == [memory EXCEPT !.udp = task[p].found]
               t == [task[p] EXCEPT !.pc = "udpwrite", !.copy = new]
    <3>1. Goto(p, t) \/ Goto(p, Discovered(p, task[p].found, "advertise"))
      BY <2>5 DEF Learn
    <3>2. new.choice = owner
      BY <1>1, <1>3 DEF Holds, Settings
    <3>3. t.copy = new
      BY <1>1
    <3> HIDE DEF t, new
    <3>4. QED BY <1>7, <3>1, <3>2, <3>3
  <2>6. QED BY <2>1, <2>2, <2>3, <2>4, <2>5 DEF DiscoverStep
<1>9. Chosen(memory)' = Chosen(memory)
  BY <1>4
<1>10. QED BY <1>1, <1>2, <1>3, <1>4, <1>5, <1>6, <1>8, <1>9, QuietStep

LEMMA EnvironmentKeepsChoice ==
  ASSUME TypeOK, ChoiceInv, IceBegin \/ Advertise \/ Crash \/ FrpChanges \/ NodeMoves
  PROVE  ChoiceInv'
<1> USE ProcAssumption
<1>1. CASE IceBegin \/ Advertise
  <2>1. PICK t : Goto(Ice, t) /\ t.pc \notin Carrying
    BY <1>1 DEF IceBegin, Advertise, Carrying
  <2>2. UNCHANGED <<memory, shown, file, owner, calm, written>>
    BY <1>1 DEF IceBegin, Advertise
  <2>3. calm => Holds'
    BY <2>1, <2>2, ChoiceParts, QuietStep
  <2>4. QED BY <2>2, <2>3, ChoiceParts
<1>2. CASE Crash
  <2>1. PICK f : Load(f) /\ f \in Settings \cup {Broken}
    BY <1>2 DEF Crash, TypeOK
  <2> SUFFICES ASSUME calm' PROVE Holds'
    BY ChoiceParts
  <2>2. calm /\ written /\ f # Broken
    BY <2>1, Zenon DEF Load
  <2>3. f = file
    BY <1>2, <2>1, <2>2, Zenon DEF Crash, Load
  <2>4. memory' = f /\ file' = f /\ owner' = owner /\ f.choice = owner /\ f # Broken
        /\ shown' = Restored(f) /\ task' = [p \in Proc |-> Idle]
    BY <2>1, <2>2, <2>3, ChoiceParts DEF Load, Holds, FileHolds
  <2>5. CopiesHold' /\ FileHolds'
    BY <2>4 DEF CopiesHold, FileHolds, Carrying
  <2>6. OwnStands'
    BY <2>4 DEF OwnStands, Restored
  <2>7. QED BY <2>4, <2>5, <2>6 DEF Holds
<1>3. CASE FrpChanges \/ NodeMoves
  BY <1>3 DEF FrpChanges, NodeMoves, ChoiceInv
<1>4. QED BY <1>1, <1>2, <1>3

LEMMA NextKeepsChoice == TypeOK /\ ChoiceInv /\ [Next]_vars => ChoiceInv'
<1> SUFFICES ASSUME TypeOK, ChoiceInv, [Next]_vars PROVE ChoiceInv'
  OBVIOUS
<1>1. CASE UNCHANGED vars
  BY <1>1 DEF vars, ChoiceInv
<1>2. QED
  BY <1>1, SaverKeepsChoice, SyncKeepsChoice, DiscoverKeepsChoice, EnvironmentKeepsChoice DEF Next

(* Settings on their way hold the owner's last choice as long as nothing    *)
(* older is on its way (Save, Sync, saveUDPForward), for any number of      *)
(* requests, synchronisations, nodes and faults.                            *)
THEOREM AccessInvariant == Spec => []AccessInv
<1>1. AccessInv /\ [Next]_vars => AccessInv'
  BY NextKeepsType, NextKeepsChoice DEF AccessInv
<1>2. QED BY InitEstablishesInv, <1>1, PTL DEF Spec

(* Once all goroutines rest, memory, file and the address of new links are  *)
(* what the owner saved last (Save).                                        *)
THEOREM OwnerIsObeyed == Spec => []OwnerChoiceStands
<1>1. AccessInv => OwnerChoiceStands
  BY ProcAssumption DEF AccessInv, ChoiceInv, OwnerChoiceStands, AtRest
<1>2. QED BY AccessInvariant, <1>1, PTL
-----------------------------------------------------------------------------
(* AtNode in two parts: the data, and a goroutine that bears the node.     *)
DataAt(n) ==
  /\ node = n /\ OfNode(memory, n) /\ shown.url = n
  /\ file # Broken /\ OfNode(file, n) /\ file.last = n
  /\ ice.host \in {n, None}

TaskAt(p, t, n) == Bears(t, n) /\ (p # Ice => Shows(t, n))

LEMMA NodeParts ==
  ASSUME NEW n
  PROVE  AtNode(n) <=> DataAt(n) /\ \A p \in Proc : TaskAt(p, task[p], n)
BY DEF AtNode, DataAt, TaskAt

LEMMA NodeStep ==
  ASSUME TypeOK, NEW n, AtNode(n), NEW p \in Proc, NEW t, TaskAt(p, t, n), Goto(p, t), DataAt(n)'
  PROVE  AtNode(n)'
<1> HIDE DEF Proc
<1>1. \A q \in Proc : TaskAt(q, task'[q], n)
  BY NodeParts DEF TypeOK
<1>2. QED BY <1>1 DEF AtNode, DataAt, TaskAt, Bears, Shows, OfNode

LEMMA IdleAtNode == \A p \in Proc, n \in Node : TaskAt(p, Idle, n)
BY DEF TaskAt, Bears, Shows

LEMMA SyncKeepsNode ==
  ASSUME TypeOK, NEW n \in Node, AtNode(n), NEW p \in Syncer, SyncBegin(p) \/ SyncStep(p)
  PROVE  AtNode(n)'
<1> USE NodeFacts, ProcAssumption
<1>1. /\ TaskAt(p, task[p], n) /\ DataAt(n) /\ TaskOK(p, task[p]) /\ DataOK /\ p # Ice
      /\ task[p].copy \in Settings /\ memory \in Settings
  BY NodeParts, TypeParts DEF TaskOK, DataOK
<1>2. ASSUME NEW copy, OfNode(copy, n), NEW state
      PROVE  TaskAt(p, Publishing(copy, n, state), n)
  BY <1>1, <1>2 DEF TaskAt, Bears, Shows, Publishing
<1>3. CASE SyncBegin(p)
  <2> DEFINE t == [At("fetch") EXCEPT !.copy = memory]
  <2>1. TaskAt(p, t, n)
    BY <1>1 DEF TaskAt, DataAt, Bears, Shows
  <2>2. Goto(p, t) /\ DataAt(n)'
    BY <1>1, <1>3 DEF SyncBegin, DataAt
  <2>3. QED BY <2>1, <2>2, NodeStep
<1>4. CASE FetchFails(p)
  <2> DEFINE last == IF task[p].copy.last # None THEN task[p].copy.last ELSE shown.url
             t == [task[p] EXCEPT !.pc = "probe", !.found = last]
  <2>1. last = n /\ OfNode(task[p].copy, n)
    BY <1>1, <1>4 DEF FetchFails, TaskAt, Bears, OfNode, DataAt
  <2>2. t.pc = "probe" /\ t.found = n /\ t.copy = task[p].copy
    BY <1>1, <2>1 DEF TaskOK
  <2>3. Goto(p, t) /\ DataAt(n)'
    BY <1>1, <1>4, <2>1 DEF FetchFails, DataAt
  <2> HIDE DEF t
  <2>4. TaskAt(p, t, n)
    BY <2>1, <2>2 DEF TaskAt, Bears, Shows
  <2>5. QED BY <2>3, <2>4, NodeStep
<1>5. CASE Probe(p)
  <2>1. PICK state : Goto(p, Publishing(task[p].copy, task[p].found, state))
    BY <1>5 DEF Probe
  <2>2. OfNode(task[p].copy, n) /\ task[p].found = n
    BY <1>1, <1>5 DEF Probe, TaskAt, Bears
  <2>3. DataAt(n)'
    BY <1>1, <1>5 DEF Probe, DataAt
  <2>4. QED BY <1>2, <2>1, <2>2, <2>3, NodeStep
<1>6. CASE FetchUnusable(p)
  <2>1. OfNode(task[p].copy, n) /\ shown.url = n
    BY <1>1, <1>6 DEF FetchUnusable, TaskAt, Bears, DataAt
  <2>2. PICK state : Goto(p, Publishing(task[p].copy, n, state))
    BY <1>6, <2>1 DEF FetchUnusable, OfNode
  <2>3. DataAt(n)'
    BY <1>1, <1>6 DEF FetchUnusable, DataAt
  <2>4. QED BY <1>2, <2>1, <2>2, <2>3, NodeStep
<1>7. CASE FetchSucceeds(p)
  <2> DEFINE v == [url |-> node, state |-> "frp-ready"]
             t == [task[p] EXCEPT !.pc = "write", !.copy.last = node, !.verdict = v]
  <2>1. OfNode(task[p].copy, n) /\ node = n
    BY <1>1, <1>7 DEF FetchSucceeds, TaskAt, Bears, DataAt
  <2>2. t.pc = "write" /\ t.verdict = v /\ t.copy = [task[p].copy EXCEPT !.last = n]
    BY <1>1, <2>1 DEF TaskOK
  <2>3. OfNode([task[p].copy EXCEPT !.last = n], n)
        /\ [task[p].copy EXCEPT !.last = n].last = n
    BY <1>1, <2>1 DEF OfNode, Settings
  <2>4. Goto(p, t) /\ DataAt(n)'
    BY <1>1, <1>7 DEF FetchSucceeds, DataAt
  <2>5. v.url = n
    BY <2>1
  <2> HIDE DEF t, v
  <2>6. TaskAt(p, t, n)
    BY <2>2, <2>3, <2>5 DEF TaskAt, Bears, Shows
  <2>7. QED BY <2>4, <2>6, NodeStep
<1>8. CASE SyncWrite(p)
  <2> DEFINE t == [task[p] EXCEPT !.pc = "discover", !.copy = Default]
  <2>1. OfNode(task[p].copy, n) /\ task[p].copy.last = n /\ task[p].verdict.url = n
    BY <1>1, <1>8 DEF SyncWrite, TaskAt, Bears, Shows
  <2>2. t.pc = "discover" /\ t.verdict = task[p].verdict
    BY <1>1 DEF TaskOK
  <2>3. file' = file \/ file' = task[p].copy
    BY <1>8 DEF SyncWrite, Write
  <2>4. Goto(p, t) /\ DataAt(n)'
    BY <1>1, <1>8, <2>1, <2>3, BrokenAssumption DEF SyncWrite, DataAt
  <2> HIDE DEF t
  <2>5. TaskAt(p, t, n)
    BY <2>1, <2>2 DEF TaskAt, Bears, Shows
  <2>6. QED BY <2>4, <2>5, NodeStep
<1>9. CASE Reread(p)
  <2> DEFINE t == [task[p] EXCEPT !.pc = "publish", !.copy = memory]
  <2>1. task[p].verdict.url = n /\ OfNode(memory, n)
    BY <1>1, <1>9 DEF Reread, TaskAt, Shows, DataAt
  <2>2. t.pc = "publish" /\ t.verdict = task[p].verdict /\ t.copy = memory
    BY <1>1 DEF TaskOK
  <2>3. Goto(p, t) /\ DataAt(n)'
    BY <1>1, <1>9 DEF Reread, DataAt
  <2> HIDE DEF t
  <2>4. TaskAt(p, t, n)
    BY <2>1, <2>2 DEF TaskAt, Bears, Shows
  <2>5. QED BY <2>3, <2>4, NodeStep
<1>10. CASE Publish(p)
  <2>1. OfNode(task[p].copy, n) /\ task[p].verdict.url = n
    BY <1>1, <1>10 DEF Publish, TaskAt, Bears, Shows
  <2>2. Goto(p, Idle) /\ DataAt(n)'
    BY <1>1, <1>10, <2>1 DEF Publish, DataAt
  <2>3. QED BY <2>2, IdleAtNode, NodeStep
<1>11. QED BY <1>3, <1>4, <1>5, <1>6, <1>7, <1>8, <1>9, <1>10 DEF SyncStep

LEMMA DiscoverKeepsNode ==
  ASSUME TypeOK, NEW n \in Node, AtNode(n), NEW p \in Syncer \cup {Ice}, DiscoverStep(p)
  PROVE  AtNode(n)'
<1> USE NodeFacts, ProcAssumption
<1>1. /\ TaskAt(p, task[p], n) /\ DataAt(n) /\ TaskOK(p, task[p]) /\ p \in Proc
      /\ memory \in Settings
  BY NodeParts, TypeParts DEF TaskOK, DataOK
<1>2. ASSUME NEW where \in {"advertise", "recover"}, p # Ice => task[p].verdict.url = n
      PROVE  TaskAt(p, Discovered(p, n, where), n)
  BY <1>1, <1>2 DEF TaskAt, Bears, Shows, Discovered, TaskOK
<1>3. memory.udp = n /\ memory.choice \in From88FRP
  BY <1>1 DEF DataAt, OfNode, From88FRP
<1>4. task[p].pc \in {"discover", "learn"} => (p # Ice => task[p].verdict.url = n)
  BY <1>1 DEF TaskAt, Shows
<1>5. CASE DiscoverNothing(p) \/ UdpWrite(p)
  BY <1>1, <1>3, <1>5 DEF DiscoverNothing, UdpWrite, TaskAt, Bears
<1>6. CASE Discover(p)
  <2> DEFINE t == [task[p] EXCEPT !.pc = "learn", !.found = node]
  <2>1. t.pc = "learn" /\ t.found = n /\ t.verdict = task[p].verdict
    BY <1>1 DEF TaskOK, DataAt
  <2>2. Goto(p, t) /\ DataAt(n)' /\ (p # Ice => task[p].verdict.url = n)
    BY <1>1, <1>4, <1>6 DEF Discover, DataAt
  <2> HIDE DEF t
  <2>3. TaskAt(p, t, n)
    BY <2>1, <2>2 DEF TaskAt, Bears, Shows
  <2>4. QED BY <1>1, <2>2, <2>3, NodeStep
<1>7. CASE Restore(p)
  <2>1. Goto(p, Discovered(p, n, "recover")) /\ DataAt(n)' /\ (p # Ice => task[p].verdict.url = n)
    BY <1>1, <1>3, <1>4, <1>7 DEF Restore, DataAt
  <2>2. QED BY <1>1, <1>2, <2>1, NodeStep
<1>8. CASE Learn(p)
  <2>1. task[p].found = n /\ (p # Ice => task[p].verdict.url = n)
    BY <1>1, <1>4, <1>8 DEF Learn, TaskAt, Bears
  <2>2. Goto(p, Discovered(p, n, "advertise")) /\ memory' = memory
    BY <1>1, <1>3, <1>8, <2>1 DEF Learn, Settings
  <2>3. DataAt(n)'
    BY <1>1, <1>8, <2>2 DEF Learn, DataAt
  <2>4. QED BY <1>1, <1>2, <2>1, <2>2, <2>3, NodeStep
<1>9. QED BY <1>5, <1>6, <1>7, <1>8 DEF DiscoverStep

LEMMA EnvironmentKeepsNode ==
  ASSUME TypeOK, NEW n \in Node, AtNode(n), file' # Broken, node' = n,
         IceBegin \/ Advertise \/ Crash \/ FrpChanges \/ NodeMoves
  PROVE  AtNode(n)'
<1> USE NodeFacts, ProcAssumption
<1>1. TaskAt(Ice, task[Ice], n) /\ DataAt(n) /\ Ice \in Proc
  BY NodeParts
<1>2. CASE IceBegin
  <2>1. TaskAt(Ice, At("discover"), n)
    BY DEF TaskAt, Bears
  <2>2. Goto(Ice, At("discover")) /\ DataAt(n)'
    BY <1>1, <1>2 DEF IceBegin, DataAt
  <2>3. QED BY <1>1, <2>1, <2>2, NodeStep
<1>3. CASE Advertise
  <2>1. ice'.host = n
    BY <1>1, <1>3 DEF Advertise, TaskAt, Bears
  <2>2. Goto(Ice, Idle) /\ DataAt(n)'
    BY <1>1, <1>3, <2>1 DEF Advertise, DataAt
  <2>3. QED BY <1>1, <2>2, IdleAtNode, NodeStep
<1>4. CASE Crash
  <2>1. Load(file)
    BY <1>4, Zenon DEF Crash, Load
  <2>2. memory' = file /\ file' = file /\ shown' = Restored(file) /\ ice'.host = None
        /\ task' = [p \in Proc |-> Idle]
    BY <1>1, <2>1 DEF Load, DataAt
  <2>3. Restored(file).url = n
    BY <1>1 DEF Restored, DataAt, OfNode, From88FRP
  <2>4. DataAt(n)'
    BY <1>1, <2>2, <2>3 DEF DataAt
  <2>5. \A p \in Proc : TaskAt(p, Idle, n)
    BY IdleAtNode
  <2>6. QED BY <2>2, <2>4, <2>5 DEF AtNode, DataAt, TaskAt, Bears, Shows, OfNode
<1>5. CASE FrpChanges \/ NodeMoves
  <2>1. UNCHANGED <<memory, shown, file, task, ice>>
    BY <1>5 DEF FrpChanges, NodeMoves
  <2>2. QED BY <2>1 DEF AtNode, Bears, Shows, OfNode
<1>6. QED BY <1>2, <1>3, <1>4, <1>5

(* A saver that is idle before and after has done nothing.                 *)
LEMMA SaverLeavesNode ==
  ASSUME TypeOK, NEW n \in Node, AtNode(n), NEW p \in Saver, In(p, "idle")'
  PROVE  /\ \A choice \in Choice : ~SaveBegin(p, choice)
         /\ ~SaveApply(p) /\ ~SaveWrite(p) /\ ~SaveWriteFails(p)
<1>1. task[p].pc \notin {"save", "savewrite"} /\ p \in Proc
  BY DEF AtNode, Bears
<1>2. ASSUME NEW choice \in Choice, SaveBegin(p, choice) PROVE FALSE
  <2>1. task'[p].pc = "save"
    BY <1>1, <1>2 DEF SaveBegin, TypeOK
  <2>2. QED BY <2>1
<1>3. QED BY <1>1, <1>2 DEF SaveApply, SaveWrite, SaveWriteFails

(* What 88FRP, its outages and a restart do to an address that is known and *)
(* on which everybody agrees: nothing (Sync, syncFailed, restoreUDPForward, *)
(* load), until the node moves or the owner saves.                          *)
THEOREM OutagesKeepTheNode == Spec => NodeStands
<1>1. ASSUME TypeOK, [Next]_vars, NEW n \in Node, AtNode(n), node' = n, file' # Broken,
             \A p \in Saver : In(p, "idle")'
      PROVE  AtNode(n)'
  <2>1. CASE UNCHANGED vars
    BY <1>1, <2>1 DEF vars, AtNode, Bears, Shows, OfNode
  <2>2. QED
    BY <1>1, <2>1, SaverLeavesNode, SyncKeepsNode, DiscoverKeepsNode, EnvironmentKeepsNode DEF Next
<1>2. TypeOK /\ [Next]_vars =>
        [\A n \in Node :
           AtNode(n) /\ node' = n /\ file' # Broken /\ (\A p \in Saver : In(p, "idle")')
           => AtNode(n)']_vars
  BY <1>1
<1>3. AccessInv => TypeOK
  BY DEF AccessInv
<1>4. QED BY AccessInvariant, <1>2, <1>3, PTL DEF Spec, NodeStands
=============================================================================
