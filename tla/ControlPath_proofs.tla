------------------------ MODULE ControlPath_proofs ------------------------
(* Theorems about ControlPath: the mutex of a shell, and that an event, a  *)
(* gesture and a shell are each used as often as they should be.           *)
EXTENDS ControlPath, TLAPS

(* What a step can be. *)
LEMMA StepCases ==
  ASSUME [Next]_vars
  PROVE  \/ \E h \in Handler, k \in Kind : Capture(h, k)
         \/ \E h \in Handler : Handle(h)
         \/ \E h \in Handler : SocketFills(h) \/ SocketFrees(h)
         \/ \E o \in Shell : ShellDies(o)
         \/ \E o \in Shell : ShellSticks(o)
         \/ \E o \in Shell : ShellResumes(o)
         \/ BeginRepair \/ CloseShell \/ RepairADB
         \/ UNCHANGED vars
  BY DEF Next, Repair, HandlePeerControl, HandleControlEvent, Handler

(* What a handler is about to do never reaches the phone a second time.    *)
LEMMA InitPath == Init => PathInv /\ EventReachesPhoneOnce
  BY HandlerAssumption, BoundAssumption
     DEF Init, PathInv, TypeOK, MutexIsHeld, WriterHasShell, ControlIsHeld, HasMutex, HasShell, Handler, Kind, Down, Shell,
         EventReachesPhoneOnce

(* Every step keeps the types, the owner of each mutex and the count of    *)
(* each event.                                                             *)
LEMMA NextPath ==
  ASSUME PathInv, EventReachesPhoneOnce, [Next]_vars
  PROVE  PathInv' /\ EventReachesPhoneOnce'
<1> USE HandlerAssumption, BoundAssumption
    DEF PathInv, TypeOK, MutexIsHeld, WriterHasShell, ControlIsHeld, HasMutex, HasShell, Handler, Kind, Down, Shell,
        EventReachesPhoneOnce, handlerVars, pointerVars, shellVars, repairVars
<1>1. ASSUME NEW h \in Handler, NEW k \in Kind, Capture(h, k)
      PROVE  PathInv' /\ EventReachesPhoneOnce'
  <2>1. TypeOK'
    BY <1>1, SMTT(30) DEF Capture
  <2>2. MutexIsHeld'
    BY <1>1, SMTT(30) DEF Capture
  <2>3. EventReachesPhoneOnce'
    BY <1>1, SMTT(30) DEF Capture
  <2>4. WriterHasShell'
    BY <1>1, SMTT(30) DEF Capture
  <2>5. ControlIsHeld'
    BY <1>1, SMTT(30) DEF Capture
  <2> QED BY <2>1, <2>2, <2>3, <2>4, <2>5
<1>2. ASSUME NEW h \in Handler, Handle(h)
      PROVE  PathInv' /\ EventReachesPhoneOnce'
  <2>1. CASE SendNative(h)
    BY <2>1, SMTT(30) DEF SendNative, Done, Reach
  <2>2. CASE NativeFails(h)
    BY <2>2, SMTT(30) DEF NativeFails
  <2>13. CASE TakeStream(h)
    BY <2>13, SMTT(30) DEF TakeStream
  <2>14. CASE LockControl(h)
    <3>1. controlMu = None /\ controlMu' = h /\ pc[h] = "control" /\ pc' = [pc EXCEPT ![h] = "sending"]
      BY <2>14 DEF LockControl
    <3>2. UNCHANGED <<kind, start, shell, attempt, reached, pointerVars, shellVars, repairVars>>
      BY <2>14 DEF LockControl
    <3>3. TypeOK'
      BY <3>1, <3>2, SMTT(30)
    <3>4. ControlIsHeld'
      BY <3>1
    <3>5. MutexIsHeld' /\ WriterHasShell' /\ EventReachesPhoneOnce'
      BY <3>1, <3>2, SMTT(30)
    <3> QED BY <3>3, <3>4, <3>5
  <2>15. CASE SendFails(h)
    BY <2>15, SMTT(30) DEF SendFails
  <2>3. CASE Dispatch(h)
    <3>0. pc[h] = "dispatch" /\ UNCHANGED <<reached, pointerVars, shellVars, repairVars, controlMu>>
      BY <2>3 DEF Dispatch
    <3>1. CASE Done(h)
      BY <3>0, <3>1, SMTT(30) DEF Done
    <3>2. CASE ~Done(h)
      <4>1. /\ shell' = [shell EXCEPT ![h] = current]
            /\ \E place \in {"input", "size"} : pc' = [pc EXCEPT ![h] = place]
            /\ kind' = [kind EXCEPT ![h] = "other"] /\ UNCHANGED <<start, attempt>>
        BY <2>3, <3>2 DEF Dispatch
      <4>2. PICK place \in {"input", "size"} : pc' = [pc EXCEPT ![h] = place]
        BY <4>1
      <4>3. TypeOK'
        BY <3>0, <4>1, <4>2, SMTT(30)
      <4>4. MutexIsHeld'
        <5>1. SUFFICES ASSUME NEW o \in Shell, NEW g \in Handler
                       PROVE  mutex[o] = g <=> pc'[g] \in HasMutex /\ shell'[g] = o
          BY <3>0
        <5>2. CASE g = h
          BY <3>0, <4>1, <4>2, <5>2
        <5>3. CASE g # h
          BY <3>0, <4>1, <4>2, <5>3, SMTT(30)
        <5> QED BY <5>2, <5>3
      <4>5. EventReachesPhoneOnce'
        BY <3>0, <4>1, <4>2, SMTT(30)
      <4>6. WriterHasShell'
        BY <3>0, <4>1, <4>2, SMTT(30)
      <4>7. ControlIsHeld'
        BY <3>0, <4>1, <4>2, SMTT(30)
      <4> QED BY <4>3, <4>4, <4>5, <4>6, <4>7
    <3> QED BY <3>1, <3>2
  <2>4. CASE Size(h)
    BY <2>4, SMTT(30) DEF Size
  <2>5. CASE SizeFails(h)
    BY <2>5, SMTT(30) DEF SizeFails, Done
  <2>6. CASE Lock(h)
    BY <2>6, SMTT(30) DEF Lock
  <2>7. CASE Start(h)
    BY <2>7, SMTT(30) DEF Start
  <2>8. CASE StartFails(h)
    BY <2>8, SMTT(30) DEF StartFails
  <2>9. CASE WriteLine(h)
    <3>1. TypeOK'
      BY <2>9, SMTT(40) DEF WriteLine, Done, Reach, Gesture, Unlock
    <3>2. MutexIsHeld' /\ ControlIsHeld'
      BY <2>9, SMTT(40) DEF WriteLine, Done, Reach, Gesture, Unlock
    <3>3. WriterHasShell' /\ EventReachesPhoneOnce'
      BY <2>9, SMTT(40) DEF WriteLine, Done, Reach, Gesture, Unlock
    <3> QED BY <3>1, <3>2, <3>3
  <2>10. CASE WriteFails(h)
    BY <2>10, SMTT(30) DEF WriteFails
  <2>11. CASE OneShot(h)
    <3>1. TypeOK'
      BY <2>11, SMTT(40) DEF OneShot, Done, Reach, Gesture, Unlock
    <3>2. MutexIsHeld' /\ ControlIsHeld'
      BY <2>11, SMTT(40) DEF OneShot, Done, Reach, Gesture, Unlock
    <3>3. WriterHasShell' /\ EventReachesPhoneOnce'
      BY <2>11, SMTT(40) DEF OneShot, Done, Reach, Gesture, Unlock
    <3> QED BY <3>1, <3>2, <3>3
  <2>12. CASE OneShotFails(h)
    <3>1. TypeOK'
      BY <2>12, SMTT(40) DEF OneShotFails, Done, Unlock
    <3>2. MutexIsHeld' /\ ControlIsHeld'
      BY <2>12, SMTT(40) DEF OneShotFails, Done, Unlock
    <3>3. WriterHasShell' /\ EventReachesPhoneOnce'
      BY <2>12, SMTT(40) DEF OneShotFails, Done, Unlock
    <3> QED BY <3>1, <3>2, <3>3
  <2> QED BY <1>2, <2>1, <2>2, <2>3, <2>4, <2>5, <2>6, <2>7, <2>8, <2>9, <2>10, <2>11, <2>12,
            <2>13, <2>14, <2>15
             DEF Handle
<1>10. ASSUME NEW h \in Handler, SocketFills(h) \/ SocketFrees(h)
       PROVE  PathInv' /\ EventReachesPhoneOnce'
  <2>1. CASE SocketFills(h)
    BY <2>1, SMTT(30) DEF SocketFills
  <2>2. CASE SocketFrees(h)
    BY <2>2, SMTT(30) DEF SocketFrees
  <2> QED BY <1>10, <2>1, <2>2
<1>3. ASSUME NEW o \in Shell, ShellDies(o)
      PROVE  PathInv' /\ EventReachesPhoneOnce'
  BY <1>3, SMTT(30) DEF ShellDies
<1>4. ASSUME NEW o \in Shell, ShellSticks(o)
      PROVE  PathInv' /\ EventReachesPhoneOnce'
  BY <1>4, SMTT(30) DEF ShellSticks
<1>5. ASSUME NEW o \in Shell, ShellResumes(o)
      PROVE  PathInv' /\ EventReachesPhoneOnce'
  BY <1>5, SMTT(30) DEF ShellResumes
<1>6. CASE BeginRepair
  BY <1>6, SMTT(30) DEF BeginRepair
<1>7. CASE CloseShell
  <2>1. process' \in [Shell -> {"none", "running", "stuck", "dead"}]
    BY <1>7 DEF CloseShell
  <2> QED BY <1>7, <2>1, SMTT(30) DEF CloseShell
<1>8. CASE RepairADB
  BY <1>8, SMTT(30) DEF RepairADB
<1>9. CASE UNCHANGED vars
  BY <1>9, SMTT(30) DEF vars
<1> HIDE DEF PathInv, TypeOK, MutexIsHeld, WriterHasShell, ControlIsHeld, HasMutex, HasShell, Handler, Kind, Down, Shell,
        EventReachesPhoneOnce, handlerVars, pointerVars, shellVars, repairVars
<1> QED BY <1>1, <1>2, <1>3, <1>4, <1>5, <1>6, <1>7, <1>8, <1>9, <1>10, StepCases

(* The mutex of a shell is released on every way out of input, by whoever  *)
(* took it.                                                                *)
THEOREM PathInvariant == Spec => []PathInv
<1>1. Init => PathInv /\ EventReachesPhoneOnce
  BY InitPath
<1>2. PathInv /\ EventReachesPhoneOnce /\ [Next]_vars => PathInv' /\ EventReachesPhoneOnce'
  BY NextPath
<1> QED BY <1>1, <1>2, PTL DEF Spec

(* However many transports and attempts fail, no event reaches the phone   *)
(* twice.                                                                  *)
THEOREM EventsAreNotDoubled == Spec => []EventReachesPhoneOnce
<1>1. Init => PathInv /\ EventReachesPhoneOnce
  BY InitPath
<1>2. PathInv /\ EventReachesPhoneOnce /\ [Next]_vars => PathInv' /\ EventReachesPhoneOnce'
  BY NextPath
<1> QED BY <1>1, <1>2, PTL DEF Spec
-----------------------------------------------------------------------------
(* Only a pointer-down that was accepted has started a gesture.            *)
GesturesArePast == \A d \in Down : gestures[d] > 0 => d <= downs

(* A step that leaves the notes and counts alone, and whose handlers only  *)
(* forget what they took, keeps the promise about gestures.                *)
LEMMA GestureKept ==
  ASSUME TypeOK, GestureStartsOnce, GesturesArePast,
         UNCHANGED pointerVars, TypeOK',
         \A h \in Handler : start'[h] = start[h] \/ start'[h] = None
  PROVE  GestureStartsOnce' /\ GesturesArePast'
<1>1. downs' = downs /\ pointerStart' = pointerStart /\ gestures' = gestures
  BY DEF pointerVars
<1>2. \A d \in Down, h \in Handler : start'[h] = d => start[h] = d
  BY BoundAssumption DEF Down
<1> QED BY <1>1, <1>2 DEF GestureStartsOnce, GesturesArePast

(* A handler that ends with a gesture uses the note it had and forgets it. *)
LEMMA GestureMade ==
  ASSUME TypeOK, GestureStartsOnce, GesturesArePast, NEW h \in Handler,
         Gesture(h), Done(h), UNCHANGED <<downs, pointerStart>>
  PROVE  GestureStartsOnce' /\ GesturesArePast'
<1>1. CASE start[h] = None
  BY <1>1, BoundAssumption DEF TypeOK, GestureStartsOnce, GesturesArePast, Gesture, Done, Down
<1>2. CASE start[h] # None
  <2>1. start[h] \in Down /\ gestures[start[h]] = 0
    BY <1>2 DEF TypeOK, GestureStartsOnce
  <2>2. gestures' = [gestures EXCEPT ![start[h]] = 1]
    BY <1>2, <2>1 DEF Gesture
  <2> QED BY <2>1, <2>2, BoundAssumption
             DEF TypeOK, GestureStartsOnce, GesturesArePast, Done, Down
<1> QED BY <1>1, <1>2

(* Taking the note of a pointer-down, or writing a new one. *)
LEMMA GestureTaken ==
  ASSUME TypeOK, GestureStartsOnce, GesturesArePast,
         NEW h \in Handler, NEW k \in Kind, Capture(h, k)
  PROVE  GestureStartsOnce' /\ GesturesArePast'
<1> USE BoundAssumption
    DEF TypeOK, GestureStartsOnce, GesturesArePast, Down
<1>1. CASE k = "pointer-down"
  BY <1>1 DEF Capture
<1>2. CASE k = "pointer-up"
  BY <1>2 DEF Capture
<1>3. CASE k \notin {"pointer-down", "pointer-up"}
  BY <1>3 DEF Capture
<1> QED BY <1>1, <1>2, <1>3

(* A pointer-down becomes at most one ADB gesture: its note is in one      *)
(* place, and never in one from where it was used.                         *)
THEOREM GesturesAreNotDoubled == Spec => []GestureStartsOnce
<1>1. Init => GestureStartsOnce /\ GesturesArePast
  BY BoundAssumption DEF Init, GestureStartsOnce, GesturesArePast, Down
<1>2. ASSUME PathInv, PathInv', GestureStartsOnce, GesturesArePast, [Next]_vars
      PROVE  GestureStartsOnce' /\ GesturesArePast'
  <2> USE <1>2 DEF PathInv
  <2>1. ASSUME NEW h \in Handler, NEW k \in Kind, Capture(h, k)
        PROVE  GestureStartsOnce' /\ GesturesArePast'
    BY <2>1, GestureTaken
  <2>2. ASSUME NEW h \in Handler, WriteLine(h) \/ OneShot(h)
        PROVE  GestureStartsOnce' /\ GesturesArePast'
    BY <2>2, GestureMade DEF WriteLine, OneShot
  <2>3. ASSUME NEW h \in Handler, Handle(h), ~(WriteLine(h) \/ OneShot(h))
        PROVE  GestureStartsOnce' /\ GesturesArePast'
    <3>1. UNCHANGED pointerVars
      BY <2>3 DEF Handle, TakeStream, LockControl, SendNative, SendFails, NativeFails, Dispatch, Size, SizeFails, Lock, Start,
                  StartFails, WriteFails, OneShotFails, pointerVars
    <3>2. \A g \in Handler : start'[g] = start[g] \/ start'[g] = None
      BY <2>3 DEF Handle, TakeStream, LockControl, SendNative, SendFails, NativeFails, Dispatch, Size, SizeFails, Lock, Start,
                  StartFails, WriteFails, OneShotFails, Done, TypeOK
    <3> QED BY <3>1, <3>2, GestureKept
  <2>4. CASE \/ \E h \in Handler : SocketFills(h) \/ SocketFrees(h)
             \/ \E o \in Shell : ShellDies(o) \/ ShellSticks(o) \/ ShellResumes(o)
             \/ Repair \/ UNCHANGED vars
    <3>1. UNCHANGED pointerVars /\ UNCHANGED start
      BY <2>4 DEF SocketFills, SocketFrees, ShellDies, ShellSticks, ShellResumes, Repair, BeginRepair, CloseShell,
                  RepairADB, vars, handlerVars, pointerVars
    <3> QED BY <3>1, GestureKept
  <2> QED BY <2>1, <2>2, <2>3, <2>4
             DEF Next, HandlePeerControl, HandleControlEvent, Handler
<1>3. Spec => []PathInv
  BY PathInvariant
<1> QED BY <1>1, <1>2, <1>3, PTL DEF Spec
-----------------------------------------------------------------------------
(* A handler has the shell of the map, or one that a repair took from it.  *)
HandsAreKnown ==
  \A h \in Handler : pc[h] \in HasShell =>
    shell[h] <= current /\ (shell[h] < current => shell[h] \in overtaken)

OldShellInv == OldShellsWereOvertaken /\ HandsAreKnown

(* Most steps open no shell and hand none out.                             *)
LEMMA ShellsKept ==
  ASSUME OldShellInv, UNCHANGED repairVars, \A o \in Shell : Alive(o)' => Alive(o),
         \A h \in Handler : pc'[h] \in HasShell => pc[h] \in HasShell /\ shell'[h] = shell[h]
  PROVE  OldShellInv'
<1> USE DEF OldShellInv, repairVars
<1>1. OldShellsWereOvertaken'
  BY DEF OldShellsWereOvertaken
<1>2. HandsAreKnown'
  BY DEF HandsAreKnown
<1> QED BY <1>1, <1>2

(* A shell outside the map that runs was opened again by an event that had *)
(* it in hand when the repair came.                                        *)
THEOREM OldShellsAreKnown == Spec => []OldShellsWereOvertaken
<1>1. Init => OldShellInv
  BY BoundAssumption DEF Init, OldShellInv, OldShellsWereOvertaken, HandsAreKnown,
                         Shell, HasShell, Alive
<1>2. ASSUME PathInv, PathInv', OldShellInv, [Next]_vars
      PROVE  OldShellInv'
  <2> USE <1>2, BoundAssumption
      DEF OldShellInv, OldShellsWereOvertaken, HandsAreKnown,
          PathInv, TypeOK, Shell, HasShell, Alive, shellVars, repairVars, handlerVars
  <2>1. ASSUME NEW h \in Handler, NEW k \in Kind, Capture(h, k)
        PROVE  OldShellInv'
    BY <2>1, SMTT(30) DEF Capture
  <2>2. ASSUME NEW h \in Handler, Handle(h)
        PROVE  OldShellInv'
    <3>1. CASE SendNative(h)
      <4>1. UNCHANGED repairVars /\ UNCHANGED process
        BY <3>1 DEF SendNative
      <4>2. \A g \in Handler : pc'[g] \in HasShell => pc[g] \in HasShell /\ shell'[g] = shell[g]
        BY <3>1 DEF SendNative, Done
      <4> QED BY <4>1, <4>2, ShellsKept
    <3>2. CASE NativeFails(h)
      BY <3>2, SMTT(30) DEF NativeFails
    <3>13. CASE TakeStream(h) \/ LockControl(h) \/ SendFails(h)
      <4>1. UNCHANGED repairVars /\ UNCHANGED process
        BY <3>13 DEF TakeStream, LockControl, SendFails
      <4>2. \A g \in Handler : pc'[g] \in HasShell => pc[g] \in HasShell /\ shell'[g] = shell[g]
        BY <3>13 DEF TakeStream, LockControl, SendFails
      <4> QED BY <4>1, <4>2, ShellsKept
    <3>3. CASE Dispatch(h)
      <4>1. UNCHANGED shellVars /\ UNCHANGED repairVars
        BY <3>3 DEF Dispatch
      <4>2. \A g \in Handler : g # h => pc'[g] = pc[g] /\ shell'[g] = shell[g]
        BY <3>3 DEF Dispatch, Done
      <4>3. pc'[h] = "idle" \/ shell'[h] = current
        BY <3>3 DEF Dispatch, Done
      <4>4. OldShellsWereOvertaken'
        BY <4>1
      <4>5. HandsAreKnown'
        <5>1. SUFFICES ASSUME NEW g \in Handler, pc'[g] \in HasShell
                       PROVE  /\ shell'[g] <= current
                              /\ shell'[g] < current => shell'[g] \in overtaken
          BY <4>1
        <5>2. CASE g = h
          BY <4>3, <5>1, <5>2, SMTT(30)
        <5>3. CASE g # h
          BY <4>2, <5>1, <5>3
        <5> QED BY <5>2, <5>3
      <4> QED BY <4>4, <4>5
    <3>4. CASE Size(h)
      BY <3>4, SMTT(30) DEF Size
    <3>12. CASE SizeFails(h)
      <4>1. UNCHANGED repairVars /\ UNCHANGED process
        BY <3>12 DEF SizeFails
      <4>2. \A g \in Handler : pc'[g] \in HasShell => pc[g] \in HasShell /\ shell'[g] = shell[g]
        BY <3>12 DEF SizeFails, Done
      <4> QED BY <4>1, <4>2, ShellsKept
    <3>5. CASE Lock(h)
      BY <3>5, SMTT(30) DEF Lock
    <3>6. CASE Start(h)
      BY <3>6, SMTT(30) DEF Start
    <3>7. CASE StartFails(h)
      BY <3>7, SMTT(30) DEF StartFails
    <3>8. CASE WriteLine(h)
      <4>1. UNCHANGED repairVars /\ UNCHANGED process
        BY <3>8 DEF WriteLine
      <4>2. \A g \in Handler : pc'[g] \in HasShell => pc[g] \in HasShell /\ shell'[g] = shell[g]
        BY <3>8 DEF WriteLine, Done
      <4> QED BY <4>1, <4>2, ShellsKept
    <3>9. CASE WriteFails(h)
      BY <3>9, SMTT(30) DEF WriteFails
    <3>10. CASE OneShot(h)
      <4>1. UNCHANGED repairVars /\ UNCHANGED process
        BY <3>10 DEF OneShot
      <4>2. \A g \in Handler : pc'[g] \in HasShell => pc[g] \in HasShell /\ shell'[g] = shell[g]
        BY <3>10 DEF OneShot, Done
      <4> QED BY <4>1, <4>2, ShellsKept
    <3>11. CASE OneShotFails(h)
      <4>1. UNCHANGED repairVars /\ UNCHANGED process
        BY <3>11 DEF OneShotFails
      <4>2. \A g \in Handler : pc'[g] \in HasShell => pc[g] \in HasShell /\ shell'[g] = shell[g]
        BY <3>11 DEF OneShotFails, Done
      <4> QED BY <4>1, <4>2, ShellsKept
    <3> QED BY <2>2, <3>1, <3>2, <3>3, <3>4, <3>5, <3>6, <3>7, <3>8, <3>9, <3>10, <3>11, <3>12, <3>13
               DEF Handle
  <2>8. ASSUME NEW h \in Handler, SocketFills(h) \/ SocketFrees(h)
        PROVE  OldShellInv'
    <3>1. UNCHANGED repairVars /\ UNCHANGED process
      BY <2>8 DEF SocketFills, SocketFrees
    <3>2. \A g \in Handler : pc'[g] \in HasShell => pc[g] \in HasShell /\ shell'[g] = shell[g]
      BY <2>8 DEF SocketFills, SocketFrees
    <3> QED BY <3>1, <3>2, ShellsKept
  <2>3. ASSUME NEW o \in Shell, ShellDies(o) \/ ShellSticks(o) \/ ShellResumes(o)
        PROVE  OldShellInv'
    <3>1. UNCHANGED handlerVars /\ UNCHANGED repairVars
      BY <2>3 DEF ShellDies, ShellSticks, ShellResumes
    <3>2. \A p \in Shell : Alive(p)' => Alive(p)
      BY <2>3 DEF ShellDies, ShellSticks, ShellResumes
    <3> QED BY <3>1, <3>2
  <2>4. CASE BeginRepair
    BY <2>4, SMTT(30) DEF BeginRepair
  <2>5. CASE CloseShell
    BY <2>5, SMTT(30) DEF CloseShell
  <2>6. CASE RepairADB
    BY <2>6, SMTT(30) DEF RepairADB
  <2>7. CASE UNCHANGED vars
    BY <2>7, SMTT(30) DEF vars
  <2> QED BY <2>1, <2>2, <2>3, <2>4, <2>5, <2>6, <2>7, <2>8
             DEF Next, Repair, HandlePeerControl, HandleControlEvent, Handler
<1>3. OldShellInv => OldShellsWereOvertaken
  BY DEF OldShellInv
<1>4. Spec => []PathInv
  BY PathInvariant
<1> QED BY <1>1, <1>2, <1>3, <1>4, PTL DEF Spec

(* Two handlers, or a handler and a repair, never wait for each other,     *)
(* whatever adb does; this is what EventsAreAnswered and RepairEnds need    *)
(* besides fairness.                                                       *)
THEOREM NobodyWaitsInCircle == Spec => []OnlyPhoneBlocks
<1>1. PathInv => OnlyPhoneBlocks
  <2> SUFFICES ASSUME PathInv PROVE OnlyPhoneBlocks
    OBVIOUS
  <2> USE DEF PathInv
  <2>1. ASSUME NEW o \in Shell PROVE WaitEnds(o)
    <3>1. CASE mutex[o] = None
      BY <3>1 DEF WaitEnds
    <3>2. CASE mutex[o] # None
      <4>1. PICK g \in Handler : mutex[o] = g
        BY <3>2 DEF TypeOK
      <4>2. pc[g] \in HasMutex /\ shell[g] = o
        BY <4>1 DEF MutexIsHeld
      <4>3. pc[g] = "writing" => process[o] \in {"running", "stuck", "dead"}
        BY <4>2 DEF WriterHasShell, TypeOK
      <4> QED BY <4>1, <4>2, <4>3 DEF WaitEnds, CanGoOn, HasMutex
    <3> QED BY <3>1, <3>2
  <2>2. \A h \in Handler : shell[h] \in Shell
    BY DEF TypeOK
  <2>3. repair = "closing" => current - 1 \in Shell
    BY BoundAssumption DEF TypeOK, Shell
  <2>4. ControlWaitEnds
    <3>1. SUFFICES ASSUME controlMu # None PROVE pc[controlMu] = "stalled" \/ CanGoOn(controlMu)
      BY DEF ControlWaitEnds
    <3>2. controlMu \in Handler /\ pc[controlMu] \in {"sending", "stalled"}
      BY <3>1 DEF TypeOK, ControlIsHeld
    <3> QED BY <3>2 DEF CanGoOn
  <2> QED BY <2>1, <2>2, <2>3, <2>4 DEF OnlyPhoneBlocks
<1> QED BY <1>1, PathInvariant, PTL
=============================================================================
