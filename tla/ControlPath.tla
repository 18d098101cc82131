---------------------------- MODULE ControlPath ----------------------------
(***************************************************************************)
(* How a control event reaches the phone: accepted under the server's      *)
(* mutex by handleControlEvent (HTTP) or handlePeerControl (data channel), *)
(* offered to the scrcpy stream, and else put into the device's persistent *)
(* ADB shell or, when that fails, into a one-shot adb command (control.go);*)
(* meanwhile the owner may repair ADB, which closes the shells.            *)
(*                                                                         *)
(* Who may send events is ShareLease; when a stream is there is VideoPump: *)
(* here there may be one or none whenever an event looks for it, and its   *)
(* control socket may fail at any write. There is one device, as the       *)
(* server shares one at a time.                                            *)
(***************************************************************************)
EXTENDS Naturals

CONSTANTS Request,   \* concurrent HTTP control requests
          Channel,   \* the goroutine that hands over the data channel's messages
          None,      \* no goroutine, no pointer
          MaxDown,   \* bound: pointer-downs
          MaxRepair  \* bound: ADB repairs

ASSUME HandlerAssumption == Channel \notin Request /\ None \notin Request \cup {Channel}
ASSUME BoundAssumption == MaxDown \in Nat /\ MaxRepair \in Nat /\ None \notin Nat

Handler == Request \cup {Channel}
(* The others are moves, scrolls, keys and system events. *)
Kind == {"pointer-down", "pointer-up", "other"}
Down == 1..MaxDown
(* The adbControlShell objects, one per repair: the entry of               *)
(* server.controllers is made on demand, and an object nobody has used is  *)
(* as good as none.                                                        *)
Shell == 0..MaxRepair

VARIABLES
  pc,           \* where each handler is
  kind,         \* of its event, until it is dispatched
  start,        \* the pointerStart it took
  shell,        \* the shell object it was given
  attempt,      \* the attempt of input it is in
  reached,      \* how often its event was handed to the phone
  downs,        \* how many pointer-downs were accepted
  pointerStart, \* Session.pointerStart: which of them
  gestures,     \* per pointer-down, the ADB gestures that started there
  current,      \* the object in server.controllers
  process,      \* per object, its adb process: none, running, stuck, dead
  mutex,        \* per object, who holds its mu
  repair,       \* handleRepairADB: idle, closing, restarting
  overtaken,    \* objects in the hands of a handler when a repair dropped them
  controlMu     \* who holds the mutex of the stream's control socket

handlerVars == <<pc, kind, start, shell, attempt, reached>>
pointerVars == <<downs, pointerStart, gestures>>
shellVars == <<process, mutex>>
repairVars == <<current, repair, overtaken>>
vars == <<handlerVars, pointerVars, shellVars, repairVars, controlMu>>

HasShell == {"size", "input", "starting", "writing", "one-shot"}
HasMutex == {"starting", "writing", "one-shot"}
Alive(o) == process[o] \in {"running", "stuck"}

Init ==
  /\ pc = [h \in Handler |-> "idle"] /\ kind = [h \in Handler |-> "other"]
  /\ start = [h \in Handler |-> None] /\ shell = [h \in Handler |-> 0]
  /\ attempt = [h \in Handler |-> 1] /\ reached = [h \in Handler |-> 0]
  /\ downs = 0 /\ pointerStart = None /\ gestures = [d \in Down |-> 0]
  /\ process = [o \in Shell |-> "none"] /\ mutex = [o \in Shell |-> None]
  /\ current = 0 /\ repair = "idle" /\ overtaken = {}
  /\ controlMu = None
-----------------------------------------------------------------------------
(* Variant: the pointer-up reads the note and leaves it. *)
CaptureKeepsStart(h, k) ==
  /\ pc[h] = "idle"
  /\ pc' = [pc EXCEPT ![h] = "native"]
  /\ kind' = [kind EXCEPT ![h] = k]
  /\ reached' = [reached EXCEPT ![h] = 0]
  /\ start' = [start EXCEPT ![h] = IF k = "pointer-up" THEN pointerStart ELSE None]
  /\ k = "pointer-down" => downs < MaxDown
  /\ downs' = IF k = "pointer-down" THEN downs + 1 ELSE downs
  /\ pointerStart' = IF k = "pointer-down" THEN downs + 1 ELSE pointerStart
  /\ UNCHANGED <<shell, attempt, gestures, shellVars, repairVars, controlMu>>

(* The critical section both handlers share: a pointer-down is noted in    *)
(* the session, a pointer-up takes the note away.                          *)
Capture(h, k) ==
  /\ pc[h] = "idle"
  /\ pc' = [pc EXCEPT ![h] = "native"]
  /\ kind' = [kind EXCEPT ![h] = k]
  /\ reached' = [reached EXCEPT ![h] = 0]
  /\ start' = [start EXCEPT ![h] = IF k = "pointer-up" THEN pointerStart ELSE None]
  /\ k = "pointer-down" => downs < MaxDown
  /\ downs' = IF k = "pointer-down" THEN downs + 1 ELSE downs
  /\ pointerStart' = IF k = "pointer-down" THEN downs + 1
                     ELSE IF k = "pointer-up" THEN None ELSE pointerStart
  /\ UNCHANGED <<shell, attempt, gestures, shellVars, repairVars, controlMu>>

(* HTTP events of one page are not awaited: they run side by side. *)
HandleControlEvent(r) == \E k \in Kind : Capture(r, k)

(* pion hands over the messages of a data channel one by one. *)
HandlePeerControl == \E k \in Kind : Capture(Channel, k)
-----------------------------------------------------------------------------
(* The handler returns, and what it had in hand is gone. *)
Done(h) ==
  /\ pc' = [pc EXCEPT ![h] = "idle"] /\ start' = [start EXCEPT ![h] = None]
  /\ kind' = [kind EXCEPT ![h] = "other"] /\ shell' = [shell EXCEPT ![h] = 0]
  /\ attempt' = [attempt EXCEPT ![h] = 1]

(* The event is in the phone's hands. *)
Reach(h) == reached' = [reached EXCEPT ![h] = @ + 1]

(* sendNativeControl: the stream of the peer, if it has one. *)
TakeStream(h) ==
  /\ pc[h] = "native"
  /\ pc' = [pc EXCEPT ![h] = "control"]
  /\ UNCHANGED <<kind, start, shell, attempt, reached, pointerVars, shellVars, repairVars, controlMu>>

(* There is no peer, no stream or no video size yet. *)
NativeFails(h) ==
  /\ pc[h] = "native"
  /\ pc' = [pc EXCEPT ![h] = "dispatch"]
  /\ UNCHANGED <<kind, start, shell, attempt, reached, pointerVars, shellVars, repairVars, controlMu>>

(* sendControl holds the mutex of the control socket over its write. close *)
(* takes it too, so that the pump opens no other stream, with a mutex of   *)
(* its own, while an event is being written into the old one.              *)
LockControl(h) ==
  /\ pc[h] = "control" /\ controlMu = None
  /\ pc' = [pc EXCEPT ![h] = "sending"] /\ controlMu' = h
  /\ UNCHANGED <<kind, start, shell, attempt, reached, pointerVars, shellVars, repairVars>>

(* Variant: the handler goes on after the stream has taken the event. *)
SendNativeGoesOn(h) ==
  /\ pc[h] = "sending"
  /\ pc' = [pc EXCEPT ![h] = "dispatch"] /\ Reach(h) /\ controlMu' = None
  /\ UNCHANGED <<kind, start, shell, attempt, pointerVars, shellVars, repairVars>>

SendNative(h) ==
  /\ pc[h] = "sending"
  /\ Done(h) /\ Reach(h) /\ controlMu' = None
  /\ UNCHANGED <<pointerVars, shellVars, repairVars>>

(* Variant: the error returns with the mutex held. *)
SendFailsLocked(h) ==
  /\ pc[h] = "sending"
  /\ pc' = [pc EXCEPT ![h] = "dispatch"]
  /\ UNCHANGED <<kind, start, shell, attempt, reached, pointerVars, shellVars, repairVars, controlMu>>

(* The stream was closed meanwhile and has no control socket, or the write *)
(* fails; a message written in part is none to scrcpy.                     *)
SendFails(h) ==
  /\ pc[h] = "sending"
  /\ pc' = [pc EXCEPT ![h] = "dispatch"] /\ controlMu' = None
  /\ UNCHANGED <<kind, start, shell, attempt, reached, pointerVars, shellVars, repairVars>>

(* External: the phone does not read and the buffer of the socket is full: *)
(* the write, which has no deadline, waits with the mutex held.            *)
SocketFills(h) ==
  /\ pc[h] = "sending" /\ pc' = [pc EXCEPT ![h] = "stalled"]
  /\ UNCHANGED <<kind, start, shell, attempt, reached, pointerVars, shellVars, repairVars, controlMu>>

(* External: the phone reads on, or scrcpy's server or adb ends and the    *)
(* write with it.                                                          *)
SocketFrees(h) ==
  /\ pc[h] = "stalled" /\ pc' = [pc EXCEPT ![h] = "sending"]
  /\ UNCHANGED <<kind, start, shell, attempt, reached, pointerVars, shellVars, repairVars, controlMu>>
-----------------------------------------------------------------------------
(* dispatchControl: a pointer-down waits for its pointer-up, and to a move  *)
(* or an unknown key ADB has no answer. A pointer-up and a scroll need the  *)
(* size of the screen.                                                     *)
Dispatch(h) ==
  /\ pc[h] = "dispatch"
  /\ \/ kind[h] # "pointer-up" /\ Done(h)
     \/ \E where \in {"size", "input"} :
          /\ kind[h] = "other" \/ (kind[h] = "pointer-up" /\ where = "size")
          /\ pc' = [pc EXCEPT ![h] = where] /\ kind' = [kind EXCEPT ![h] = "other"]
          /\ shell' = [shell EXCEPT ![h] = current] /\ UNCHANGED <<start, attempt>>
  /\ UNCHANGED <<reached, pointerVars, shellVars, repairVars, controlMu>>

(* screenSize: from the cache under the mutex, or measured outside of it   *)
(* and stored under it.                                                    *)
Size(h) ==
  /\ pc[h] = "size" /\ mutex[shell[h]] = None
  /\ pc' = [pc EXCEPT ![h] = "input"]
  /\ UNCHANGED <<kind, start, shell, attempt, reached, pointerVars, shellVars, repairVars, controlMu>>

SizeFails(h) ==
  /\ pc[h] = "size" /\ mutex[shell[h]] = None
  /\ Done(h)
  /\ UNCHANGED <<reached, pointerVars, shellVars, repairVars, controlMu>>
-----------------------------------------------------------------------------
(* input takes the mutex of the shell and keeps it to its end. *)
Lock(h) ==
  /\ pc[h] = "input" /\ mutex[shell[h]] = None
  /\ pc' = [pc EXCEPT ![h] = "starting"]
  /\ mutex' = [mutex EXCEPT ![shell[h]] = h]
  /\ UNCHANGED <<kind, start, shell, attempt, reached, pointerVars, process, repairVars, controlMu>>

(* startLocked: a process that was started, alive or not, is kept. *)
Start(h) ==
  /\ pc[h] = "starting"
  /\ process' = IF process[shell[h]] = "none"
                THEN [process EXCEPT ![shell[h]] = "running"] ELSE process
  /\ pc' = [pc EXCEPT ![h] = "writing"]
  /\ UNCHANGED <<kind, start, shell, attempt, reached, pointerVars, mutex, repairVars, controlMu>>

StartFails(h) ==
  /\ pc[h] = "starting" /\ process[shell[h]] = "none"
  /\ pc' = [pc EXCEPT ![h] = "one-shot"]
  /\ UNCHANGED <<kind, start, shell, attempt, reached, pointerVars, shellVars, repairVars, controlMu>>

(* An ADB gesture from the pointer-down taken, or from none: a tap. *)
Gesture(h) ==
  gestures' = IF start[h] = None THEN gestures ELSE [gestures EXCEPT ![start[h]] = @ + 1]

Unlock(h) == mutex' = [mutex EXCEPT ![shell[h]] = None]

(* The pipe of a stuck shell is full: the write waits. *)
WriteLine(h) ==
  /\ pc[h] = "writing" /\ process[shell[h]] = "running"
  /\ Done(h) /\ Reach(h) /\ Gesture(h) /\ Unlock(h)
  /\ UNCHANGED <<downs, pointerStart, process, repairVars, controlMu>>

(* Variant: the loop tries until it succeeds. *)
WriteFailsForEver(h) ==
  /\ pc[h] = "writing" /\ process[shell[h]] = "dead"
  /\ process' = [process EXCEPT ![shell[h]] = "none"]
  /\ attempt' = [attempt EXCEPT ![h] = 2]
  /\ pc' = [pc EXCEPT ![h] = "starting"]
  /\ UNCHANGED <<kind, start, shell, reached, pointerVars, mutex, repairVars, controlMu>>

(* The process has ended: stopLocked, then the second attempt or the end   *)
(* of the loop.                                                            *)
WriteFails(h) ==
  /\ pc[h] = "writing" /\ process[shell[h]] = "dead"
  /\ process' = [process EXCEPT ![shell[h]] = "none"]
  /\ attempt' = [attempt EXCEPT ![h] = 2]
  /\ pc' = [pc EXCEPT ![h] = IF attempt[h] = 1 THEN "starting" ELSE "one-shot"]
  /\ UNCHANGED <<kind, start, shell, reached, pointerVars, mutex, repairVars, controlMu>>

(* Variant: an error returns with the mutex held. *)
OneShotFailsLocked(h) ==
  /\ pc[h] = "one-shot"
  /\ Done(h)
  /\ UNCHANGED <<reached, pointerVars, shellVars, repairVars, controlMu>>

(* adbInput, 3 s at most, with the mutex still held. *)
OneShot(h) ==
  /\ pc[h] = "one-shot"
  /\ Done(h) /\ Reach(h) /\ Gesture(h) /\ Unlock(h)
  /\ UNCHANGED <<downs, pointerStart, process, repairVars, controlMu>>

OneShotFails(h) ==
  /\ pc[h] = "one-shot"
  /\ Done(h) /\ Unlock(h)
  /\ UNCHANGED <<reached, pointerVars, process, repairVars, controlMu>>
-----------------------------------------------------------------------------
(* External: adb and the phone. The process of a shell ends when its       *)
(* transport does, it stops reading while the phone does not answer, and   *)
(* reads on.                                                               *)
ShellDies(o) ==
  /\ Alive(o) /\ process' = [process EXCEPT ![o] = "dead"]
  /\ UNCHANGED <<handlerVars, pointerVars, mutex, repairVars, controlMu>>

ShellSticks(o) ==
  /\ process[o] = "running" /\ process' = [process EXCEPT ![o] = "stuck"]
  /\ UNCHANGED <<handlerVars, pointerVars, mutex, repairVars, controlMu>>

ShellResumes(o) ==
  /\ process[o] = "stuck" /\ process' = [process EXCEPT ![o] = "running"]
  /\ UNCHANGED <<handlerVars, pointerVars, mutex, repairVars, controlMu>>
-----------------------------------------------------------------------------
(* Variant: the old map is dropped and nothing in it closed. *)
BeginRepairDropsMap ==
  /\ repair = "idle" /\ current < MaxRepair
  /\ current' = current + 1 /\ repair' = "restarting"
  /\ overtaken' = IF \E h \in Handler : pc[h] \in HasShell /\ shell[h] = current
                  THEN overtaken \cup {current} ELSE overtaken
  /\ UNCHANGED <<handlerVars, pointerVars, shellVars, controlMu>>

(* handleRepairADB, one at a time: closeControlShells puts a new map in    *)
(* place of the old one, then closes what the old one held.                *)
BeginRepair ==
  /\ repair = "idle" /\ current < MaxRepair
  /\ current' = current + 1 /\ repair' = "closing"
  /\ overtaken' = IF \E h \in Handler : pc[h] \in HasShell /\ shell[h] = current
                  THEN overtaken \cup {current} ELSE overtaken
  /\ UNCHANGED <<handlerVars, pointerVars, shellVars, controlMu>>

(* close waits for the mutex of the shell. *)
CloseShell ==
  /\ repair = "closing" /\ mutex[current - 1] = None
  /\ process' = [process EXCEPT ![current - 1] = "none"]
  /\ repair' = "restarting"
  /\ UNCHANGED <<handlerVars, pointerVars, mutex, current, overtaken, controlMu>>

(* repairADB: stopping the ADB server ends every adb process; it may fail. *)
RepairADB ==
  /\ repair = "restarting" /\ repair' = "idle"
  /\ \/ process' = [o \in Shell |-> IF Alive(o) THEN "dead" ELSE process[o]]
     \/ UNCHANGED process
  /\ UNCHANGED <<handlerVars, pointerVars, mutex, current, overtaken, controlMu>>
-----------------------------------------------------------------------------
Handle(h) ==
  \/ TakeStream(h) \/ NativeFails(h) \/ LockControl(h) \/ SendNative(h) \/ SendFails(h)
  \/ Dispatch(h) \/ Size(h) \/ SizeFails(h)
  \/ Lock(h) \/ Start(h) \/ StartFails(h)
  \/ WriteLine(h) \/ WriteFails(h) \/ OneShot(h) \/ OneShotFails(h)

Repair == BeginRepair \/ CloseShell \/ RepairADB

Next ==
  \/ HandlePeerControl
  \/ \E r \in Request : HandleControlEvent(r)
  \/ \E h \in Handler : Handle(h)
  \/ \E o \in Shell : ShellDies(o) \/ ShellSticks(o) \/ ShellResumes(o)
  \/ \E h \in Handler : SocketFills(h) \/ SocketFrees(h)
  \/ Repair

Spec == Init /\ [][Next]_vars

(* A handler that can go on does, and a sync.Mutex passes no waiter over   *)
(* for ever. Every adb command has a time limit, the writes into the shell *)
(* and into the control socket have none: that a stuck shell and a full    *)
(* socket are read from again or end are assumptions about adb and the     *)
(* phone, and the code has nothing of its own in their place.              *)
Fairness ==
  /\ \A h \in Handler : SF_vars(Handle(h))
  /\ SF_vars(CloseShell) /\ WF_vars(RepairADB)
  /\ \A o \in Shell : WF_vars(ShellResumes(o) \/ ShellDies(o))
  /\ \A h \in Handler : WF_vars(SocketFrees(h))

FairSpec == Spec /\ Fairness
-----------------------------------------------------------------------------
TypeOK ==
  /\ pc \in [Handler -> {"idle", "native", "control", "sending", "stalled", "dispatch"} \cup HasShell]
  /\ kind \in [Handler -> Kind] /\ start \in [Handler -> Down \cup {None}]
  /\ shell \in [Handler -> Shell] /\ attempt \in [Handler -> 1..2]
  /\ reached \in [Handler -> Nat]
  /\ downs \in 0..MaxDown /\ pointerStart \in Down \cup {None} /\ gestures \in [Down -> Nat]
  /\ process \in [Shell -> {"none", "running", "stuck", "dead"}]
  /\ mutex \in [Shell -> Handler \cup {None}]
  /\ current \in Shell /\ repair \in {"idle", "closing", "restarting"} /\ overtaken \subseteq Shell
  /\ repair = "closing" => current > 0
  /\ controlMu \in Handler \cup {None}

(* The mutex of a shell is with the handler that is inside its input, and  *)
(* only with that one: an error on the way never leaves it locked.         *)
MutexIsHeld ==
  \A o \in Shell, h \in Handler : mutex[o] = h <=> pc[h] \in HasMutex /\ shell[h] = o

(* The shell a handler writes into is not taken away under its hands: once *)
(* startLocked has returned, the process, alive or dead, stays until that  *)
(* handler gives it up, whichever repair closes shells meanwhile. So a     *)
(* handler inside input waits for nothing but a phone that does not read.  *)
WriterHasShell == \A h \in Handler : pc[h] = "writing" => process[shell[h]] # "none"

(* And so is the mutex of the control socket. *)
ControlIsHeld == \A h \in Handler : controlMu = h <=> pc[h] \in {"sending", "stalled"}

PathInv == TypeOK /\ MutexIsHeld /\ WriterHasShell /\ ControlIsHeld

(* Stream, shell, second attempt and one-shot command are alternatives:    *)
(* whichever of them fail, an event reaches the phone at most once.        *)
EventReachesPhoneOnce ==
  \A h \in Handler : reached[h] <= (IF pc[h] = "idle" THEN 1 ELSE 0)

(* A pointer-down becomes one gesture at most, whichever pointer-ups cross *)
(* on their way from the two transports: where the note of it is, in the   *)
(* session or in one handler's hands, it has not been used.                *)
GestureStartsOnce ==
  \A d \in Down :
    /\ gestures[d] <= 1
    /\ pointerStart = d => gestures[d] = 0 /\ d <= downs
    /\ \A h \in Handler : start[h] = d =>
         /\ gestures[d] = 0 /\ pointerStart # d /\ d <= downs
         /\ \A g \in Handler : start[g] = d => g = h

(* A repair leaves a shell of the old map running only through an event    *)
(* that already had the shell in hand: that event opens it again, and no   *)
(* later repair finds it.                                                  *)
OldShellsWereOvertaken ==
  \A o \in Shell : o < current /\ Alive(o) =>
    o \in overtaken \/ (repair = "closing" /\ o = current - 1)

(* What no interleaving can bring about, whatever adb does: two handlers,  *)
(* or a handler and a repair, that wait for each other. Whoever waits for  *)
(* a mutex, of a shell or of the control socket (the pump, that closes the *)
(* stream, among them), waits for a handler that can go on, or for a phone *)
(* that does not read.                                                     *)
CanGoOn(h) ==
  /\ pc[h] = "control" => controlMu = None
  /\ pc[h] # "stalled"
  /\ pc[h] \in {"size", "input"} => mutex[shell[h]] = None
  /\ pc[h] = "writing" => process[shell[h]] \in {"running", "dead"}

WaitEnds(o) ==
  \/ mutex[o] = None \/ process[o] = "stuck"
  \/ \E g \in Handler : mutex[o] = g /\ CanGoOn(g)

ControlWaitEnds ==
  controlMu # None => pc[controlMu] = "stalled" \/ CanGoOn(controlMu)

OnlyPhoneBlocks ==
  /\ ControlWaitEnds
  /\ \A h \in Handler : pc[h] \in HasShell => CanGoOn(h) \/ WaitEnds(shell[h])
  /\ repair = "closing" => WaitEnds(current - 1)

(* Every event accepted is answered, as long as the phone reads on or the  *)
(* connection to it ends: nobody waits for ever on the mutex of a shell or *)
(* of the control socket.                                                  *)
EventsAreAnswered == \A h \in Handler : pc[h] = "native" ~> pc[h] = "idle"

(* A repair ends, with events still coming in. *)
RepairEnds == repair = "closing" ~> repair = "idle"
=============================================================================
