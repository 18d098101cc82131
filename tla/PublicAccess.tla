---------------------------- MODULE PublicAccess ----------------------------
(***************************************************************************)
(* The public address of PhoneBridge: PublicAccessManager in               *)
(* public_access.go, and in server.go the UDP endpoint that                *)
(* ensurePublicICE advertises to the viewers' browsers.                    *)
(*                                                                         *)
(* The owner saves settings; goroutines (the 15 s loop, the owner page, a  *)
(* sign-in) synchronise them with the local 88FRP client, which is asked   *)
(* over HTTP between the critical sections; another one looks for the UDP  *)
(* mapping every 30 s and after each of these. A node of 88FRP gives both  *)
(* the address of the share links and the host of the UDP mapping, so one  *)
(* number stands for both; nodes are numbered in the order 88FRP moves to  *)
(* them. 88FRP itself, and the network behind it, are the environment.     *)
(***************************************************************************)
EXTENDS Naturals

CONSTANTS Saver,     \* requests that save settings
          Syncer,    \* goroutines that synchronise
          Ice,       \* the caller of ensurePublicICE that holds iceMu
          None,      \* no address
          Own,       \* the address the owner typed
          Broken,    \* a settings file that does not parse
          MaxSave,   \* bound on saves
          MaxMove,   \* bound on node changes
          MaxFault   \* bound on crashes, failed writes, changes of 88FRP and moves

ASSUME ProcAssumption == Ice \notin Saver \cup Syncer /\ Saver \cap Syncer = {}
ASSUME AddressAssumption == None \notin Nat /\ Own \notin Nat /\ Own # None
ASSUME BoundAssumption == MaxMove \in Nat

VARIABLES
  memory,  \* snapshot.Settings
  shown,   \* snapshot.EffectiveURL and State
  file,    \* settings.json
  probe,   \* probeID is not empty
  task,    \* where each goroutine is, with the local variables it still needs
  ice,     \* icePublicHost and iceUDPFresh
  frp,     \* 88FRP: up, down, or up without the chosen tunnel
  node,    \* the node 88FRP's subscription is on
  owner,   \* history: the choice the owner saved last
  calm,    \* history: nothing copied or fetched before that save was under way
           \* at it, and no crash lost it or cut the file off since
  written, \* history: that save has reached the disk
  saves, faults

Proc == Saver \cup Syncer \cup {Ice}
snapshotVars == <<memory, shown>>
frpVars == <<frp, node>>
historyVars == <<owner, calm, written>>
vars == <<snapshotVars, file, probe, task, ice, frpVars, historyVars, saves, faults>>

(* What the owner chose: no address, an address of their own, 88FRP with    *)
(* instance or tunnel still open, or a tunnel of 88FRP.                     *)
Choice == {"local", "manual", "unfinished", "tunnel"}
From88FRP == {"unfinished", "tunnel"}
Node == 0..MaxMove
Address == Node \cup {None, Own}
Settings == [choice : Choice, last : Node \cup {None}, udp : Node \cup {None}]
State == {"local", "manual-ready", "frp-pending", "frp-needs-choice", "frp-error",
          "frp-stale-ready", "frp-unreachable", "frp-ready"}
Shown == [url : Address, state : State]

ASSUME BrokenAssumption == Broken \notin Settings

Default == [choice |-> "local", last |-> None, udp |-> None]
Unset == [url |-> None, state |-> "local"]
Chosen(s) == IF s.choice = "manual" THEN [url |-> Own, state |-> "manual-ready"] ELSE Unset

(* copy: the local variable settings; verdict: what is going to be shown;  *)
(* found: the address to probe, or the mapping 88FRP answered.             *)
At(where) == [pc |-> where, copy |-> Default, verdict |-> Unset, found |-> None]
Idle == At("idle")
Publishing(copy, url, state) ==
  [At("publish") EXCEPT !.copy = copy, !.verdict = [url |-> url, state |-> state]]
Goto(p, t) == task' = [task EXCEPT ![p] = t]
In(p, where) == task[p].pc = where
-----------------------------------------------------------------------------
(* load: an address of 88FRP that worked before is offered again. A file   *)
(* that does not parse is left as it is and leaves the probe ID empty.     *)
Restored(s) ==
  IF s.choice \in From88FRP /\ s.last # None
  THEN [url |-> s.last, state |-> "frp-stale-ready"]
  ELSE Chosen(s)

Load(f) ==
  /\ memory' = IF f = Broken THEN Default ELSE f
  /\ shown' = Restored(memory')
  /\ probe' = (f # Broken)
  /\ file' = f
  /\ task' = [p \in Proc |-> Idle]
  /\ ice' = [host |-> None, fresh |-> FALSE]
  /\ calm' = (calm /\ written /\ f # Broken)
  /\ UNCHANGED <<owner, written>>

(* The first start of all, or one after a synchronisation with node 0.      *)
Init ==
  /\ file \in {Default, [choice |-> "tunnel", last |-> 0, udp |-> 0]}
  /\ memory = file /\ shown = Restored(file) /\ probe = TRUE
  /\ task = [p \in Proc |-> Idle]
  /\ ice = [host |-> None, fresh |-> FALSE]
  /\ frp \in {"up", "down"} /\ node = 0
  /\ owner = file.choice /\ calm = TRUE /\ written = TRUE
  /\ saves = 0 /\ faults = 0
-----------------------------------------------------------------------------
(* Save: the recovery state, which the form does not submit, is taken from *)
(* the settings in memory. A choice of the owner's own address drops it.   *)
SaveBegin(p, choice) ==
  /\ In(p, "idle") /\ saves < MaxSave
  /\ saves' = saves + 1
  /\ Goto(p, [At("save") EXCEPT !.copy = [IF choice \in From88FRP THEN memory ELSE Default
                                          EXCEPT !.choice = choice]])
  /\ UNCHANGED <<snapshotVars, file, probe, ice, frpVars, historyVars, faults>>

(* A goroutine is going to publish settings or an address it got before:   *)
(* a synchronisation until it ends, a discovery while it writes the file.  *)
Carries(p) ==
  \/ task[p].pc \in {"savewrite", "fetch", "probe", "write", "udpwrite", "reread", "publish"}
  \/ p # Ice /\ task[p].pc \in {"discover", "learn"}

SaveApply(p) ==
  LET copy == task[p].copy
  IN  /\ In(p, "save")
      /\ memory' = copy
      /\ shown' = IF copy.choice \in From88FRP
                  THEN [url |-> None, state |-> "frp-pending"]
                  ELSE Chosen(copy)
      /\ owner' = copy.choice
      /\ calm' = \A q \in Proc : ~Carries(q)
      /\ written' = FALSE
      /\ Goto(p, [task[p] EXCEPT !.pc = "savewrite"])
      /\ UNCHANGED <<file, probe, ice, frpVars, saves, faults>>

(* persist, outside the mutex. What follows is a Sync, if 88FRP was chosen, *)
(* and ensurePublicICE: a Syncer and Ice, which may run at any time.        *)
SaveWrite(p) ==
  /\ In(p, "savewrite")
  /\ file' = task[p].copy
  /\ written' = TRUE
  /\ Goto(p, Idle)
  /\ UNCHANGED <<snapshotVars, probe, ice, frpVars, owner, calm, saves, faults>>

(* The disk refuses it: the handler answers with an error, and memory keeps *)
(* what the file does not have.                                             *)
SaveWriteFails(p) ==
  /\ In(p, "savewrite") /\ faults < MaxFault
  /\ faults' = faults + 1
  /\ Goto(p, Idle)
  /\ UNCHANGED <<snapshotVars, file, probe, ice, frpVars, historyVars, saves>>
-----------------------------------------------------------------------------
(* Variant: the source of the settings is not looked at. *)
SyncBeginAlways(p) ==
  /\ In(p, "idle")
  /\ Goto(p, [At("fetch") EXCEPT !.copy = memory])
  /\ UNCHANGED <<snapshotVars, file, probe, ice, frpVars, historyVars, saves, faults>>

(* Sync, by the loop, a request of the owner page, or after a sign-in. *)
SyncBegin(p) ==
  /\ In(p, "idle") /\ memory.choice \in From88FRP
  /\ Goto(p, [At("fetch") EXCEPT !.copy = memory])
  /\ UNCHANGED <<snapshotVars, file, probe, ice, frpVars, historyVars, saves, faults>>

(* Variant: the address that is going to be probed counts as a success. *)
FetchFailsRemembers(p) ==
  LET last == shown.url
  IN  /\ In(p, "fetch") /\ frp = "down" /\ last # None
      /\ Goto(p, [task[p] EXCEPT !.pc = "probe", !.found = last, !.copy.last = last])
      /\ UNCHANGED <<snapshotVars, file, probe, ice, frpVars, historyVars, saves, faults>>

(* Variant: an outage takes the address away. *)
FetchFailsDrops(p) ==
  /\ In(p, "fetch") /\ frp = "down"
  /\ Goto(p, Publishing(task[p].copy, None, "frp-error"))
  /\ UNCHANGED <<snapshotVars, file, probe, ice, frpVars, historyVars, saves, faults>>

(* syncFailed: the management API does not answer, or answers 401. What    *)
(* is left is the last address, of the settings or else of the snapshot.   *)
FetchFails(p) ==
  LET copy == task[p].copy
      last == IF copy.last # None THEN copy.last ELSE shown.url
  IN  /\ In(p, "fetch") /\ frp = "down"
      /\ Goto(p, IF last = None
                 THEN Publishing(copy, None, "frp-error")
                 ELSE [task[p] EXCEPT !.pc = "probe", !.found = last])
      /\ UNCHANGED <<snapshotVars, file, probe, ice, frpVars, historyVars, saves, faults>>

(* verifyPublicHealth: only an answer with this program's probe ID counts,  *)
(* and only the node 88FRP is on can lead to it.                            *)
Probe(p) ==
  /\ In(p, "probe")
  /\ \E answers \in IF task[p].found \in {node, Own} THEN BOOLEAN ELSE {FALSE} :
       Goto(p, Publishing(task[p].copy, task[p].found,
                          IF probe /\ answers THEN "frp-stale-ready" ELSE "frp-unreachable"))
  /\ UNCHANGED <<snapshotVars, file, probe, ice, frpVars, historyVars, saves, faults>>

(* The owner has yet to choose an instance or a tunnel; or the one chosen  *)
(* is gone, disabled or of another port or type (setSyncError).            *)
FetchUnusable(p) ==
  LET copy == task[p].copy
  IN  /\ In(p, "fetch") /\ frp # "down"
      /\ \/ copy.choice = "unfinished" /\ Goto(p, Publishing(copy, None, "frp-needs-choice"))
         \/ /\ copy.choice = "tunnel" /\ frp = "gone"
            /\ Goto(p, Publishing(copy, shown.url, "frp-error"))
      /\ UNCHANGED <<snapshotVars, file, probe, ice, frpVars, historyVars, saves, faults>>

(* 88FRP answers with the tunnel's public address. *)
FetchSucceeds(p) ==
  /\ In(p, "fetch") /\ frp = "up" /\ task[p].copy.choice = "tunnel"
  /\ Goto(p, [task[p] EXCEPT !.pc = "write", !.copy.last = node,
                             !.verdict = [url |-> node, state |-> "frp-ready"]])
  /\ UNCHANGED <<snapshotVars, file, probe, ice, frpVars, historyVars, saves, faults>>

(* persist, by a goroutine that goes on whether the disk takes it or not.  *)
Write(p) ==
  \/ file' = task[p].copy /\ UNCHANGED faults
  \/ faults < MaxFault /\ faults' = faults + 1 /\ UNCHANGED file

(* The file gets the address; then Sync looks for the UDP mapping. *)
SyncWrite(p) ==
  /\ In(p, "write")
  /\ Write(p)
  /\ Goto(p, [task[p] EXCEPT !.pc = "discover", !.copy = Default])
  /\ UNCHANGED <<snapshotVars, probe, ice, frpVars, historyVars, saves>>

(* The snapshot's settings are read back: the discovery may have added to   *)
(* them. The address just found is not in them.                             *)
Reread(p) ==
  /\ In(p, "reread")
  /\ Goto(p, [task[p] EXCEPT !.pc = "publish", !.copy = memory])
  /\ UNCHANGED <<snapshotVars, file, probe, ice, frpVars, historyVars, saves, faults>>

(* setSnapshot *)
Publish(p) ==
  /\ In(p, "publish")
  /\ memory' = task[p].copy /\ shown' = task[p].verdict
  /\ Goto(p, Idle)
  /\ UNCHANGED <<file, probe, ice, frpVars, historyVars, saves, faults>>
-----------------------------------------------------------------------------
(* Variant: the loop ends after the first success. *)
IceBeginOnce ==
  /\ In(Ice, "idle") /\ ice.host = None
  /\ Goto(Ice, At("discover"))
  /\ UNCHANGED <<snapshotVars, file, probe, ice, frpVars, historyVars, saves, faults>>

(* ensurePublicICE under iceMu: every 30 s, after a save or a synchronise   *)
(* request, and by the listener after a new mapping; so at any time.        *)
IceBegin ==
  /\ In(Ice, "idle")
  /\ Goto(Ice, At("discover"))
  /\ UNCHANGED <<snapshotVars, file, probe, ice, frpVars, historyVars, saves, faults>>

(* What follows a discovery: Sync reads the settings back, ensurePublicICE  *)
(* advertises the mapping or, without one, leaves what it advertises.       *)
Discovered(p, mapping, where) ==
  IF p # Ice THEN [task[p] EXCEPT !.pc = "reread", !.copy = Default, !.found = None]
  ELSE IF mapping = None THEN Idle
  ELSE [At(where) EXCEPT !.found = mapping]

(* DiscoverUDPForward, which both share: without 88FRP it is an error. *)
DiscoverNothing(p) ==
  /\ In(p, "discover") /\ memory.choice \notin From88FRP
  /\ Goto(p, Discovered(p, None, "recover"))
  /\ UNCHANGED <<snapshotVars, file, probe, ice, frpVars, historyVars, saves, faults>>

(* 88FRP lists an enabled UDP proxy for the local port. *)
Discover(p) ==
  /\ In(p, "discover") /\ memory.choice \in From88FRP /\ frp # "down"
  /\ Goto(p, [task[p] EXCEPT !.pc = "learn", !.found = node])
  /\ UNCHANGED <<snapshotVars, file, probe, ice, frpVars, historyVars, saves, faults>>

(* restoreUDPForward: no answer, no such proxy or no instance chosen; the   *)
(* mapping in the settings stands in, if there is one.                      *)
Restore(p) ==
  /\ In(p, "discover") /\ memory.choice \in From88FRP
  /\ frp # "up" \/ memory.choice = "unfinished"
  /\ Goto(p, Discovered(p, memory.udp, "recover"))
  /\ UNCHANGED <<snapshotVars, file, probe, ice, frpVars, historyVars, saves, faults>>

(* saveUDPForward: into the settings as they are now. *)
Learn(p) ==
  LET found == task[p].found
  IN  /\ In(p, "learn")
      /\ memory' = [memory EXCEPT !.udp = found]
      /\ Goto(p, IF memory.udp = found
                 THEN Discovered(p, found, "advertise")
                 ELSE [task[p] EXCEPT !.pc = "udpwrite", !.copy = memory'])
      /\ UNCHANGED <<shown, file, probe, ice, frpVars, historyVars, saves, faults>>

(* Variant: the listener runs in the goroutine that discovered, which may   *)
(* be the one that has the lock the listener waits for.                     *)
UdpWriteThenListen(p) ==
  /\ In(p, "udpwrite") /\ In(Ice, "idle")
  /\ Write(p)
  /\ Goto(p, Discovered(p, task[p].found, "advertise"))
  /\ UNCHANGED <<snapshotVars, probe, ice, frpVars, historyVars, saves>>

(* persist; then a goroutine of its own calls the listener. *)
UdpWrite(p) ==
  /\ In(p, "udpwrite")
  /\ Write(p)
  /\ Goto(p, Discovered(p, task[p].found, "advertise"))
  /\ UNCHANGED <<snapshotVars, probe, ice, frpVars, historyVars, saves>>

(* advertiseUDPForwardLocked *)
Advertise ==
  /\ task[Ice].pc \in {"advertise", "recover"}
  /\ ice' = [host |-> task[Ice].found, fresh |-> In(Ice, "advertise")]
  /\ Goto(Ice, Idle)
  /\ UNCHANGED <<snapshotVars, file, probe, frpVars, historyVars, saves, faults>>
-----------------------------------------------------------------------------
(* The program dies and starts again; load writes back what it has read.   *)
(* If it dies inside os.WriteFile, which truncates the file first, what the *)
(* next start reads does not parse.                                         *)
Crash ==
  /\ faults < MaxFault
  /\ faults' = faults + 1
  /\ \/ Load(file)
     \/ /\ \E p \in Proc : task[p].pc \in {"savewrite", "write", "udpwrite"}
        /\ Load(Broken)
  /\ UNCHANGED <<frpVars, saves>>

(* The environment: 88FRP fails, loses its session or the tunnel, recovers; *)
(* its subscription moves to another node.                                  *)
FrpChanges ==
  /\ faults < MaxFault
  /\ faults' = faults + 1
  /\ frp' \in {"up", "down", "gone"} \ {frp}
  /\ UNCHANGED <<snapshotVars, file, probe, task, ice, node, historyVars, saves>>

NodeMoves ==
  /\ node < MaxMove /\ faults < MaxFault
  /\ node' = node + 1 /\ faults' = faults + 1
  /\ UNCHANGED <<snapshotVars, file, probe, task, ice, frp, historyVars, saves>>

SyncStep(p) ==
  \/ FetchFails(p) \/ Probe(p) \/ FetchUnusable(p) \/ FetchSucceeds(p)
  \/ SyncWrite(p) \/ Reread(p) \/ Publish(p)
DiscoverStep(p) ==
  DiscoverNothing(p) \/ Discover(p) \/ Restore(p) \/ Learn(p) \/ UdpWrite(p)

Next ==
  \/ \E p \in Saver : \/ \E choice \in Choice : SaveBegin(p, choice)
                      \/ SaveApply(p) \/ SaveWrite(p) \/ SaveWriteFails(p)
  \/ \E p \in Syncer : SyncBegin(p) \/ SyncStep(p)
  \/ \E p \in Syncer \cup {Ice} : DiscoverStep(p)
  \/ IceBegin \/ Advertise
  \/ Crash \/ FrpChanges \/ NodeMoves

Spec == Init /\ [][Next]_vars

(* The loops tick, and every goroutine runs on: an HTTP call ends by its    *)
(* time limit.                                                              *)
Fairness ==
  /\ \A p \in Saver : WF_vars(SaveApply(p) \/ SaveWrite(p))
  /\ WF_vars(\E p \in Syncer : SyncBegin(p))
  /\ \A p \in Syncer : WF_vars(SyncStep(p) \/ DiscoverStep(p))
  /\ WF_vars(IceBegin) /\ WF_vars(DiscoverStep(Ice) \/ Advertise)

FairSpec == Spec /\ Fairness
-----------------------------------------------------------------------------
SaverPc == {"idle", "save", "savewrite"}
SyncerPc == {"idle", "fetch", "probe", "write", "discover", "learn", "udpwrite", "reread",
             "publish"}
IcePc == {"idle", "discover", "learn", "udpwrite", "advertise", "recover"}

TypeOK ==
  /\ memory \in Settings /\ file \in Settings \cup {Broken} /\ probe \in BOOLEAN
  /\ shown \in Shown
  /\ task \in [Proc -> [pc : SaverPc \cup SyncerPc \cup IcePc,
                        copy : Settings, verdict : Shown, found : Address]]
  /\ \A p \in Saver : task[p].pc \in SaverPc
  /\ \A p \in Syncer : task[p].pc \in SyncerPc
  /\ task[Ice].pc \in IcePc
  /\ \A p \in Proc : task[p].pc \in {"learn", "udpwrite"} => task[p].found \in Node
  /\ task[Ice].found \in Node \cup {None}
  /\ ice \in [host : Node \cup {None}, fresh : BOOLEAN]
  /\ frp \in {"up", "down", "gone"} /\ node \in Node
  /\ owner \in Choice /\ calm \in BOOLEAN /\ written \in BOOLEAN

AtRest == \A p \in Proc : In(p, "idle")

(* What the owner saved last is what counts, in memory and in the address   *)
(* new share links get, also after the disk refused it; and, once it has    *)
(* reached the disk, in the file, so that it outlives restarts. It is not   *)
(* claimed, because the code does not do it, for a save that overtakes a    *)
(* synchronisation or the writing of a discovered UDP mapping: these        *)
(* publish or write their older copy of the settings after it (Sync,        *)
(* saveUDPForward). Nor for a save that a crash takes before it is written, *)
(* nor after a crash has cut the file off.                                  *)
OwnerChoiceStands ==
  calm /\ AtRest =>
    /\ memory.choice = owner
    /\ owner \notin From88FRP => shown = Chosen(memory)
    /\ written => file # Broken /\ file.choice = owner

(* Why: as long as it is calm, all settings on their way hold that choice,  *)
(* and under a choice of the owner's own address nobody synchronises.       *)
ChoiceInv ==
  calm =>
    /\ memory.choice = owner
    /\ \A p \in Proc :
         task[p].pc \in {"savewrite", "fetch", "probe", "write", "udpwrite", "publish"} =>
           task[p].copy.choice = owner
    /\ written => file # Broken /\ file.choice = owner
    /\ owner \notin From88FRP =>
         shown = Chosen(memory) /\ \A p \in Syncer : In(p, "idle")

(* The inductive invariant. *)
AccessInv == TypeOK /\ ChoiceInv

(* Where 88FRP and PublicAccess agree on node n: nothing else is in the     *)
(* settings, the file or the advertised addresses, nor in the hands of any  *)
(* goroutine; nobody is about to write anything but n.                     *)
OfNode(s, n) == s.choice = "tunnel" /\ s.last \in {n, None} /\ s.udp = n

Bears(t, n) ==
  /\ t.pc \notin {"save", "savewrite", "udpwrite"}
  /\ t.pc \in {"fetch", "probe", "write", "publish"} => OfNode(t.copy, n)
  /\ t.pc = "write" => t.copy.last = n
  /\ t.pc \in {"probe", "learn", "advertise", "recover"} => t.found = n

Shows(t, n) ==
  t.pc \in {"write", "discover", "learn", "reread", "publish"} => t.verdict.url = n

AtNode(n) ==
  /\ node = n /\ OfNode(memory, n) /\ shown.url = n
  /\ file # Broken /\ OfNode(file, n) /\ file.last = n
  /\ ice.host \in {n, None}
  /\ \A p \in Proc : Bears(task[p], n) /\ (p # Ice => Shows(task[p], n))

(* An outage of 88FRP, a lost session, a synchronisation that fails half    *)
(* way, a restart: none of them brings an address back that had gone, or    *)
(* takes the one away that is there. Only a move of the node, a new save by *)
(* the owner or a file that was cut off does.                              *)
NodeStands ==
  [][\A n \in Node :
       AtNode(n) /\ node' = n /\ file' # Broken /\ (\A p \in Saver : In(p, "idle")')
       => AtNode(n)']_vars

(* Once 88FRP answers, stays on its node and the owner's tunnel stands,     *)
(* share links, file and the WebRTC endpoint all come to that node, however *)
(* the goroutines and faults before were ordered.                           *)
Settled(n) == frp = "up" /\ node = n /\ memory.choice = "tunnel"

FollowsNode ==
  \A n \in Node : <>[]Settled(n) =>
    <>[](/\ shown = [url |-> n, state |-> "frp-ready"]
         /\ file # Broken /\ file.last = n /\ file.udp = n
         /\ ice = [host |-> n, fresh |-> TRUE])

(* ensurePublicICE gives its lock back: a discovery that changes the        *)
(* mapping does not wait for itself.                                        *)
DiscoveryEnds == ~In(Ice, "idle") ~> In(Ice, "idle")
-----------------------------------------------------------------------------
(* The address of the last successful synchronisation is offered again      *)
(* after a restart: what line 11 of the release notes of v2.2.0 says and    *)
(* TLC refutes.                                                             *)
RestartRestoresLastSuccess ==
  calm /\ written /\ AtRest /\ shown.state = "frp-ready" /\ file # Broken =>
    Restored(file).url = shown.url
=============================================================================
