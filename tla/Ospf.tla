---------------------------------- MODULE Ospf ----------------------------------
(***************************************************************************)
(* An OSPF instance (ospf/ospf.go, ospf/interface.go): the goroutines of   *)
(* Instance.Run and one goroutine for every OSPF interface.                *)
(*                                                                         *)
(* The feeder follows the interface monitor's notifier and puts a token    *)
(* into intCh; the updater takes it, looks at the machine's network        *)
(* interfaces and brings the table i.Interfaces up to date.  It talks to   *)
(* the goroutine of an interface through the unbuffered channel events,    *)
(* and reads the interface's State without synchronisation, so it may read *)
(* it before or after the goroutine has handled the event sent last.       *)
(*                                                                         *)
(* An id is one configured interface with one of its addresses.  A network *)
(* interface that was removed and an address that was removed are the same *)
(* thing here, and are treated alike by the code.                          *)
(***************************************************************************)
EXTENDS Integers, FiniteSets

CONSTANTS Ids,         \* configured interfaces, with an address
          NoId,        \* the updater is not busy with an interface
          Loopbacks,   \* those that may be loopback interfaces
          MayFail,     \* net.Interfaces may return an error
          MaxChanges   \* bound: how often the network changes

ASSUME NoIdAssumption == NoId \notin Ids
ASSUME LoopbacksAssumption == Loopbacks \subseteq Ids
ASSUME MayFailAssumption == MayFail \in BOOLEAN
ASSUME MaxChangesAssumption == MaxChanges \in Nat

Gone == [present |-> FALSE, up |-> FALSE, loop |-> FALSE]

\* What the machine may say of the interface id.
NetStates(id) ==
    {Gone} \cup [present : {TRUE}, up : BOOLEAN,
                 loop : IF id \in Loopbacks THEN BOOLEAN ELSE {FALSE}]

\* What it may say of all of them.
Networks == {n \in [Ids -> UNION {NetStates(id) : id \in Ids}] :
                \A id \in Ids : n[id] \in NetStates(id)}

Events == {"InterfaceUp", "InterfaceDown", "LoopInd", "UnloopInd"}
NoEvent == "none"

\* The interface goroutine's Interface: pc is "none" for an id that is not in
\* the table, "spawned" until the goroutine runs, "select", "handle" between
\* receiving an event and the end of handleEvent, "ack" while it answers a
\* sendEventWait, and "returned".
NoInterface == [pc |-> "none", state |-> "Down", event |-> NoEvent,
                wait |-> FALSE, hello |-> FALSE]
NewInterface == [NoInterface EXCEPT !.pc = "spawned"]

VARIABLES
    net,       \* net[id]: what the machine says now
    seq,       \* the sequence number of the interface monitor's notifier
    feeder,    \* where the feeder is
    heard,     \* the feeder's seq
    intCh,     \* intCh holds a token
    updater,   \* where updateInterfaces is
    snap,      \* what net.Interfaces() returned to it
    todo,      \* the ids its current loop has still to do
    cur,       \* the id it is busy with
    event,     \* the event it is sending
    after,     \* where it goes on after sending
    iface,     \* i.Interfaces
    leaving,   \* goroutines of deleted interfaces that have not returned
    ctxDone,   \* the errgroup's context is done
    stale      \* history: this update has read a State that was out of date

vars == <<net, seq, feeder, heard, intCh, updater, snap, todo, cur, event, after,
          iface, leaving, ctxDone, stale>>

feederVars == <<feeder, heard>>
netVars == <<net, seq>>
updateVars == <<updater, snap, todo, cur, event, after, stale>>

Table == {id \in Ids : iface[id].pc # "none"}

\* isUp and isLoopback of ospf.Interface.
IsUp(id) == iface[id].state # "Down"
IsLoopback(id) == iface[id].state = "Loopback"

\* What handleEvent makes of an event: every interface is a point-to-point interface.
NextState(e) ==
    CASE e \in {"InterfaceUp", "UnloopInd"} -> "PointToPoint"
      [] e = "LoopInd" -> "Loopback"
      [] e = "InterfaceDown" -> "Down"

\* The state of id once its goroutine has handled the event it has received.
Settling(id) ==
    IF iface[id].pc = "handle" THEN NextState(iface[id].event) ELSE iface[id].state

--------------------------------------------------------------------------------

Init ==
    /\ net \in Networks
    /\ seq = 0
    /\ feeder = "offer" /\ heard = 0 /\ intCh = FALSE
    /\ updater = "select" /\ snap = [id \in Ids |-> Gone] /\ todo = {}
    /\ cur = NoId /\ event = NoEvent /\ after = "select"
    /\ iface = [id \in Ids |-> NoInterface]
    /\ leaving = 0
    /\ ctxDone = FALSE /\ stale = FALSE

\* The machine's interfaces change, and the monitor notifies its listeners.
NetworkChange ==
    /\ seq < MaxChanges
    /\ \E id \in Ids : \E s \in NetStates(id) :
          /\ s # net[id]
          /\ net' = [net EXCEPT ![id] = s]
    /\ seq' = seq + 1
    /\ UNCHANGED <<feederVars, intCh, updateVars, iface, leaving, ctxDone>>

Cancel ==
    /\ ~ctxDone
    /\ ctxDone' = TRUE
    /\ UNCHANGED <<netVars, feederVars, intCh, updateVars, iface, leaving>>

--------------------------------------------------------------------------------
(* The feeder of Instance.Run.                                               *)

FeederOffer ==
    /\ feeder = "offer"
    /\ ~intCh
    /\ intCh' = TRUE
    /\ feeder' = "await"
    /\ UNCHANGED <<netVars, heard, updateVars, iface, leaving, ctxDone>>

FeederDone_AfterSend ==
    /\ feeder = "offer"
    /\ ctxDone
    /\ ~intCh
    /\ feeder' = "returned"
    /\ UNCHANGED <<netVars, heard, intCh, updateVars, iface, leaving, ctxDone>>
FeederDone ==
    /\ feeder = "offer"
    /\ ctxDone
    /\ feeder' = "returned"
    /\ UNCHANGED <<netVars, heard, intCh, updateVars, iface, leaving, ctxDone>>

FeederAwaitChange ==
    /\ feeder = "await"
    /\ heard < seq \/ ctxDone
    /\ heard' = seq
    /\ feeder' = "offer"
    /\ UNCHANGED <<netVars, intCh, updateVars, iface, leaving, ctxDone>>

--------------------------------------------------------------------------------
(* The updater: the select of Instance.Run and updateInterfaces.             *)

UpdaterUnchanged == UNCHANGED <<netVars, feederVars, leaving>>

UpdaterDone ==
    /\ updater = "select"
    /\ ctxDone
    /\ updater' = "returned"
    /\ UNCHANGED <<intCh, snap, todo, cur, event, after, iface, ctxDone>>
    /\ UNCHANGED stale /\ UpdaterUnchanged

UpdaterBegin ==
    /\ updater = "select"
    /\ intCh
    /\ intCh' = FALSE
    /\ snap' = net
    /\ todo' = Table
    /\ stale' = FALSE
    /\ updater' = "existing"
    /\ UNCHANGED <<cur, event, after, iface, ctxDone>>
    /\ UpdaterUnchanged

\* net.Interfaces or Addrs fails: the updater returns the error.
UpdaterError ==
    /\ MayFail
    /\ updater = "select"
    /\ intCh
    /\ intCh' = FALSE
    /\ updater' = "returned"
    /\ ctxDone' = TRUE
    /\ UNCHANGED <<snap, todo, cur, event, after, iface>>
    /\ UNCHANGED stale /\ UpdaterUnchanged

\* sendEvent(e) to id, after which the updater goes on at label to.
Send(id, e, to) ==
    /\ updater' = "send"
    /\ cur' = id
    /\ event' = e
    /\ after' = to

\* No event is sent to id; go on at label to.
Skip(id, to) ==
    /\ updater' = to
    /\ cur' = id
    /\ UNCHANGED <<event, after>>

\* The loop over the table: the next interface, in any order.
UpdaterExisting ==
    /\ updater = "existing"
    /\ \E id \in todo :
          /\ todo' = todo \ {id}
          /\ IF snap[id].present THEN Skip(id, "checkUp")
                                 ELSE Send(id, "InterfaceDown", "ack")
    /\ UNCHANGED <<intCh, snap, iface, ctxDone>>
    /\ UNCHANGED stale /\ UpdaterUnchanged

UpdaterCheckUp_UpOnly ==
    /\ updater = "checkUp"
    /\ IF snap[cur].up /\ ~IsUp(cur) THEN Send(cur, "InterfaceUp", "checkLoop")
                                     ELSE Skip(cur, "checkLoop")
    /\ stale' = (stale \/ (IsUp(cur) # (Settling(cur) # "Down")))
    /\ UNCHANGED <<intCh, snap, todo, iface, ctxDone>>
    /\ UpdaterUnchanged
UpdaterCheckUp ==
    /\ updater = "checkUp"
    /\ CASE snap[cur].up /\ ~IsUp(cur) -> Send(cur, "InterfaceUp", "checkLoop")
         [] ~snap[cur].up /\ IsUp(cur) -> Send(cur, "InterfaceDown", "checkLoop")
         [] OTHER -> Skip(cur, "checkLoop")
    /\ stale' = (stale \/ (IsUp(cur) # (Settling(cur) # "Down")))
    /\ UNCHANGED <<intCh, snap, todo, iface, ctxDone>>
    /\ UpdaterUnchanged

UpdaterCheckLoop ==
    /\ updater = "checkLoop"
    /\ CASE snap[cur].loop /\ ~IsLoopback(cur) -> Send(cur, "LoopInd", "existing")
         [] ~snap[cur].loop /\ IsLoopback(cur) -> Send(cur, "UnloopInd", "existing")
         [] OTHER -> Skip(NoId, "existing")
    /\ stale' = (stale \/ (IsLoopback(cur) # (Settling(cur) = "Loopback")))
    /\ UNCHANGED <<intCh, snap, todo, iface, ctxDone>>
    /\ UpdaterUnchanged

UpdaterExistingDone ==
    /\ updater = "existing"
    /\ todo = {}
    /\ todo' = {id \in Ids : snap[id].present} \ Table
    /\ Skip(NoId, "add")
    /\ UNCHANGED <<intCh, snap, iface, ctxDone>>
    /\ UNCHANGED stale /\ UpdaterUnchanged

\* A new interface, and its goroutine.
UpdaterAdd_NoEvent ==
    /\ updater = "add"
    /\ \E id \in todo :
          /\ todo' = todo \ {id}
          /\ iface' = [iface EXCEPT ![id] = NewInterface]
          /\ Skip(id, "addLoop")
    /\ UNCHANGED <<intCh, snap, ctxDone>>
    /\ UNCHANGED stale /\ UpdaterUnchanged
UpdaterAdd ==
    /\ updater = "add"
    /\ \E id \in todo :
          /\ todo' = todo \ {id}
          /\ iface' = [iface EXCEPT ![id] = NewInterface]
          /\ IF snap[id].up THEN Send(id, "InterfaceUp", "addLoop")
                            ELSE Skip(id, "addLoop")
    /\ UNCHANGED <<intCh, snap, ctxDone>>
    /\ UNCHANGED stale /\ UpdaterUnchanged

UpdaterAddLoop ==
    /\ updater = "addLoop"
    /\ IF snap[cur].loop THEN Send(cur, "LoopInd", "add") ELSE Skip(NoId, "add")
    /\ UNCHANGED <<intCh, snap, todo, iface, ctxDone>>
    /\ UNCHANGED stale /\ UpdaterUnchanged

UpdaterAddDone_Drain ==
    /\ updater = "add"
    /\ todo = {}
    /\ Skip(NoId, "select")
    /\ intCh' = FALSE
    /\ UNCHANGED <<snap, todo, iface, ctxDone, stale>>
    /\ UpdaterUnchanged
UpdaterAddDone ==
    /\ updater = "add"
    /\ todo = {}
    /\ Skip(NoId, "select")
    /\ UNCHANGED <<intCh, snap, todo, iface, ctxDone>>
    /\ UNCHANGED stale /\ UpdaterUnchanged

\* i.events <- dispatch{e, c}: the goroutine of cur receives the event.  Only
\* sendEventWait, which is used to remove an interface, waits for the answer.
SendEvent ==
    /\ updater = "send"
    /\ iface[cur].pc = "select"
    /\ iface' = [iface EXCEPT ![cur].pc = "handle",
                              ![cur].event = event,
                              ![cur].wait = (after = "ack")]
    /\ updater' = after
    /\ event' = NoEvent
    /\ after' = "select"
    /\ UNCHANGED <<intCh, snap, todo, cur, ctxDone, stale>>
    /\ UpdaterUnchanged

\* <-c, stop() and delete(i.Interfaces, id): the goroutine goes on to return.
RemoveInterface_NoAck ==
    /\ updater = "ack"
    /\ iface[cur].pc \in {"handle", "ack"}
    /\ iface' = [iface EXCEPT ![cur] = NoInterface]
    /\ leaving' = leaving + 1
    /\ updater' = "existing"
    /\ cur' = NoId
    /\ UNCHANGED <<netVars, feederVars, intCh, snap, todo, event, after, ctxDone, stale>>
RemoveInterface ==
    /\ updater = "ack"
    /\ iface[cur].pc = "ack"
    /\ iface' = [iface EXCEPT ![cur] = NoInterface]
    /\ leaving' = leaving + 1
    /\ updater' = "existing"
    /\ cur' = NoId
    /\ UNCHANGED <<netVars, feederVars, intCh, snap, todo, event, after, ctxDone, stale>>

--------------------------------------------------------------------------------
(* The goroutine of an interface.                                            *)

InterfaceUnchanged == UNCHANGED <<netVars, feederVars, intCh, updateVars, ctxDone>>

\* The goroutine reads i.Interfaces[id] and calls Run.
InterfaceStart(id) ==
    /\ iface[id].pc = "spawned"
    /\ iface' = [iface EXCEPT ![id].pc = "select"]
    /\ UNCHANGED leaving
    /\ InterfaceUnchanged

HandleEvent(id) ==
    LET i == iface[id]
    IN  /\ i.pc = "handle"
        /\ iface' = [iface EXCEPT
               ![id] = [pc |-> IF i.wait THEN "ack" ELSE "select",
                        state |-> NextState(i.event),
                        event |-> NoEvent,
                        wait |-> FALSE,
                        hello |-> i.hello \/ i.event = "InterfaceUp"]]
        /\ UNCHANGED leaving
        /\ InterfaceUnchanged

\* case <-i.HelloTimer.C: the timer has expired and is set again.  (The wait
\* timer of a point-to-point interface is never set.)
InterfaceHello_Once(id) ==
    /\ iface[id].pc = "select" /\ iface[id].hello
    /\ iface' = [iface EXCEPT ![id].hello = FALSE]
    /\ UNCHANGED leaving
    /\ InterfaceUnchanged
InterfaceHello(id) ==
    /\ iface[id].pc = "select" /\ iface[id].hello
    /\ iface' = [iface EXCEPT ![id].hello = TRUE]
    /\ UNCHANGED leaving
    /\ InterfaceUnchanged

\* case <-ctx.Done(): the timers are stopped.
InterfaceDone(id) ==
    /\ iface[id].pc = "select"
    /\ ctxDone
    /\ iface' = [iface EXCEPT ![id].pc = "returned", ![id].hello = FALSE]
    /\ UNCHANGED leaving
    /\ InterfaceUnchanged

\* The same, for an interface that was deleted and stopped.
InterfaceLeaves ==
    /\ leaving > 0
    /\ leaving' = leaving - 1
    /\ UNCHANGED iface
    /\ InterfaceUnchanged

\* The updater is about to store a new interface in the map i.Interfaces, or to
\* delete one.
WritesMap ==
    \/ updater = "add" /\ todo # {}
    \/ updater = "ack" /\ iface[cur].pc = "ack"

\* The new goroutine reads the map while the updater writes it, without a lock.
\* If the Go runtime notices, it ends the process; if it does not, the result
\* is that of one order or the other.
MapRace(id) ==
    /\ iface[id].pc = "spawned"
    /\ WritesMap
    /\ updater' = "aborted" /\ feeder' = "returned" /\ leaving' = 0
    /\ ctxDone' = TRUE /\ todo' = {} /\ cur' = NoId
    /\ iface' = [i \in Ids |-> IF i \in Table THEN [NoInterface EXCEPT !.pc = "returned"]
                                              ELSE NoInterface]
    /\ UNCHANGED <<netVars, heard, intCh, snap, event, after, stale>>

--------------------------------------------------------------------------------

FeederStep == FeederOffer \/ FeederDone \/ FeederAwaitChange
UpdaterStep ==
    \/ UpdaterDone \/ UpdaterBegin \/ UpdaterExisting \/ UpdaterCheckUp
    \/ UpdaterCheckLoop \/ UpdaterExistingDone \/ UpdaterAdd \/ UpdaterAddLoop
    \/ UpdaterAddDone \/ SendEvent \/ RemoveInterface
InterfaceStep(id) ==
    InterfaceStart(id) \/ HandleEvent(id) \/ InterfaceHello(id) \/ InterfaceDone(id)

Next ==
    \/ NetworkChange \/ Cancel \/ FeederStep \/ UpdaterStep \/ UpdaterError
    \/ \E id \in Ids : InterfaceStep(id) \/ MapRace(id)
    \/ InterfaceLeaves

Spec == Init /\ [][Next]_vars

\* Goroutines run when they can.  A select does not pass over ctx.Done() for
\* ever, and it is random too whether an interface that is told to stop takes
\* an event first: strong fairness for the Done cases only.
Fairness ==
    /\ WF_vars(FeederStep) /\ SF_vars(FeederDone)
    /\ WF_vars(UpdaterStep) /\ SF_vars(UpdaterDone)
    /\ \A id \in Ids : WF_vars(InterfaceStep(id)) /\ SF_vars(InterfaceDone(id))
    /\ WF_vars(InterfaceLeaves)

FairSpec == Spec /\ Fairness

--------------------------------------------------------------------------------
(* Properties                                                                *)

TypeOK ==
    /\ net \in Networks /\ snap \in Networks
    /\ seq \in 0 .. MaxChanges /\ heard \in 0 .. seq
    /\ feeder \in {"offer", "await", "returned"}
    /\ intCh \in BOOLEAN /\ ctxDone \in BOOLEAN /\ stale \in BOOLEAN
    /\ updater \in {"select", "existing", "checkUp", "checkLoop", "add", "addLoop",
                    "send", "ack", "returned", "aborted"}
    /\ todo \subseteq Ids
    /\ cur \in Ids \cup {NoId}
    /\ updater \in {"checkUp", "checkLoop", "addLoop", "send", "ack"} => cur \in Table
    /\ event \in Events \cup {NoEvent}
    /\ after \in {"select", "existing", "checkLoop", "add", "addLoop", "ack"}
    /\ iface \in [Ids -> [pc : {"none", "spawned", "select", "handle", "ack", "returned"},
                          state : {"Down", "PointToPoint", "Loopback"},
                          event : Events \cup {NoEvent},
                          wait : BOOLEAN,
                          hello : BOOLEAN]]
    /\ leaving \in Nat

\* The state an interface should be in.
StateFor(s) ==
    IF s.loop THEN "Loopback" ELSE IF s.up THEN "PointToPoint" ELSE "Down"

\* The table and the states are those of the network ns.
Agrees(ns) ==
    \A id \in Ids :
        /\ id \in Table <=> ns[id].present
        /\ id \in Table => iface[id].state = StateFor(ns[id])

\* Every interface's goroutine is waiting, so that it has handled every event.
Settled == \A id \in Table : iface[id].pc = "select"

\* updateInterfaces does its job: when an update is over and the interfaces
\* have handled its events, the table and the interfaces' states are those of
\* the network interfaces it saw, unless it read a State before the handler of
\* an event on its way had set it.
AppliedUnlessStale ==
    updater = "select" /\ Settled /\ ~ctxDone /\ ~stale => Agrees(snap)

\* An interface is only dropped once its goroutine has handled InterfaceDown.
DroppedIsDown ==
    [][\A id \in Table : id \notin Table' => iface[id].state = "Down"]_iface

\* An interface that may have neighbours has its hello timer running, however
\* it got there and however often the timer has expired.  Only InterfaceUp sets
\* it, so a loopback interface that was added while it was down, and is then
\* unlooped, is the exception.
HelloRunsUnlessLoopback ==
    \A id \in Ids \ Loopbacks :
        iface[id].pc \notin {"handle", "returned"} /\ iface[id].state = "PointToPoint" =>
            iface[id].hello

\* Sending an event is what keeps the updater from writing the map before the
\* new goroutine has read it, so only an interface that was given no event, as
\* it was neither up nor a loopback when the update came to it, can race.
RacesOnlyIfIdle ==
    \A id \in Ids : iface[id].pc = "spawned" /\ id \notin todo \cup {cur} =>
        ~(snap[id].up \/ snap[id].loop)

\* The updater sends to an interface whose goroutine has returned.
Stuck == updater = "send" /\ iface[cur].pc = "returned"

AllReturned ==
    /\ feeder = "returned" /\ updater \in {"returned", "aborted"} /\ leaving = 0
    /\ \A id \in Table : iface[id].pc = "returned"

\* In the end the instance agrees with the network: no change is lost on the
\* way from the monitor to the interfaces, even if it happens during an update,
\* unless an update read a State that was out of date.
FollowedUnlessStale == []<>((Agrees(net) /\ Settled) \/ stale \/ ctxDone)

\* The only way for an instance that is stopped to hang is the updater's send
\* to an interface that has stopped already.
InstanceStopsUnlessStuck == ctxDone ~> (AllReturned \/ Stuck)

================================================================================
