------------------------------ MODULE OspfProofs -------------------------------
(***************************************************************************)
(* What an OSPF instance guarantees, for any set of interfaces, any of     *)
(* them loopbacks, and any number of network changes.                      *)
(*                                                                         *)
(* The updater sends an event and goes on before the interface's goroutine *)
(* has handled it, so no invariant about the interfaces' states is         *)
(* inductive.  What is inductive is said of Settling(id), the state the    *)
(* interface will be in: a goroutine's steps never change it, only the     *)
(* updater's sends do.  Those the current loop has passed settle as the    *)
(* network wants them (DoneUnlessBusy), and the one the updater is busy    *)
(* with is as far as its place in the code says (BusyIsRight), unless a    *)
(* comparison read a State that was not the one it settles in.             *)
(*                                                                         *)
(* First what each group of steps does to the table, then one lemma for    *)
(* each part of the invariant, then the theorems.                          *)
(*                                                                         *)
(* The second half is about LSAs: what Lsdb computes, and what becomes of  *)
(* an LSA on its way, for LSAs of any length and for any sequence numbers  *)
(* and ages, where TLC looks at a few headers and bodies of five octets.   *)
(* The checksum's loop has an invariant of its own (SumsLoop); the check   *)
(* bytes verify because changing one octet by d adds d to the first sum    *)
(* and as many times d to the second as octets are left (OneOctetChanges), *)
(* which is also why one damaged octet, or one swap, shows.  The invariant *)
(* of an LSA on its way (LsaInv) says what is left of what was originated  *)
(* (IsLeftOf), and that the age in front of it is the header's.            *)
(***************************************************************************)
EXTENDS Ospf, Lsdb, Induction, SequenceTheorems, TLAPS

--------------------------------------------------------------------------------
(* The instance: the inductive invariant                                     *)

\* The updater is busy with the interface cur.
Busy == updater \in {"checkUp", "checkLoop", "addLoop", "send", "ack"}

\* It is in the loop over the table, or in the loop over the new interfaces.
Existing ==
    \/ updater \in {"existing", "checkUp", "checkLoop", "ack"}
    \/ updater = "send" /\ after \in {"existing", "checkLoop", "ack"}
Adding ==
    \/ updater \in {"add", "addLoop"}
    \/ updater = "send" /\ after \in {"add", "addLoop"}

\* What is sent and what is received is an event.
EventsAreSent ==
    /\ updater = "send" => event \in Events /\ after # "select"
    /\ \A id \in Ids : iface[id].pc = "handle" => iface[id].event \in Events

\* The loops go over what is in the table, and over what the network has and
\* the table has not.
LoopsAreRight ==
    /\ updater = "select" => todo = {}
    /\ Existing => todo \subseteq Table
    /\ Adding \/ updater = "select" =>
          /\ todo \cap Table = {}
          /\ \A id \in Ids : snap[id].present <=> id \in Table \cup todo
    /\ Busy => cur \notin todo

\* What the loop over the table has passed and kept is on the machine.
PassedIsPresent ==
    /\ Existing => \A id \in Table \ todo : snap[id].present \/ (Busy /\ id = cur)
    /\ \/ updater \in {"checkUp", "checkLoop"}
       \/ updater = "send" /\ after \in {"checkLoop", "existing"}
       => snap[cur].present

\* An event that the updater waits for is InterfaceDown.
WaitIsForDown ==
    /\ updater = "send" /\ after = "ack" => event = "InterfaceDown"
    /\ \A id \in Ids :
          /\ iface[id].pc = "handle" /\ iface[id].wait => iface[id].event = "InterfaceDown"
          /\ iface[id].pc = "ack" => iface[id].state = "Down"

\* An interface that cannot be a loopback is never told that it is, or was.
NeverLooped ==
    \A id \in Ids \ Loopbacks :
        /\ iface[id].state # "Loopback"
        /\ iface[id].pc = "handle" => iface[id].event \notin {"LoopInd", "UnloopInd"}
        /\ updater = "send" /\ cur = id => event \notin {"LoopInd", "UnloopInd"}

\* A new goroutine has done nothing, and the updater goes on to another
\* interface only when it had nothing to send to it.
SpawnedIsIdle ==
    \A id \in Ids : iface[id].pc = "spawned" =>
        /\ iface[id].state = "Down" /\ ~iface[id].hello
        /\ cur = id => \/ updater \in {"checkUp", "send"}
                       \/ updater \in {"checkLoop", "addLoop"} /\ ~snap[id].up

\* The update is done with id: it is, or will be, as the network wants it.
DoneWith(id) == Settling(id) = StateFor(snap[id])

\* The update is done with what its loops have passed.
DoneUnlessBusy ==
    Existing \/ Adding \/ updater = "select" =>
        \A id \in Table \ todo : DoneWith(id) \/ (Busy /\ id = cur)

\* How far it is with the interface it is busy with.
BusyIsRight ==
    /\ updater = "checkLoop" => (Settling(cur) # "Down" <=> snap[cur].up)
    /\ updater = "addLoop" =>
          Settling(cur) = IF snap[cur].up THEN "PointToPoint" ELSE "Down"
    /\ updater = "send" =>
          /\ after = "checkLoop" => (NextState(event) # "Down" <=> snap[cur].up)
          /\ after \in {"existing", "add"} => NextState(event) = StateFor(snap[cur])
          /\ after = "addLoop" => snap[cur].up /\ NextState(event) = "PointToPoint"

\* The inductive invariant.
IInv ==
    /\ TypeOK /\ EventsAreSent /\ LoopsAreRight /\ PassedIsPresent
    /\ WaitIsForDown
    /\ NeverLooped /\ HelloRunsUnlessLoopback
    /\ SpawnedIsIdle /\ RacesOnlyIfIdle
    /\ ~stale => DoneUnlessBusy /\ BusyIsRight

--------------------------------------------------------------------------------
(* The instance: the proofs                                                  *)

\* The records of the table.
InterfaceRecords ==
    [pc : {"none", "spawned", "select", "handle", "ack", "returned"},
     state : {"Down", "PointToPoint", "Loopback"},
     event : Events \cup {NoEvent},
     wait : BOOLEAN,
     hello : BOOLEAN]

\* What a goroutine of an interface does to the table, as the updater sees it:
\* the table stays, and every interface goes on to where it was going.
LEMMA InterfaceEffect ==
  ASSUME IInv, NEW i \in Ids, InterfaceStep(i)
  PROVE  /\ iface' \in [Ids -> InterfaceRecords]
         /\ Table' = Table
         /\ \A id \in Ids : Settling(id)' = Settling(id)
         /\ UNCHANGED <<net, seq, feeder, heard, intCh, updater, snap, todo, cur, event,
                        after, leaving, ctxDone, stale>>
<1>t. iface \in [Ids -> InterfaceRecords] /\ EventsAreSent
  BY DEF IInv, TypeOK, InterfaceRecords
<1>u. UNCHANGED <<net, seq, feeder, heard, intCh, updater, snap, todo, cur, event,
                  after, leaving, ctxDone, stale>>
  BY DEF InterfaceStep, InterfaceStart, HandleEvent, InterfaceHello, InterfaceDone,
         InterfaceUnchanged, netVars, feederVars, updateVars
<1>1. PICK r \in InterfaceRecords : 
         /\ iface' = [iface EXCEPT ![i] = r]
         /\ r.pc # "none" /\ iface[i].pc # "none"
         /\ (IF r.pc = "handle" THEN NextState(r.event) ELSE r.state) = Settling(i)
  <2>1. CASE InterfaceStart(i)
    <3> DEFINE r == [iface[i] EXCEPT !.pc = "select"]
    <3>1. /\ r \in InterfaceRecords /\ r.pc = "select" /\ r.state = iface[i].state
          /\ iface' = [iface EXCEPT ![i] = r] /\ iface[i].pc = "spawned"
      BY <1>t, <2>1 DEF InterfaceStart, InterfaceRecords
    <3> QED
      BY <3>1 DEF Settling
  <2>2. CASE HandleEvent(i)
    <3> DEFINE r == [pc |-> IF iface[i].wait THEN "ack" ELSE "select",
                     state |-> NextState(iface[i].event),
                     event |-> NoEvent,
                     wait |-> FALSE,
                     hello |-> iface[i].hello \/ iface[i].event = "InterfaceUp"]
    <3>1. iface[i].pc = "handle" /\ iface[i].event \in Events /\ iface' = [iface EXCEPT ![i] = r]
      BY <1>t, <2>2 DEF HandleEvent, EventsAreSent
    <3>2. NextState(iface[i].event) \in {"Down", "PointToPoint", "Loopback"}
      BY <3>1 DEF NextState, Events
    <3>3. r \in InterfaceRecords
      BY <3>2 DEF InterfaceRecords
    <3> QED
      BY <3>1, <3>3 DEF Settling
  <2>3. CASE InterfaceHello(i)
    <3> DEFINE r == [iface[i] EXCEPT !.hello = TRUE]
    <3>1. /\ r \in InterfaceRecords /\ r.pc = "select" /\ r.state = iface[i].state
          /\ iface' = [iface EXCEPT ![i] = r] /\ iface[i].pc = "select"
      BY <1>t, <2>3 DEF InterfaceHello, InterfaceRecords
    <3> QED
      BY <3>1 DEF Settling
  <2>4. CASE InterfaceDone(i)
    <3> DEFINE r == [iface[i] EXCEPT !.pc = "returned", !.hello = FALSE]
    <3>1. /\ r \in InterfaceRecords /\ r.pc = "returned" /\ r.state = iface[i].state
          /\ iface' = [iface EXCEPT ![i] = r] /\ iface[i].pc = "select"
      BY <1>t, <2>4 DEF InterfaceDone, InterfaceRecords
    <3> QED
      BY <3>1 DEF Settling
  <2> QED
    BY <2>1, <2>2, <2>3, <2>4 DEF InterfaceStep
<1>2. iface' \in [Ids -> InterfaceRecords]
  BY <1>t, <1>1
<1>3. Table' = Table
  BY <1>t, <1>1 DEF Table
<1>4. \A id \in Ids : Settling(id)' = Settling(id)
  BY <1>t, <1>1 DEF Settling
<1> QED
  BY <1>u, <1>2, <1>3, <1>4

\* The updater compares what it read of State with what the machine says.
LEMMA CheckUpCases ==
  ASSUME IInv, UpdaterCheckUp
  PROVE  \/ snap[cur].up /\ ~IsUp(cur) /\ Send(cur, "InterfaceUp", "checkLoop")
         \/ ~snap[cur].up /\ IsUp(cur) /\ Send(cur, "InterfaceDown", "checkLoop")
         \/ (snap[cur].up <=> IsUp(cur)) /\ Skip(cur, "checkLoop")
<1>1. IsUp(cur) \in BOOLEAN
  BY DEF IsUp
<1> QED
  BY <1>1 DEF UpdaterCheckUp

\* The same for the loopback flag.
LEMMA CheckLoopCases ==
  ASSUME IInv, UpdaterCheckLoop
  PROVE  \/ snap[cur].loop /\ ~IsLoopback(cur) /\ Send(cur, "LoopInd", "existing")
         \/ ~snap[cur].loop /\ IsLoopback(cur) /\ Send(cur, "UnloopInd", "existing")
         \/ (snap[cur].loop <=> IsLoopback(cur)) /\ Skip(NoId, "existing")
<1>1. IsLoopback(cur) \in BOOLEAN
  BY DEF IsLoopback
<1> QED
  BY <1>1 DEF UpdaterCheckLoop

\* The part of the invariant that says what the variables hold.
Types == TypeOK /\ EventsAreSent /\ LoopsAreRight

\* What the machine says of an interface: one that is gone is neither up nor a
\* loopback, and only a loopback is one.
LEMMA SnapType ==
  ASSUME NEW n \in Networks, NEW id \in Ids
  PROVE  /\ n[id].present \in BOOLEAN /\ n[id].up \in BOOLEAN /\ n[id].loop \in BOOLEAN
         /\ n[id].loop => id \in Loopbacks
         /\ ~n[id].present => ~n[id].up /\ ~n[id].loop
<1>1. n[id] \in NetStates(id)
  BY DEF Networks
<1>2. CASE n[id] = Gone
  BY <1>2 DEF Gone
<1>3. CASE n[id] \in [present : {TRUE}, up : BOOLEAN,
                      loop : IF id \in Loopbacks THEN BOOLEAN ELSE {FALSE}]
  <2>1. /\ n[id].present = TRUE /\ n[id].up \in BOOLEAN
        /\ n[id].loop \in IF id \in Loopbacks THEN BOOLEAN ELSE {FALSE}
    BY <1>3
  <2> QED
    BY <2>1
<1> QED
  BY <1>1, <1>2, <1>3 DEF NetStates

\* Every step leaves the variables with their types, an event with whoever
\* sends or handles one, and the loops with the interfaces they are to go over.
LEMMA TypesStep == IInv /\ [Next]_vars => Types'
<1> SUFFICES ASSUME IInv, [Next]_vars PROVE Types'
  OBVIOUS
<1> USE NoIdAssumption, MaxChangesAssumption
<1>t. TypeOK /\ EventsAreSent /\ LoopsAreRight
  BY DEF IInv
<1>a. ASSUME iface' = iface PROVE Table' = Table
  BY <1>a DEF Table
<1>1. CASE NetworkChange
  <2>1. net' \in Networks
    <3>0. PICK id \in Ids : \E n \in NetStates(id) : net' = [net EXCEPT ![id] = n]
      BY <1>1 DEF NetworkChange
    <3>1. PICK n \in NetStates(id) : net' = [net EXCEPT ![id] = n]
      BY <3>0
    <3>2. /\ net \in [Ids -> UNION {NetStates(i) : i \in Ids}]
          /\ \A i \in Ids : net[i] \in NetStates(i)
      BY <1>t DEF TypeOK, Networks
    <3>3. n \in UNION {NetStates(i) : i \in Ids}
      BY <3>1
    <3>4. net' \in [Ids -> UNION {NetStates(i) : i \in Ids}]
      BY <3>1, <3>2, <3>3
    <3>5. \A i \in Ids : net'[i] \in NetStates(i)
      BY <3>1, <3>2
    <3> QED
      BY <3>4, <3>5 DEF Networks
  <2> QED
    BY <1>t, <1>1, <1>a, <2>1
       DEF NetworkChange, feederVars, updateVars, Types, TypeOK, EventsAreSent,
           LoopsAreRight, Existing, Adding, Busy
<1>2. CASE Cancel \/ FeederStep \/ InterfaceLeaves
  <2>1. UNCHANGED <<netVars, updateVars, iface>>
    BY <1>2 DEF Cancel, FeederStep, FeederOffer, FeederDone, FeederAwaitChange,
         InterfaceLeaves, InterfaceUnchanged
  <2>2. EventsAreSent' /\ LoopsAreRight'
    BY <1>t, <1>a, <2>1
       DEF updateVars, EventsAreSent, LoopsAreRight, Existing, Adding, Busy
  <2>3. CASE Cancel
    BY <1>t, <1>a, <2>1, <2>2, <2>3
       DEF Cancel, netVars, feederVars, updateVars, Types, TypeOK
  <2>4. CASE FeederStep
    <3>0. /\ feeder \in {"offer", "await", "returned"} /\ intCh \in BOOLEAN
          /\ heard \in 0 .. seq /\ seq \in Nat
      BY <1>t DEF TypeOK
    <3>1. /\ feeder' \in {"offer", "await", "returned"} /\ intCh' \in BOOLEAN
          /\ heard' \in 0 .. seq
      <4>1. CASE FeederOffer
        BY <3>0, <4>1 DEF FeederOffer
      <4>2. CASE FeederDone
        BY <3>0, <4>2 DEF FeederDone
      <4>3. CASE FeederAwaitChange
        BY <3>0, <4>3 DEF FeederAwaitChange
      <4> QED
        BY <2>4, <4>1, <4>2, <4>3 DEF FeederStep
    <3>2. ctxDone' = ctxDone /\ leaving' = leaving
      BY <2>4 DEF FeederStep, FeederOffer, FeederDone, FeederAwaitChange
    <3> QED
      BY <1>t, <1>a, <2>1, <2>2, <3>1, <3>2 DEF netVars, updateVars, Types, TypeOK
  <2>5. CASE InterfaceLeaves
    BY <1>t, <1>a, <2>1, <2>2, <2>5
       DEF InterfaceLeaves, InterfaceUnchanged, netVars, feederVars, updateVars, Types, TypeOK
  <2> QED
    BY <1>2, <2>3, <2>4, <2>5
<1>3. CASE UpdaterDone \/ UpdaterError
  BY <1>t, <1>3, <1>a
     DEF UpdaterDone, UpdaterError, UpdaterUnchanged, netVars, feederVars, Types, TypeOK,
         EventsAreSent, LoopsAreRight, Existing, Adding, Busy
<1>4. CASE UpdaterBegin
  BY <1>t, <1>4, <1>a
     DEF UpdaterBegin, UpdaterUnchanged, netVars, feederVars, Types, TypeOK,
         EventsAreSent, LoopsAreRight, Existing, Adding, Busy, Table
<1>5. CASE UpdaterExisting
  BY <1>t, <1>5, <1>a
     DEF UpdaterExisting, Send, Skip, UpdaterUnchanged, netVars, feederVars, Types, TypeOK,
         EventsAreSent, LoopsAreRight, Existing, Adding, Busy, Events
<1>6. CASE UpdaterCheckUp
  BY <1>t, <1>6, <1>a, CheckUpCases
     DEF UpdaterCheckUp, Send, Skip, UpdaterUnchanged, netVars, feederVars, Types, TypeOK,
         EventsAreSent, LoopsAreRight, Existing, Adding, Busy, Events
<1>7. CASE UpdaterCheckLoop
  BY <1>t, <1>7, <1>a, CheckLoopCases
     DEF UpdaterCheckLoop, Send, Skip, UpdaterUnchanged, netVars, feederVars, Types, TypeOK,
         EventsAreSent, LoopsAreRight, Existing, Adding, Busy, Events
<1>8. CASE UpdaterExistingDone
  <2>1. /\ updater = "existing" /\ updater' = "add" /\ snap' = snap /\ iface' = iface
        /\ todo' = {id \in Ids : snap[id].present} \ Table
    BY <1>8 DEF UpdaterExistingDone, Skip
  <2>2. \A id \in Table : snap[id].present
    BY <1>8, <2>1 DEF UpdaterExistingDone, IInv, PassedIsPresent, Existing, Busy
  <2>3. LoopsAreRight'
    BY <1>a, <2>1, <2>2 DEF LoopsAreRight, Existing, Adding, Busy, Table
  <2> QED
    BY <1>t, <1>8, <1>a, <2>1, <2>3
       DEF UpdaterExistingDone, Skip, UpdaterUnchanged, netVars, feederVars, Types, TypeOK,
           EventsAreSent
<1>9. CASE UpdaterAdd
  <2>1. PICK id \in todo :
            /\ todo' = todo \ {id} /\ iface' = [iface EXCEPT ![id] = NewInterface]
            /\ Send(id, "InterfaceUp", "addLoop") \/ Skip(id, "addLoop")
    BY <1>9 DEF UpdaterAdd
  <2>2. id \in Ids /\ updater = "add"
    BY <1>t, <1>9, <2>1 DEF TypeOK, UpdaterAdd
  <2>3. iface' \in [Ids -> InterfaceRecords] /\ Table' = Table \cup {id}
    BY <1>t, <2>1, <2>2
       DEF TypeOK, InterfaceRecords, NewInterface, NoInterface, Table
  <2>4. LoopsAreRight'
    BY <1>t, <1>9, <2>1, <2>2, <2>3
       DEF UpdaterAdd, Send, Skip, LoopsAreRight, Existing, Adding, Busy
  <2>5. EventsAreSent'
    BY <1>t, <2>1, <2>2
       DEF Send, Skip, EventsAreSent, Events, TypeOK, NewInterface, NoInterface
  <2> QED
    BY <1>t, <1>9, <2>1, <2>2, <2>3, <2>4, <2>5
       DEF UpdaterAdd, Send, Skip, UpdaterUnchanged, netVars, feederVars, Types, TypeOK,
           InterfaceRecords, Events
<1>10. CASE UpdaterAddLoop \/ UpdaterAddDone
  BY <1>t, <1>10, <1>a
     DEF UpdaterAddLoop, UpdaterAddDone, Send, Skip, UpdaterUnchanged, netVars, feederVars,
         Types, TypeOK, EventsAreSent, LoopsAreRight, Existing, Adding, Busy, Events
<1>11. CASE SendEvent
  <2> DEFINE r == [iface[cur] EXCEPT !.pc = "handle", !.event = event,
                                     !.wait = (after = "ack")]
  <2>1. /\ updater = "send" /\ cur \in Ids /\ event \in Events /\ after # "select"
        /\ iface[cur] \in InterfaceRecords /\ iface[cur].pc = "select"
    BY <1>t, <1>11 DEF SendEvent, TypeOK, EventsAreSent, Table, InterfaceRecords
  <2>2. iface' = [iface EXCEPT ![cur] = r] /\ r \in InterfaceRecords
    BY <1>t, <1>11, <2>1 DEF SendEvent, InterfaceRecords, TypeOK
  <2>3. r.pc = "handle" /\ r.event = event
    BY <2>1 DEF InterfaceRecords
  <2>4. iface' \in [Ids -> InterfaceRecords] /\ Table' = Table /\ EventsAreSent'
    BY <1>t, <1>11, <2>1, <2>2, <2>3
       DEF SendEvent, TypeOK, InterfaceRecords, EventsAreSent, Table
  <2>5. LoopsAreRight'
    <3>1. updater' = after /\ todo' = todo /\ snap' = snap /\ cur' = cur
      BY <1>11 DEF SendEvent
    <3>2. /\ updater' # "send" /\ updater' # "select"
          /\ (Existing' => Existing) /\ (Adding' => Adding) /\ Busy
      BY <1>t, <2>1, <3>1 DEF TypeOK, Existing, Adding, Busy
    <3> QED
      BY <1>t, <2>4, <3>1, <3>2 DEF LoopsAreRight
  <2>6. TypeOK'
    BY <1>t, <1>11, <2>1, <2>4
       DEF SendEvent, UpdaterUnchanged, netVars, feederVars, TypeOK, InterfaceRecords
  <2> QED
    BY <2>4, <2>5, <2>6 DEF Types
<1>12. CASE RemoveInterface
  BY <1>t, <1>12
     DEF RemoveInterface, netVars, feederVars, Types, TypeOK, NoInterface,
         EventsAreSent, LoopsAreRight, Existing, Adding, Busy, Table
<1>13. ASSUME NEW i \in Ids, InterfaceStep(i) PROVE Types'
  <2>1. EventsAreSent'
    BY <1>t, <1>13, InterfaceEffect
       DEF InterfaceStep, InterfaceStart, HandleEvent, InterfaceHello, InterfaceDone,
           EventsAreSent, TypeOK
  <2> QED
    BY <1>t, <1>13, <2>1, InterfaceEffect
       DEF Types, TypeOK, InterfaceRecords, LoopsAreRight, Existing, Adding, Busy
<1>14. ASSUME NEW i \in Ids, MapRace(i) PROVE Types'
  <2>1. iface' \in [Ids -> InterfaceRecords]
    BY <1>14 DEF MapRace, NoInterface, InterfaceRecords
  <2>2. EventsAreSent' /\ LoopsAreRight'
    BY <1>14 DEF MapRace, EventsAreSent, LoopsAreRight, Existing, Adding, Busy, NoInterface
  <2> QED
    BY <1>t, <1>14, <2>1, <2>2 DEF MapRace, netVars, Types, TypeOK, InterfaceRecords
<1>15. CASE UNCHANGED vars
  BY <1>t, <1>15, <1>a
     DEF vars, Types, TypeOK, EventsAreSent, LoopsAreRight, Existing, Adding, Busy
<1> QED
  BY <1>1, <1>2, <1>3, <1>4, <1>5, <1>6, <1>7, <1>8, <1>9, <1>10, <1>11, <1>12, <1>13,
     <1>14, <1>15 DEF Next, UpdaterStep


\* The steps that leave the updater and the interfaces alone.
LEMMA QuietEffect ==
  ASSUME NetworkChange \/ Cancel \/ FeederStep \/ InterfaceLeaves \/ UNCHANGED vars
  PROVE  UNCHANGED <<updater, snap, todo, cur, event, after, stale, iface>> /\ Table' = Table
<1>1. UNCHANGED <<updater, snap, todo, cur, event, after, stale, iface>>
  BY DEF NetworkChange, Cancel, FeederStep, FeederOffer, FeederDone, FeederAwaitChange,
         InterfaceLeaves, InterfaceUnchanged, updateVars, vars
<1> QED
  BY <1>1 DEF Table

\* The updater returns, with the instance stopped or with an error.
LEMMA ReturnEffect ==
  ASSUME UpdaterDone \/ UpdaterError
  PROVE  /\ updater = "select" /\ updater' = "returned"
         /\ UNCHANGED <<snap, todo, cur, event, after, stale, iface>> /\ Table' = Table
<1>1. /\ updater = "select" /\ updater' = "returned"
      /\ UNCHANGED <<snap, todo, cur, event, after, stale, iface>>
  BY DEF UpdaterDone, UpdaterError
<1> QED
  BY <1>1 DEF Table

\* What is received: the interface cur has the event, and handles it next.
LEMMA SendEffect ==
  ASSUME IInv, SendEvent
  PROVE  /\ updater = "send" /\ cur \in Ids /\ iface[cur].pc = "select"
         /\ updater' = after /\ after # "select" /\ event \in Events
         /\ UNCHANGED <<snap, todo, cur, stale>>
         /\ \A id \in Ids : id # cur => iface'[id] = iface[id]
         /\ iface'[cur].pc = "handle" /\ iface'[cur].event = event
         /\ iface'[cur].wait = (after = "ack")
         /\ iface'[cur].state = iface[cur].state /\ iface'[cur].hello = iface[cur].hello
         /\ Table' = Table
<1>1. /\ updater = "send" /\ cur \in Ids /\ event \in Events /\ after # "select"
      /\ iface[cur] \in InterfaceRecords /\ iface[cur].pc = "select"
      /\ iface \in [Ids -> InterfaceRecords]
  BY DEF SendEvent, IInv, TypeOK, EventsAreSent, Table, InterfaceRecords
<1>2. /\ updater' = after /\ UNCHANGED <<snap, todo, cur, stale>>
      /\ iface' = [iface EXCEPT ![cur].pc = "handle", ![cur].event = event,
                                ![cur].wait = (after = "ack")]
  BY DEF SendEvent
<1>3. /\ \A id \in Ids : id # cur => iface'[id] = iface[id]
      /\ iface'[cur].pc = "handle" /\ iface'[cur].event = event
      /\ iface'[cur].wait = (after = "ack")
      /\ iface'[cur].state = iface[cur].state /\ iface'[cur].hello = iface[cur].hello
  BY <1>1, <1>2 DEF InterfaceRecords
<1>4. Table' = Table
  BY <1>1, <1>3 DEF Table
<1> QED
  BY <1>1, <1>2, <1>3, <1>4

\* The loop over the table sends an interface that is not on the machine to its
\* removal, and keeps the others.
LEMMA PassedStep == IInv /\ [Next]_vars => PassedIsPresent'
<1> SUFFICES ASSUME IInv, [Next]_vars PROVE PassedIsPresent'
  OBVIOUS
<1> USE NoIdAssumption DEF PassedIsPresent, Existing, Busy
<1>t. TypeOK /\ PassedIsPresent
  BY DEF IInv
<1>1. CASE NetworkChange \/ Cancel \/ FeederStep \/ InterfaceLeaves \/ UNCHANGED vars
  BY <1>t, <1>1, QuietEffect
<1>2. CASE UpdaterDone \/ UpdaterError
  BY <1>2, ReturnEffect
<1>3. CASE UpdaterBegin
  BY <1>3 DEF UpdaterBegin, Table
<1>4. CASE UpdaterExisting
  BY <1>t, <1>4 DEF UpdaterExisting, Send, Skip, Table
<1>5. CASE UpdaterCheckUp
  BY <1>t, <1>5, CheckUpCases DEF UpdaterCheckUp, Send, Skip, Table
<1>6. CASE UpdaterCheckLoop
  BY <1>t, <1>6, CheckLoopCases DEF UpdaterCheckLoop, Send, Skip, Table
<1>7. CASE UpdaterExistingDone \/ UpdaterAddDone
  BY <1>7 DEF UpdaterExistingDone, UpdaterAddDone, Skip
<1>8. CASE UpdaterAdd \/ UpdaterAddLoop
  BY <1>8 DEF UpdaterAdd, UpdaterAddLoop, Send, Skip
<1>9. CASE SendEvent
  <2>1. after \in {"existing", "checkLoop", "add", "addLoop", "ack"}
    BY <1>t, <1>9, SendEffect DEF TypeOK
  <2> QED
    BY <1>t, <1>9, <2>1, SendEffect
<1>10. CASE RemoveInterface
  <2>1. /\ updater = "ack" /\ updater' = "existing" /\ cur \in Ids
        /\ UNCHANGED <<snap, todo>> /\ iface' = [iface EXCEPT ![cur] = NoInterface]
    BY <1>t, <1>10 DEF RemoveInterface, TypeOK, Table
  <2>2. Table' = Table \ {cur}
    BY <1>t, <2>1 DEF TypeOK, Table, NoInterface
  <2> QED
    BY <1>t, <2>1, <2>2
<1>11. ASSUME NEW i \in Ids, InterfaceStep(i) PROVE PassedIsPresent'
  BY <1>t, <1>11, InterfaceEffect
<1>12. ASSUME NEW i \in Ids, MapRace(i) PROVE PassedIsPresent'
  BY <1>12 DEF MapRace
<1> QED
  BY <1>1, <1>2, <1>3, <1>4, <1>5, <1>6, <1>7, <1>8, <1>9, <1>10, <1>11, <1>12
     DEF Next, UpdaterStep

\* What each step of the goroutine of an interface does to its record.
LEMMA InterfaceCases ==
  ASSUME IInv, NEW i \in Ids, InterfaceStep(i)
  PROVE  /\ \A id \in Ids : id # i => iface'[id] = iface[id]
         /\ \/ /\ iface[i].pc = "spawned" /\ iface'[i].pc = "select"
               /\ iface'[i].state = iface[i].state /\ iface'[i].hello = iface[i].hello
            \/ /\ iface[i].pc = "handle" /\ iface[i].event \in Events
               /\ iface'[i].pc = IF iface[i].wait THEN "ack" ELSE "select"
               /\ iface'[i].state = NextState(iface[i].event)
               /\ iface'[i].hello = (iface[i].hello \/ iface[i].event = "InterfaceUp")
            \/ /\ iface[i].pc = "select" /\ iface'[i].pc = "select"
               /\ iface'[i].state = iface[i].state /\ iface'[i].hello
            \/ /\ iface[i].pc = "select" /\ iface'[i].pc = "returned"
               /\ iface'[i].state = iface[i].state
<1>t. iface \in [Ids -> InterfaceRecords] /\ iface[i] \in InterfaceRecords /\ EventsAreSent
  BY DEF IInv, TypeOK, InterfaceRecords
<1> USE DEF InterfaceRecords
<1>1. CASE InterfaceStart(i)
  BY <1>t, <1>1 DEF InterfaceStart
<1>2. CASE HandleEvent(i)
  BY <1>t, <1>2 DEF HandleEvent, EventsAreSent
<1>3. CASE InterfaceHello(i)
  BY <1>t, <1>3 DEF InterfaceHello
<1>4. CASE InterfaceDone(i)
  BY <1>t, <1>4 DEF InterfaceDone
<1> QED
  BY <1>1, <1>2, <1>3, <1>4 DEF InterfaceStep

\* A new interface.
LEMMA AddEffect ==
  ASSUME IInv, UpdaterAdd
  PROVE  \E id \in todo :
            /\ updater = "add" /\ id \in Ids /\ id \notin Table /\ snap[id].present
            /\ todo' = todo \ {id}
            /\ iface' = [iface EXCEPT ![id] = NewInterface]
            /\ iface'[id] = NewInterface
            /\ \A i \in Ids : i # id => iface'[i] = iface[i]
            /\ \/ snap[id].up /\ Send(id, "InterfaceUp", "addLoop")
               \/ ~snap[id].up /\ Skip(id, "addLoop")
            /\ Table' = Table \cup {id}
            /\ snap' = snap /\ stale' = stale
<1>1. PICK id \in todo :
         /\ todo' = todo \ {id} /\ iface' = [iface EXCEPT ![id] = NewInterface]
         /\ IF snap[id].up THEN Send(id, "InterfaceUp", "addLoop") ELSE Skip(id, "addLoop")
  BY DEF UpdaterAdd
<1>2. /\ updater = "add" /\ id \in Ids /\ snap' = snap /\ stale' = stale
      /\ iface \in [Ids -> InterfaceRecords]
  BY <1>1 DEF UpdaterAdd, IInv, TypeOK, InterfaceRecords
<1>3. id \notin Table /\ snap[id].present
  BY <1>1, <1>2 DEF IInv, LoopsAreRight, Adding
<1>4. iface'[id] = NewInterface /\ \A i \in Ids : i # id => iface'[i] = iface[i]
  BY <1>1, <1>2
<1>5. Table' = Table \cup {id}
  BY <1>2, <1>4 DEF Table, NewInterface, NoInterface
<1>6. \/ snap[id].up /\ Send(id, "InterfaceUp", "addLoop")
      \/ ~snap[id].up /\ Skip(id, "addLoop")
  BY <1>1
<1> QED
  BY <1>1, <1>2, <1>3, <1>4, <1>5, <1>6

\* An interface is removed.
LEMMA RemoveEffect ==
  ASSUME IInv, RemoveInterface
  PROVE  /\ updater = "ack" /\ updater' = "existing" /\ cur \in Ids /\ cur' = NoId
         /\ iface[cur].pc = "ack"
         /\ UNCHANGED <<snap, todo, stale>>
         /\ iface'[cur] = NoInterface
         /\ \A i \in Ids : i # cur => iface'[i] = iface[i]
         /\ Table' = Table \ {cur}
<1>1. /\ updater = "ack" /\ updater' = "existing" /\ cur' = NoId /\ iface[cur].pc = "ack"
      /\ UNCHANGED <<snap, todo, stale>> /\ iface' = [iface EXCEPT ![cur] = NoInterface]
  BY DEF RemoveInterface
<1>2. cur \in Ids /\ iface \in [Ids -> InterfaceRecords]
  BY <1>1 DEF IInv, TypeOK, Table, InterfaceRecords
<1>3. iface'[cur] = NoInterface /\ \A i \in Ids : i # cur => iface'[i] = iface[i]
  BY <1>1, <1>2
<1>4. Table' = Table \ {cur}
  BY <1>2, <1>3 DEF Table, NoInterface
<1> QED
  BY <1>1, <1>2, <1>3, <1>4

\* The race ends the process; whatever was in the table is at rest.
LEMMA RaceEffect ==
  ASSUME NEW i \in Ids, MapRace(i)
  PROVE  /\ updater' = "aborted" /\ Table' = Table /\ cur' = NoId
         /\ UNCHANGED <<snap, event, after, stale>>
         /\ \A id \in Ids : /\ iface'[id].pc \in {"none", "returned"}
                            /\ iface'[id].state = "Down"
<1>1. /\ updater' = "aborted" /\ cur' = NoId
      /\ UNCHANGED <<snap, event, after, stale>>
      /\ iface' = [j \in Ids |-> IF j \in Table THEN [NoInterface EXCEPT !.pc = "returned"]
                                                ELSE NoInterface]
  BY DEF MapRace
<1>2. \A id \in Ids : /\ iface'[id].pc = IF id \in Table THEN "returned" ELSE "none"
                      /\ iface'[id].state = "Down"
  BY <1>1 DEF NoInterface
<1>3. Table' = Table
  BY <1>2 DEF Table
<1> QED
  BY <1>1, <1>2, <1>3

\* The steps of the updater that leave the interfaces alone.
LEMMA UpdaterFrame ==
  ASSUME \/ UpdaterBegin \/ UpdaterExisting \/ UpdaterCheckUp \/ UpdaterCheckLoop
         \/ UpdaterExistingDone \/ UpdaterAddLoop \/ UpdaterAddDone
  PROVE  iface' = iface /\ Table' = Table
<1>1. iface' = iface
  BY DEF UpdaterBegin, UpdaterExisting, UpdaterCheckUp, UpdaterCheckLoop,
         UpdaterExistingDone, UpdaterAddLoop, UpdaterAddDone
<1> QED
  BY <1>1 DEF Table

\* Only the removal of an interface waits, and it sends InterfaceDown.
LEMMA WaitStep == IInv /\ [Next]_vars => WaitIsForDown'
<1> SUFFICES ASSUME IInv, [Next]_vars PROVE WaitIsForDown'
  OBVIOUS
<1> USE DEF WaitIsForDown
<1>t. TypeOK /\ WaitIsForDown
  BY DEF IInv
<1>1. CASE NetworkChange \/ Cancel \/ FeederStep \/ InterfaceLeaves \/ UNCHANGED vars
  BY <1>t, <1>1, QuietEffect
<1>2. CASE UpdaterDone \/ UpdaterError
  BY <1>t, <1>2, ReturnEffect
<1>3. CASE UpdaterBegin \/ UpdaterExistingDone \/ UpdaterAddDone
  <2>1. updater' # "send" /\ iface' = iface
    BY <1>3 DEF UpdaterBegin, UpdaterExistingDone, UpdaterAddDone, Skip
  <2> QED
    BY <1>t, <2>1
<1>4. CASE UpdaterExisting
  BY <1>t, <1>4, UpdaterFrame DEF UpdaterExisting, Send, Skip
<1>5. CASE UpdaterCheckUp
  BY <1>t, <1>5, UpdaterFrame, CheckUpCases DEF Send, Skip
<1>6. CASE UpdaterCheckLoop
  BY <1>t, <1>6, UpdaterFrame, CheckLoopCases DEF Send, Skip
<1>7. CASE UpdaterAdd
  BY <1>t, <1>7, AddEffect DEF Send, Skip, NewInterface, NoInterface
<1>8. CASE UpdaterAddLoop
  BY <1>t, <1>8, UpdaterFrame DEF UpdaterAddLoop, Send, Skip
<1>9. CASE SendEvent
  <2>1. updater' # "send"
    BY <1>t, <1>9, SendEffect DEF TypeOK
  <2>2. iface'[cur].wait => iface'[cur].event = "InterfaceDown"
    BY <1>t, <1>9, SendEffect
  <2>3. ASSUME NEW id \in Ids
        PROVE  /\ iface'[id].pc = "handle" /\ iface'[id].wait =>
                     iface'[id].event = "InterfaceDown"
               /\ iface'[id].pc = "ack" => iface'[id].state = "Down"
    <3>1. CASE id = cur
      BY <1>9, <2>2, <3>1, SendEffect
    <3>2. CASE id # cur
      BY <1>t, <1>9, <3>2, SendEffect
    <3> QED
      BY <3>1, <3>2
  <2> QED
    BY <2>1, <2>3
<1>10. CASE RemoveInterface
  BY <1>t, <1>10, RemoveEffect DEF NoInterface
<1>11. ASSUME NEW i \in Ids, InterfaceStep(i) PROVE WaitIsForDown'
  BY <1>t, <1>11, InterfaceEffect, InterfaceCases DEF NextState
<1>12. ASSUME NEW i \in Ids, MapRace(i) PROVE WaitIsForDown'
  BY <1>12, RaceEffect
<1> QED
  BY <1>1, <1>2, <1>3, <1>4, <1>5, <1>6, <1>7, <1>8, <1>9, <1>10, <1>11, <1>12
     DEF Next, UpdaterStep

\* Without LoopInd and UnloopInd, an interface gets to PointToPoint only through
\* InterfaceUp, which starts the hello timer.
LEMMA HelloStep == IInv /\ [Next]_vars => NeverLooped' /\ HelloRunsUnlessLoopback'
<1> SUFFICES ASSUME IInv, [Next]_vars PROVE NeverLooped' /\ HelloRunsUnlessLoopback'
  OBVIOUS
<1> USE NoIdAssumption DEF NeverLooped, HelloRunsUnlessLoopback
<1>t. TypeOK /\ NeverLooped /\ HelloRunsUnlessLoopback
  BY DEF IInv
<1>s. \A id \in Ids \ Loopbacks : ~snap[id].loop
  BY <1>t, SnapType DEF TypeOK
<1>1. CASE NetworkChange \/ Cancel \/ FeederStep \/ InterfaceLeaves \/ UNCHANGED vars
  BY <1>t, <1>1, QuietEffect
<1>2. CASE UpdaterDone \/ UpdaterError
  BY <1>t, <1>2, ReturnEffect
<1>3. CASE UpdaterBegin \/ UpdaterExistingDone \/ UpdaterAddDone
  <2>1. updater' # "send" /\ iface' = iface
    BY <1>3 DEF UpdaterBegin, UpdaterExistingDone, UpdaterAddDone, Skip
  <2> QED
    BY <1>t, <2>1
<1>4. CASE UpdaterExisting
  BY <1>t, <1>4, UpdaterFrame DEF UpdaterExisting, Send, Skip
<1>5. CASE UpdaterCheckUp
  BY <1>t, <1>5, UpdaterFrame, CheckUpCases DEF Send, Skip
<1>6. CASE UpdaterCheckLoop
  <2>1. iface' = iface /\ cur \in Ids
    BY <1>t, <1>6, UpdaterFrame DEF UpdaterCheckLoop, TypeOK, Table
  <2>2. updater' = "send" => cur' = cur /\ (cur \in Loopbacks)
    BY <1>t, <1>s, <1>6, <2>1, CheckLoopCases DEF Send, Skip, IsLoopback
  <2> QED
    BY <1>t, <2>1, <2>2
<1>7. CASE UpdaterAdd
  BY <1>t, <1>7, AddEffect DEF Send, Skip, NewInterface, NoInterface
<1>8. CASE UpdaterAddLoop
  BY <1>t, <1>s, <1>8, UpdaterFrame DEF UpdaterAddLoop, Send, Skip
<1>9. CASE SendEvent
  <2>1. updater' # "send"
    BY <1>t, <1>9, SendEffect DEF TypeOK
  <2> QED
    BY <1>t, <1>9, <2>1, SendEffect
<1>10. CASE RemoveInterface
  BY <1>t, <1>10, RemoveEffect DEF NoInterface
<1>11. ASSUME NEW i \in Ids, InterfaceStep(i) 
       PROVE  NeverLooped' /\ HelloRunsUnlessLoopback'
  <2>1. iface[i].hello \in BOOLEAN
    BY <1>t DEF TypeOK
  <2>2. UNCHANGED <<updater, cur, event>> /\ \A id \in Ids : id # i => iface'[id] = iface[id]
    BY <1>11, InterfaceEffect, InterfaceCases
  <2>3. CASE /\ iface[i].pc = "handle" /\ iface[i].event \in Events
             /\ iface'[i].pc = IF iface[i].wait THEN "ack" ELSE "select"
             /\ iface'[i].state = NextState(iface[i].event)
             /\ iface'[i].hello = (iface[i].hello \/ iface[i].event = "InterfaceUp")
    BY <1>t, <2>1, <2>2, <2>3 DEF NextState, Events
  <2>4. CASE /\ iface[i].pc = "spawned" /\ iface'[i].pc = "select"
             /\ iface'[i].state = iface[i].state /\ iface'[i].hello = iface[i].hello
    BY <1>t, <2>1, <2>2, <2>4
  <2>5. CASE /\ iface'[i].state = iface[i].state
             /\ iface'[i].pc = "returned" \/ (iface'[i].pc = "select" /\ iface'[i].hello)
    BY <1>t, <2>1, <2>2, <2>5
  <2> QED
    BY <1>11, <2>3, <2>4, <2>5, InterfaceCases
<1>12. ASSUME NEW i \in Ids, MapRace(i) PROVE NeverLooped' /\ HelloRunsUnlessLoopback'
  BY <1>12, RaceEffect
<1> QED
  BY <1>1, <1>2, <1>3, <1>4, <1>5, <1>6, <1>7, <1>8, <1>9, <1>10, <1>11, <1>12
     DEF Next, UpdaterStep

\* A send to a new interface ends after its goroutine has read the map.
LEMMA RaceStep == IInv /\ [Next]_vars => SpawnedIsIdle' /\ RacesOnlyIfIdle'
<1> SUFFICES ASSUME IInv, [Next]_vars PROVE SpawnedIsIdle' /\ RacesOnlyIfIdle'
  OBVIOUS
<1> USE NoIdAssumption DEF SpawnedIsIdle, RacesOnlyIfIdle
<1>t. TypeOK /\ SpawnedIsIdle /\ RacesOnlyIfIdle /\ LoopsAreRight
  BY DEF IInv
<1>s. \A id \in Ids : iface[id].pc = "spawned" => id \in Table
  BY DEF Table
<1>1. CASE NetworkChange \/ Cancel \/ FeederStep \/ InterfaceLeaves \/ UNCHANGED vars
  BY <1>t, <1>1, QuietEffect
<1>2. CASE UpdaterDone \/ UpdaterError
  BY <1>t, <1>2, ReturnEffect
<1>3. CASE UpdaterBegin
  BY <1>t, <1>s, <1>3 DEF UpdaterBegin
<1>4. CASE UpdaterExisting
  BY <1>t, <1>4, UpdaterFrame DEF UpdaterExisting, Send, Skip
<1>5. CASE UpdaterCheckUp
  BY <1>t, <1>5, UpdaterFrame, CheckUpCases DEF UpdaterCheckUp, Send, Skip, IsUp
<1>6. CASE UpdaterCheckLoop
  BY <1>t, <1>6, UpdaterFrame, CheckLoopCases DEF UpdaterCheckLoop, Send, Skip, IsLoopback
<1>7. CASE UpdaterExistingDone \/ UpdaterAddDone
  BY <1>t, <1>7, UpdaterFrame DEF UpdaterExistingDone, UpdaterAddDone, Skip
<1>8. CASE UpdaterAdd
  BY <1>t, <1>8, AddEffect DEF Send, Skip, NewInterface, NoInterface
<1>9. CASE UpdaterAddLoop
  BY <1>t, <1>9, UpdaterFrame DEF UpdaterAddLoop, Send, Skip
<1>10. CASE SendEvent
  BY <1>t, <1>10, SendEffect
<1>11. CASE RemoveInterface
  BY <1>t, <1>11, RemoveEffect DEF NoInterface
<1>12. ASSUME NEW i \in Ids, InterfaceStep(i) PROVE SpawnedIsIdle' /\ RacesOnlyIfIdle'
  BY <1>t, <1>12, InterfaceEffect, InterfaceCases
<1>13. ASSUME NEW i \in Ids, MapRace(i) PROVE SpawnedIsIdle' /\ RacesOnlyIfIdle'
  BY <1>13, RaceEffect
<1> QED
  BY <1>1, <1>2, <1>3, <1>4, <1>5, <1>6, <1>7, <1>8, <1>9, <1>10, <1>11, <1>12, <1>13
     DEF Next, UpdaterStep

\* What an interface will be depends on its record alone.
LEMMA SettlingFrame ==
  ASSUME NEW id \in Ids, iface'[id] = iface[id]
  PROVE  Settling(id)' = Settling(id)
BY DEF Settling

\* The part of the invariant that says how far the update is.
Agreement == ~stale => DoneUnlessBusy /\ BusyIsRight

\* Where a read of State was up to date, it says what the interface will be.
LEMMA AgreeStep == IInv /\ [Next]_vars => Agreement'
<1> SUFFICES ASSUME IInv, [Next]_vars, ~stale' PROVE DoneUnlessBusy' /\ BusyIsRight'
  BY DEF Agreement
<1> USE NoIdAssumption DEF DoneUnlessBusy, BusyIsRight, DoneWith, Existing, Adding, Busy
<1>t. /\ TypeOK /\ LoopsAreRight /\ (~stale => DoneUnlessBusy /\ BusyIsRight)
      /\ stale \in BOOLEAN
  BY DEF IInv, TypeOK
<1>s. \A id \in Ids : /\ snap[id].up \in BOOLEAN /\ snap[id].loop \in BOOLEAN
                      /\ ~snap[id].present => ~snap[id].up /\ ~snap[id].loop
  BY <1>t, SnapType DEF TypeOK
<1>a. ASSUME iface' = iface PROVE \A id \in Ids : Settling(id)' = Settling(id)
  BY <1>a, SettlingFrame
<1>b. Table \subseteq Ids
  BY DEF Table
<1>1. CASE NetworkChange \/ Cancel \/ FeederStep \/ InterfaceLeaves \/ UNCHANGED vars
  <2>1. UNCHANGED <<updater, snap, todo, cur, event, after, stale, iface>> /\ Table' = Table
    BY <1>1, QuietEffect
  <2>2. DoneUnlessBusy'
    BY <1>t, <1>a, <1>b, <2>1 
  <2>3. BusyIsRight'
    BY <1>t, <1>a, <1>b, <2>1 DEF TypeOK
  <2> QED
    BY <2>2, <2>3
<1>2. CASE UpdaterDone \/ UpdaterError
  BY <1>t, <1>2, ReturnEffect
<1>3. CASE UpdaterBegin
  BY <1>3, UpdaterFrame DEF UpdaterBegin
<1>4. CASE UpdaterExisting
  <2>1. /\ updater = "existing" /\ iface' = iface /\ Table' = Table /\ snap' = snap
        /\ stale' = stale
    BY <1>4, UpdaterFrame DEF UpdaterExisting
  <2>2. PICK id \in todo : /\ todo' = todo \ {id}
                           /\ \/ Skip(id, "checkUp")
                              \/ Send(id, "InterfaceDown", "ack")
    BY <1>4 DEF UpdaterExisting
  <2>3. DoneUnlessBusy'
    BY <1>t, <1>a, <1>b, <2>1, <2>2 DEF Send, Skip
  <2>4. BusyIsRight'
    BY <2>2 DEF Send, Skip
  <2> QED
    BY <2>3, <2>4
<1>5. CASE UpdaterCheckUp
  <2>1. /\ updater = "checkUp" /\ iface' = iface /\ Table' = Table /\ snap' = snap
        /\ todo' = todo /\ cur \in Table /\ ~stale /\ cur \in Ids
        /\ IsUp(cur) = (Settling(cur) # "Down")
    BY <1>t, <1>b, <1>5, UpdaterFrame DEF UpdaterCheckUp, TypeOK, IsUp
  <2>2. cur' = cur /\ (updater' = "checkLoop" \/ (updater' = "send" /\ after' = "checkLoop"))
    BY <1>5, CheckUpCases DEF Send, Skip
  <2>3. DoneUnlessBusy'
    BY <1>t, <1>a, <1>b, <2>1, <2>2
  <2>4. BusyIsRight'
    BY <1>s, <1>a, <1>5, <2>1, <2>2, CheckUpCases DEF Send, Skip, NextState
  <2> QED
    BY <2>3, <2>4
<1>6. CASE UpdaterCheckLoop
  <2>1. /\ updater = "checkLoop" /\ iface' = iface /\ Table' = Table /\ snap' = snap
        /\ todo' = todo /\ cur \in Table /\ ~stale /\ cur \in Ids
        /\ IsLoopback(cur) = (Settling(cur) = "Loopback")
    BY <1>t, <1>b, <1>6, UpdaterFrame DEF UpdaterCheckLoop, TypeOK, IsLoopback
  <2>2. Settling(cur) # "Down" <=> snap[cur].up
    BY <1>t, <2>1
  <2>3. Settling(cur) \in {"Down", "PointToPoint", "Loopback"}
    <3>1. iface[cur].pc = "handle" => iface[cur].event \in Events
      BY <2>1 DEF IInv, EventsAreSent
    <3>2. iface[cur].state \in {"Down", "PointToPoint", "Loopback"}
      BY <1>t, <2>1 DEF TypeOK
    <3> QED
      BY <3>1, <3>2 DEF Settling, NextState, Events
  <2>4. CASE snap[cur].loop /\ ~IsLoopback(cur) /\ Send(cur, "LoopInd", "existing")
    <3>1. /\ updater' = "send" /\ after' = "existing" /\ cur' = cur
          /\ NextState(event') = StateFor(snap[cur])
      BY <2>4 DEF Send, NextState, StateFor
    <3> QED
      BY <1>t, <1>a, <1>b, <2>1, <3>1
  <2>5. CASE ~snap[cur].loop /\ IsLoopback(cur) /\ Send(cur, "UnloopInd", "existing")
    <3>1. /\ updater' = "send" /\ after' = "existing" /\ cur' = cur
          /\ NextState(event') = StateFor(snap[cur])
      BY <2>1, <2>2, <2>5 DEF Send, NextState, StateFor
    <3> QED
      BY <1>t, <1>a, <1>b, <2>1, <3>1
  <2>6. CASE (snap[cur].loop <=> IsLoopback(cur)) /\ Skip(NoId, "existing")
    <3>1. updater' = "existing" /\ Settling(cur) = StateFor(snap[cur])
      BY <1>s, <2>1, <2>2, <2>3, <2>6 DEF Skip, StateFor
    <3> QED
      BY <1>t, <1>a, <1>b, <2>1, <3>1
  <2> QED
    BY <1>6, <2>4, <2>5, <2>6, CheckLoopCases
<1>7. CASE UpdaterExistingDone
  <2>1. /\ updater = "existing" /\ iface' = iface /\ Table' = Table /\ snap' = snap
        /\ updater' = "add" /\ stale' = stale /\ todo = {}
    BY <1>7, UpdaterFrame DEF UpdaterExistingDone, Skip
  <2> QED
    BY <1>t, <1>a, <1>b, <2>1
<1>8. CASE UpdaterAddDone
  <2>1. /\ updater = "add" /\ iface' = iface /\ Table' = Table /\ snap' = snap
        /\ updater' = "select" /\ stale' = stale /\ todo' = todo
    BY <1>8, UpdaterFrame DEF UpdaterAddDone, Skip
  <2> QED
    BY <1>t, <1>a, <1>b, <2>1
<1>9. CASE UpdaterAdd
  <2>1. PICK id \in todo :
            /\ updater = "add" /\ id \in Ids /\ id \notin Table /\ snap[id].present
            /\ todo' = todo \ {id}
            /\ iface'[id] = NewInterface
            /\ \A i \in Ids : i # id => iface'[i] = iface[i]
            /\ \/ snap[id].up /\ Send(id, "InterfaceUp", "addLoop")
               \/ ~snap[id].up /\ Skip(id, "addLoop")
            /\ Table' = Table \cup {id}
            /\ snap' = snap /\ stale' = stale
    BY <1>9, AddEffect
  <2>2. /\ cur' = id
        /\ updater' = "addLoop" \/ (updater' = "send" /\ after' = "addLoop")
    BY <2>1 DEF Send, Skip
  <2>3. Settling(id)' = "Down" /\ \A i \in Ids : i # id => Settling(i)' = Settling(i)
    BY <2>1, SettlingFrame DEF Settling, NewInterface, NoInterface
  <2>4. DoneUnlessBusy'
    BY <1>t, <1>b, <2>1, <2>2, <2>3
  <2>5. BusyIsRight'
    BY <2>1, <2>2, <2>3 DEF Send, Skip, NextState
  <2> QED
    BY <2>4, <2>5
<1>10. CASE UpdaterAddLoop
  <2>1. /\ updater = "addLoop" /\ iface' = iface /\ Table' = Table /\ snap' = snap
        /\ todo' = todo /\ stale' = stale /\ cur \in Ids
        /\ IF snap[cur].loop THEN Send(cur, "LoopInd", "add") ELSE Skip(NoId, "add")
    BY <1>t, <1>b, <1>10, UpdaterFrame DEF UpdaterAddLoop, TypeOK
  <2>2. CASE snap[cur].loop
    <3>1. /\ updater' = "send" /\ after' = "add" /\ cur' = cur
          /\ NextState(event') = StateFor(snap[cur])
      BY <2>1, <2>2 DEF Send, NextState, StateFor
    <3> QED
      BY <1>t, <1>a, <1>b, <2>1, <3>1
  <2>3. CASE ~snap[cur].loop
    <3>1. updater' = "add" /\ Settling(cur) = StateFor(snap[cur])
      BY <1>t, <2>1, <2>3 DEF Skip, StateFor
    <3> QED
      BY <1>t, <1>a, <1>b, <2>1, <3>1
  <2> QED
    BY <2>2, <2>3
<1>11. CASE SendEvent
  <2>1. /\ updater = "send" /\ cur \in Ids /\ updater' = after
        /\ UNCHANGED <<snap, todo, cur, stale>> /\ Table' = Table
        /\ after \in {"existing", "checkLoop", "add", "addLoop", "ack"}
    BY <1>t, <1>11, SendEffect DEF TypeOK
  <2>2. Settling(cur)' = NextState(event)
    BY <1>11, SendEffect DEF Settling
  <2>3. \A id \in Ids : id # cur => Settling(id)' = Settling(id)
    BY <1>11, SendEffect, SettlingFrame
  <2>4. DoneUnlessBusy'
    BY <1>t, <1>b, <2>1, <2>2, <2>3
  <2>5. BusyIsRight'
    BY <1>t, <2>1, <2>2 DEF StateFor
  <2> QED
    BY <2>4, <2>5
<1>12. CASE RemoveInterface
  <2>1. \A id \in Ids : id # cur => Settling(id)' = Settling(id)
    BY <1>12, RemoveEffect, SettlingFrame
  <2> QED
    BY <1>t, <1>b, <1>12, <2>1, RemoveEffect
<1>13. ASSUME NEW i \in Ids, InterfaceStep(i) PROVE DoneUnlessBusy' /\ BusyIsRight'
  <2>1. /\ UNCHANGED <<updater, snap, todo, cur, event, after, stale>> /\ Table' = Table
        /\ \A id \in Ids : Settling(id)' = Settling(id)
    BY <1>13, InterfaceEffect
  <2>2. DoneUnlessBusy'
    BY <1>t, <1>b, <2>1
  <2>3. BusyIsRight'
    BY <1>t, <1>b, <2>1 DEF TypeOK
  <2> QED
    BY <2>2, <2>3
<1>14. ASSUME NEW i \in Ids, MapRace(i) PROVE DoneUnlessBusy' /\ BusyIsRight'
  BY <1>14, RaceEffect
<1> QED
  BY <1>1, <1>2, <1>3, <1>4, <1>5, <1>6, <1>7, <1>8, <1>9, <1>10, <1>11, <1>12, <1>13,
     <1>14 DEF Next, UpdaterStep

\* At first there is no interface, and the updater waits.
LEMMA IInvInit == Init => IInv
<1> SUFFICES ASSUME Init PROVE IInv
  OBVIOUS
<1> USE NoIdAssumption, MaxChangesAssumption
<1>1. (\A id \in Ids : iface[id] = NoInterface) /\ Table = {}
  BY DEF Init, Table, NoInterface
<1>2. snap \in Networks /\ \A id \in Ids : snap[id] = Gone
  BY DEF Init, Networks, NetStates
<1>3. iface \in [Ids -> InterfaceRecords]
  BY DEF Init, InterfaceRecords, NoInterface
<1>4. TypeOK
  <2>1. seq \in 0 .. MaxChanges /\ heard \in 0 .. seq /\ leaving \in Nat
    BY DEF Init
  <2>2. /\ net \in Networks /\ todo \subseteq Ids /\ cur \in Ids \cup {NoId}
        /\ updater = "select" /\ event \in Events \cup {NoEvent} /\ after = "select"
        /\ feeder = "offer" /\ intCh = FALSE /\ ctxDone = FALSE /\ stale = FALSE
    BY DEF Init
  <2> QED
    BY <1>2, <1>3, <2>1, <2>2 DEF TypeOK, InterfaceRecords
<1>5. EventsAreSent /\ LoopsAreRight /\ PassedIsPresent
  BY <1>1, <1>2
     DEF Init, EventsAreSent, LoopsAreRight, PassedIsPresent, Existing, Adding, Busy,
         NoInterface, Gone
<1>6. WaitIsForDown /\ NeverLooped /\ HelloRunsUnlessLoopback
  BY <1>1
     DEF Init, WaitIsForDown, NeverLooped, HelloRunsUnlessLoopback, NoInterface
<1>7. SpawnedIsIdle /\ RacesOnlyIfIdle
  BY <1>1 DEF SpawnedIsIdle, RacesOnlyIfIdle, NoInterface
<1>8. DoneUnlessBusy /\ BusyIsRight
  BY <1>1 DEF Init, DoneUnlessBusy, BusyIsRight
<1> QED
  BY <1>4, <1>5, <1>6, <1>7, <1>8 DEF IInv

\* The invariant holds in every state of an OSPF instance, for any number of
\* interfaces and of network changes.
THEOREM InstanceInvariance == Spec => []IInv
<1>1. IInv /\ [Next]_vars => IInv'
  BY TypesStep, PassedStep, WaitStep, HelloStep, RaceStep, AgreeStep
     DEF IInv, Types, Agreement
<1> QED
  BY IInvInit, <1>1, PTL DEF Spec

\* updateInterfaces does its job: after an update that read no State out of
\* date, the table and the states are those of the network the update saw.
THEOREM UpdateIsApplied == Spec => []AppliedUnlessStale
<1>1. IInv => AppliedUnlessStale
  <2> SUFFICES ASSUME IInv, updater = "select", Settled, ~stale PROVE Agrees(snap)
    BY DEF AppliedUnlessStale
  <2>1. todo = {} /\ \A id \in Ids : snap[id].present <=> id \in Table
    BY DEF IInv, LoopsAreRight
  <2>2. \A id \in Table : Settling(id) = StateFor(snap[id])
    BY <2>1 DEF IInv, DoneUnlessBusy, DoneWith, Busy
  <2>3. \A id \in Table : Settling(id) = iface[id].state
    BY DEF Settled, Settling
  <2> QED
    BY <2>1, <2>2, <2>3 DEF Agrees
<1> QED
  BY InstanceInvariance, <1>1, PTL

\* An interface that may have neighbours, and cannot be a loopback, has its
\* hello timer running.
THEOREM HelloRuns == Spec => []HelloRunsUnlessLoopback
<1>1. IInv => HelloRunsUnlessLoopback
  BY DEF IInv
<1> QED
  BY InstanceInvariance, <1>1, PTL

\* A goroutine that can still race with the updater for the map i.Interfaces is
\* that of an interface the update sent nothing to.
THEOREM RacesAreIdle == Spec => []RacesOnlyIfIdle
<1>1. IInv => RacesOnlyIfIdle
  BY DEF IInv
<1> QED
  BY InstanceInvariance, <1>1, PTL

\* An interface leaves the table only after its goroutine has handled
\* InterfaceDown: sendEventWait does wait.
THEOREM RemovedIsDown == Spec => DroppedIsDown
<1>1. IInv /\ [Next]_vars
        => [\A id \in Table : id \notin Table' => iface[id].state = "Down"]_iface
  <2> SUFFICES ASSUME IInv, [Next]_vars, NEW id \in Table, id \notin Table'
               PROVE  iface[id].state = "Down"
    OBVIOUS
  <2>0. id \in Ids
    BY DEF Table
  <2>1. CASE NetworkChange \/ Cancel \/ FeederStep \/ InterfaceLeaves \/ UNCHANGED vars
    BY <2>1, QuietEffect
  <2>2. CASE UpdaterDone \/ UpdaterError
    BY <2>2, ReturnEffect
  <2>3. CASE \/ UpdaterBegin \/ UpdaterExisting \/ UpdaterCheckUp \/ UpdaterCheckLoop
             \/ UpdaterExistingDone \/ UpdaterAddLoop \/ UpdaterAddDone
    BY <2>3, UpdaterFrame
  <2>4. CASE UpdaterAdd
    BY <2>4, AddEffect
  <2>5. CASE SendEvent
    BY <2>5, SendEffect
  <2>6. CASE RemoveInterface
    BY <2>0, <2>6, RemoveEffect DEF IInv, WaitIsForDown
  <2>7. ASSUME NEW i \in Ids, InterfaceStep(i) \/ MapRace(i) PROVE FALSE
    BY <2>7, InterfaceEffect, RaceEffect
  <2> QED
    BY <2>1, <2>2, <2>3, <2>4, <2>5, <2>6, <2>7 DEF Next, UpdaterStep
<1> QED
  BY InstanceInvariance, <1>1, PTL DEF Spec, DroppedIsDown

--------------------------------------------------------------------------------
(* LSAs: which of two is more recent                                         *)

\* What Compare looks at.
IsHeader(h) == h.seq \in Int /\ h.checksum \in Int /\ h.age \in Int

\* Of two ages the same one is the more recent on every router, and what is more
\* recent than a more recent age is more recent.
LEMMA AgesAreOrdered ==
    ASSUME NEW a \in Int, NEW b \in Int, NEW c \in Int
    PROVE  /\ CompareAges(a, b) = -CompareAges(b, a)
           /\ CompareAges(a, b) = 1 /\ CompareAges(b, c) = 1 => CompareAges(a, c) = 1
BY DEF CompareInts, CompareAges, Distance, maxAge, maxAgeDiff

\* The routers that compare two instances of an LSA, in whichever order they
\* received them, agree on the one to keep.
THEOREM CompareAgrees ==
    ASSUME NEW x, NEW y, IsHeader(x), IsHeader(y)
    PROVE  Compare(x, y) = -Compare(y, x)
<1>1. CompareAges(x.age, y.age) = -CompareAges(y.age, x.age)
    BY AgesAreOrdered DEF IsHeader
<1> QED
    BY <1>1 DEF Compare, CompareInts, IsHeader

\* A chain of ever more recent instances does not come back to where it began:
\* the one that a router keeps in the end is more recent than all it replaced.
THEOREM CompareIsTransitive ==
    ASSUME NEW x, NEW y, NEW z, IsHeader(x), IsHeader(y), IsHeader(z),
           Compare(x, y) = 1, Compare(y, z) = 1
    PROVE  Compare(x, z) = 1
<1>1. CompareAges(x.age, y.age) = 1 /\ CompareAges(y.age, z.age) = 1
          => CompareAges(x.age, z.age) = 1
    BY AgesAreOrdered DEF IsHeader
<1> QED
    BY <1>1 DEF Compare, CompareInts, IsHeader

\* Keeping an instance in the database does not make it more recent: as it
\* ages from x to z, short of maxAge, Compare can only turn against it.
THEOREM AgingMakesOlder ==
    ASSUME NEW x, NEW y, NEW z, IsHeader(x), IsHeader(y), IsHeader(z),
           z.seq = x.seq, z.checksum = x.checksum, x.age <= z.age, z.age # maxAge
    PROVE  Compare(z, y) <= Compare(x, y)
<1>1. CompareAges(z.age, y.age) <= CompareAges(x.age, y.age)
    BY DEF CompareAges, CompareInts, Distance, maxAge, maxAgeDiff, IsHeader
<1> QED
    BY <1>1 DEF Compare, CompareInts, IsHeader

\* RecencyIsOrder, for every LSA and whatever it meets in the database.
THEOREM RecencyHolds == LsaTypeOK => RecencyIsOrder
<1> SUFFICES ASSUME LsaTypeOK, NEW x \in Others
             PROVE  /\ Compare(lsa, x) = -Compare(x, lsa)
                    /\ \A y \in Others :
                          Compare(lsa, x) = 1 /\ Compare(x, y) = 1 => Compare(lsa, y) = 1
                    /\ \A age \in Ages : lsa.age <= age /\ age # maxAge =>
                          Compare([lsa EXCEPT !.age = age], x) <= Compare(lsa, x)
    BY DEF RecencyIsOrder
<1>1. /\ \A age \in Ages : age \in Int
      /\ \A k \in Seqs : k \in Int
      /\ \A n \in Uint16 : n \in Int
    <2>1. \A age \in Ages : age \in Uint16
        BY HeadersAssumption
    <2>2. \A k \in Seqs : k \in initialSequenceNumber .. maxSequenceNumber
        BY HeadersAssumption
    <2>3. \A n \in initialSequenceNumber .. maxSequenceNumber : n \in Int
        <3>1. initialSequenceNumber \in Int
            BY SMT DEF initialSequenceNumber
        <3>2. maxSequenceNumber \in Int
            BY SMT DEF maxSequenceNumber
        <3> QED
            BY <3>1, <3>2, SMT
    <2>4. \A n \in Uint16 : n \in Int
        BY SMT DEF Uint16
    <2> QED
        BY <2>1, <2>2, <2>3, <2>4
<1>2. IsHeader(lsa)
    <2>1. lsa.seq \in Seqs /\ lsa.checksum \in Uint16 /\ lsa.age \in Ages
        BY DEF LsaTypeOK
    <2> QED
        BY <1>1, <2>1 DEF IsHeader
<1>3. \A y \in Others : IsHeader(y)
    <2> TAKE y \in Others
    <2>1. y.seq \in Seqs /\ y.checksum \in {lsa.checksum, lsa.checksum - 1} /\ y.age \in Ages
        BY DEF Others
    <2> QED
        BY <1>1, <1>2, <2>1 DEF IsHeader
<1>4. Compare(lsa, x) = -Compare(x, lsa)
    BY <1>2, <1>3, CompareAgrees
<1>5. ASSUME NEW y \in Others, Compare(lsa, x) = 1, Compare(x, y) = 1
      PROVE  Compare(lsa, y) = 1
    BY <1>2, <1>3, <1>5, CompareIsTransitive
<1>6. ASSUME NEW age \in Ages, lsa.age <= age, age # maxAge
      PROVE  Compare([lsa EXCEPT !.age = age], x) <= Compare(lsa, x)
    <2> DEFINE z == [lsa EXCEPT !.age = age]
    <2>1. z.seq = lsa.seq /\ z.checksum = lsa.checksum /\ z.age = age
        BY DEF LsaTypeOK
    <2>2. IsHeader(z)
        BY <1>1, <1>2, <2>1 DEF IsHeader
    <2> HIDE DEF z
    <2>3. Compare(z, x) <= Compare(lsa, x)
        BY <1>2, <1>3, <1>6, <2>1, <2>2, AgingMakesOlder
    <2> QED
        BY <2>3 DEF z
<1> QED
    BY <1>4, <1>5, <1>6

--------------------------------------------------------------------------------

\* Go's remainder is congruent to its argument.
LEMMA RemCongruent ==
    ASSUME NEW v \in Int
    PROVE  \E q \in Int : v = 255 * q + Rem(v, 255) /\ Rem(v, 255) \in -254 .. 254
<1>1. CASE v >= 0
    <2>1. v = 255 * (v \div 255) + (v % 255) /\ v % 255 \in 0 .. 254 /\ v \div 255 \in Int
        OBVIOUS
    <2> QED
        BY <1>1, <2>1 DEF Rem
<1>2. CASE v < 0
    <2> DEFINE w == -v
    <2>1. w = 255 * (w \div 255) + (w % 255) /\ w % 255 \in 0 .. 254 /\ w \div 255 \in Int
        BY <1>2
    <2>2. Rem(v, 255) = -(w % 255)
        BY <1>2 DEF Rem
    <2>3. v = 255 * (-(w \div 255)) + Rem(v, 255)
        BY <2>1, <2>2
    <2>4. Rem(v, 255) \in -254 .. 254 /\ -(w \div 255) \in Int
        BY <2>1, <2>2
    <2> HIDE DEF w
    <2> QED
        BY <2>3, <2>4
<1> QED
    BY <1>1, <1>2

\* A sum of three numbers that vanishes modulo 255.
Vanish(w, u, v) == \E n \in Int : w + u + v = 255 * n

\* The check bytes verify: with sums c0 and c1 over the rest, and k octets after
\* the first check byte x, the sums over the whole are c0 + x + y, and
\* c1 + (k + 1) * x + k * y as an octet counts once for itself and once for each
\* that follows it.  Both are multiples of 255, and neither byte is 0.
THEOREM CheckBytesVerify ==
    ASSUME NEW c0 \in 0 .. 254, NEW c1 \in 0 .. 254, NEW k \in Nat
    PROVE  LET x == CheckBytes(c0, c1, k)[1]
               y == CheckBytes(c0, c1, k)[2]
           IN  /\ x \in 1 .. 255 /\ y \in 1 .. 255
               /\ Vanish(c0, x, y)
               /\ Vanish(c1, (k + 1) * x, k * y)
<1> DEFINE p == k * c0
           r == Rem(p - c1, 255)
           x == IF r <= 0 THEN r + 255 ELSE r
           y == IF 510 - c0 - x > 255 THEN 510 - c0 - x - 255 ELSE 510 - c0 - x
<1>1. p \in Int
    OBVIOUS
<1>2. PICK q \in Int : p - c1 = 255 * q + r /\ r \in -254 .. 254
    <2>1. p - c1 \in Int
        BY <1>1
    <2> HIDE DEF p
    <2> QED
        BY <2>1, RemCongruent
<1>3. CheckBytes(c0, c1, k)[1] = x /\ CheckBytes(c0, c1, k)[2] = y
    BY DEF CheckBytes
<1> HIDE DEF p, r
<1>4. x \in 1 .. 255 /\ \E d \in Int : p - c1 = 255 * d + x
    <2>1. CASE r <= 0
        <3>1. x = r + 255 /\ p - c1 = 255 * (q - 1) + x /\ q - 1 \in Int
            BY <1>2, <2>1
        <3>2. x \in 1 .. 255
            BY <1>2, <2>1
        <3> HIDE DEF x
        <3> QED
            BY <3>1, <3>2
    <2>2. CASE r > 0
        BY <1>2, <2>2
    <2> QED
        BY <1>2, <2>1, <2>2
<1>5. PICK d \in Int : p - c1 = 255 * d + x
    BY <1>4
<1>6. y \in 1 .. 255 /\ \E m \in {1, 2} : c0 + x + y = 255 * m
    <2> HIDE DEF x
    <2> QED
        BY <1>4
<1>7. PICK m \in {1, 2} : c0 + x + y = 255 * m
    BY <1>6
<1> HIDE DEF x, y
<1>8. c1 + (k + 1) * x + k * y = 255 * (k * m - d)
    <2>1. x \in Int /\ y \in Int
        BY <1>4, <1>6
    <2>2. (k + 1) * x + k * y = x + k * (x + y)
        BY <2>1
    <2>3. x + y = 255 * m - c0
        BY <1>7, <2>1
    <2>4. k * (255 * m - c0) = 255 * (k * m) - p
        BY DEF p
    <2> QED
        BY <1>1, <1>5, <2>1, <2>2, <2>3, <2>4
<1>9. k * m - d \in Int
    OBVIOUS
<1>10. Vanish(c0, x, y) /\ Vanish(c1, (k + 1) * x, k * y)
    BY <1>7, <1>8, <1>9 DEF Vanish
<1> QED
    BY <1>3, <1>4, <1>6, <1>10

--------------------------------------------------------------------------------
(* The sums                                                                  *)

\* The loop of fletcher16: the sums over no octet, and over one octet more.
IsLoop(f, data) ==
    f = [i \in 0 .. Len(data) |-> IF i = 0 THEN NoSums ELSE AddOctet(f[i - 1], data[i])]

\* The loop ends: Sums is what its definition says, for data of any length.
LEMMA SumsLoop ==
    ASSUME NEW data \in Seq(Octet)
    PROVE  IsLoop(Sums(data), data)
<1>1. Len(data) \in Nat
    BY LenProperties
<1> DEFINE begun == {n \in Nat : n <= Len(data) =>
                        \E f : f = [i \in 0 .. n |-> IF i = 0 THEN NoSums
                                                     ELSE AddOctet(f[i - 1], data[i])]}
<1>2. 0 \in begun
    <2> DEFINE f == [i \in 0 .. 0 |-> NoSums]
    <2>1. f = [i \in 0 .. 0 |-> IF i = 0 THEN NoSums ELSE AddOctet(f[i - 1], data[i])]
        OBVIOUS
    <2> HIDE DEF f
    <2> QED
        BY <2>1
<1>3. ASSUME NEW n \in Nat, n \in begun
      PROVE  n + 1 \in begun
    <2> SUFFICES ASSUME n + 1 <= Len(data)
                 PROVE  \E f : f = [i \in 0 .. n + 1 |-> IF i = 0 THEN NoSums
                                                         ELSE AddOctet(f[i - 1], data[i])]
        OBVIOUS
    <2>1. PICK f : f = [i \in 0 .. n |-> IF i = 0 THEN NoSums
                                         ELSE AddOctet(f[i - 1], data[i])]
        BY <1>1, <1>3
    <2> DEFINE g == [i \in 0 .. n + 1 |-> IF i = n + 1 THEN AddOctet(f[n], data[n + 1])
                                          ELSE f[i]]
    <2>2. \A i \in 0 .. n : g[i] = f[i]
        OBVIOUS
    <2>3. ASSUME NEW i \in 0 .. n + 1
          PROVE  g[i] = IF i = 0 THEN NoSums ELSE AddOctet(g[i - 1], data[i])
        <3>1. CASE i = n + 1
            <4>1. g[i] = AddOctet(f[n], data[i]) /\ i # 0 /\ i - 1 = n
                BY <3>1
            <4>2. g[n] = f[n]
                BY <2>2
            <4> HIDE DEF g
            <4> QED
                BY <4>1, <4>2
        <3>2. CASE i = 0
            BY <2>1, <3>2
        <3>3. CASE i # 0 /\ i # n + 1
            <4>1. i \in 0 .. n /\ i - 1 \in 0 .. n
                BY <3>3
            <4>2. g[i] = f[i] /\ g[i - 1] = f[i - 1]
                BY <2>2, <4>1
            <4>3. f[i] = AddOctet(f[i - 1], data[i])
                BY <2>1, <3>3, <4>1
            <4> HIDE DEF g
            <4> QED
                BY <3>3, <4>2, <4>3
        <3> QED
            BY <3>1, <3>2, <3>3
    <2>4. g = [i \in 0 .. n + 1 |-> g[i]]
        OBVIOUS
    <2> HIDE DEF g
    <2>5. g = [i \in 0 .. n + 1 |-> IF i = 0 THEN NoSums ELSE AddOctet(g[i - 1], data[i])]
        BY <2>3, <2>4
    <2> QED
        BY <2>5
<1> HIDE DEF begun
<1>4. \A n \in Nat : n \in begun
    BY <1>2, <1>3, InductiveSet
<1>5. PICK f : f = [i \in 0 .. Len(data) |-> IF i = 0 THEN NoSums
                                             ELSE AddOctet(f[i - 1], data[i])]
    <2>1. Len(data) \in begun /\ Len(data) <= Len(data)
        BY <1>1, <1>4
    <2> QED
        BY <2>1 DEF begun
<1> QED
    BY <1>5 DEF Sums, IsLoop

\* x is greater than y by d, but for a multiple of 255.
Differ(x, y, d) == \E q \in Int : x = y + d + 255 * q

\* What the sums may be.
SumPairs == [c0 : 0 .. 254, c1 : 0 .. 254]

\* One octet is added at each step, and the sums stay below 255.
LEMMA SumsStep ==
    ASSUME NEW data \in Seq(Octet)
    PROVE  /\ Sums(data)[0] = NoSums
           /\ \A i \in 0 .. Len(data) : Sums(data)[i] \in SumPairs
           /\ \A i \in 1 .. Len(data) :
                 /\ Differ(Sums(data)[i].c0, Sums(data)[i - 1].c0, data[i])
                 /\ Differ(Sums(data)[i].c1, Sums(data)[i - 1].c1, Sums(data)[i].c0)
<1> DEFINE f == Sums(data)
           good == {n \in Nat : n <= Len(data) => f[n] \in SumPairs}
<1>1. Len(data) \in Nat /\ \A i \in 1 .. Len(data) : data[i] \in 0 .. 255
    BY LenProperties, ElementOfSeq DEF Octet
<1>2. f[0] = NoSums /\ \A i \in 1 .. Len(data) : f[i] = AddOctet(f[i - 1], data[i])
    <2>1. IsLoop(f, data)
        BY SumsLoop
    <2> HIDE DEF f
    <2> QED
        BY <1>1, <2>1 DEF IsLoop
<1> HIDE DEF f
<1>3. ASSUME NEW s \in SumPairs, NEW octet \in 0 .. 255
      PROVE  /\ AddOctet(s, octet) \in SumPairs
             /\ Differ(AddOctet(s, octet).c0, s.c0, octet)
             /\ Differ(AddOctet(s, octet).c1, s.c1, AddOctet(s, octet).c0)
    <2>1. \A v \in Nat : v % 255 \in 0 .. 254 /\ \E q \in Int : v % 255 = v + 255 * q
        <3> TAKE v \in Nat
        <3>1. v % 255 \in 0 .. 254 /\ v % 255 = v + 255 * (-(v \div 255)) /\ -(v \div 255) \in Int
            OBVIOUS
        <3> QED
            BY <3>1
    <2> DEFINE c == (s.c0 + octet) % 255
               d == (s.c1 + c) % 255
    <2>2. s.c0 \in 0 .. 254 /\ s.c1 \in 0 .. 254
        BY DEF SumPairs
    <2>3. /\ \A x \in 0 .. 254, y \in 0 .. 255 : x + y \in Nat
          /\ s.c0 + octet \in Nat
        <3>1. \A x \in 0 .. 254, y \in 0 .. 255 : x + y \in Nat
            OBVIOUS
        <3> QED
            BY <2>2, <3>1, Zenon
    <2>4. c \in 0 .. 254 /\ Differ(c, s.c0, octet)
        BY <2>1, <2>3 DEF Differ
    <2>5. AddOctet(s, octet) = [c0 |-> c, c1 |-> d]
        BY DEF AddOctet
    <2> HIDE DEF c
    <2>6. s.c1 + c \in Nat
        <3>1. c \in 0 .. 255
            BY <2>4
        <3> QED
            BY <2>2, <2>3, <3>1, Zenon
    <2>7. d \in 0 .. 254 /\ Differ(d, s.c1, c)
        BY <2>1, <2>6 DEF Differ
    <2> HIDE DEF d
    <2> QED
        BY <2>4, <2>5, <2>7 DEF SumPairs
<1>4. 0 \in good
    BY <1>2 DEF NoSums, SumPairs
<1>5. ASSUME NEW n \in Nat, n \in good
      PROVE  n + 1 \in good
    <2> SUFFICES ASSUME n + 1 <= Len(data)
                 PROVE  f[n + 1] \in SumPairs
        OBVIOUS
    <2>1. f[n] \in SumPairs
        BY <1>1, <1>5
    <2>2. n + 1 \in 1 .. Len(data) /\ (n + 1) - 1 = n
        BY <1>1
    <2>3. f[n + 1] = AddOctet(f[n], data[n + 1]) /\ data[n + 1] \in 0 .. 255
        BY <1>1, <1>2, <2>2
    <2>4. AddOctet(f[n], data[n + 1]) \in SumPairs
        BY <1>3, <2>1, <2>3, Zenon
    <2> QED
        BY <2>3, <2>4, Zenon
<1>6. \A i \in 0 .. Len(data) : f[i] \in SumPairs
    <2> HIDE DEF good
    <2>1. \A n \in Nat : n \in good
        BY <1>4, <1>5, InductiveSet
    <2> QED
        BY <1>1, <2>1 DEF good
<1>7. ASSUME NEW i \in 1 .. Len(data)
      PROVE  /\ Differ(f[i].c0, f[i - 1].c0, data[i])
             /\ Differ(f[i].c1, f[i - 1].c1, f[i].c0)
    <2>1. f[i - 1] \in SumPairs /\ data[i] \in 0 .. 255
        BY <1>1, <1>6
    <2>2. f[i] = AddOctet(f[i - 1], data[i])
        BY <1>2
    <2> QED
        BY <1>3, <2>1, <2>2
<1> QED
    BY <1>2, <1>6, <1>7 DEF f

\* Equal differences are differences modulo 255.
LEMMA EqualDiffer ==
    ASSUME NEW x \in Int, NEW y \in Int, NEW d \in Int, x = y + d
    PROVE  Differ(x, y, d)
<1>1. x = y + d + 255 * 0
    OBVIOUS
<1> QED
    BY <1>1 DEF Differ

\* Sums x and y that differ by u: if numbers a and b that differ by w are added
\* to them, they differ by u + w.
LEMMA DifferStep ==
    ASSUME NEW x \in Int, NEW y \in Int, NEW a \in Int, NEW b \in Int, NEW u \in Int, NEW w \in Int,
           NEW nx \in Int, NEW ny \in Int, NEW nu \in Int,
           Differ(nx, x, a), Differ(ny, y, b), Differ(x, y, u), Differ(a, b, w), nu = u + w
    PROVE  Differ(nx, ny, nu)
<1>1. PICK q \in Int : nx = x + a + 255 * q
    BY DEF Differ
<1>2. PICK r \in Int : ny = y + b + 255 * r
    BY DEF Differ
<1>3. PICK s \in Int : x = y + u + 255 * s
    BY DEF Differ
<1>4. PICK t \in Int : a = b + w + 255 * t
    BY DEF Differ
<1>5. nx = ny + nu + 255 * (q - r + s + t) /\ q - r + s + t \in Int
    BY <1>1, <1>2, <1>3, <1>4
<1> QED
    BY <1>5, ZenonT(30) DEF Differ

\* An octet that grows by delta adds delta to the first sum, and to the second
\* once for itself and once for each octet that follows it.
LEMMA OneOctetChanges ==
    ASSUME NEW d \in Seq(Octet), NEW e \in Seq(Octet), Len(e) = Len(d),
           NEW p \in 1 .. Len(d), \A i \in 1 .. Len(d) : i # p => e[i] = d[i]
    PROVE  /\ Differ(Fletcher16(e).c0, Fletcher16(d).c0, (e[p] - d[p]))
           /\ Differ(Fletcher16(e).c1, Fletcher16(d).c1, (Len(d) - p + 1) * (e[p] - d[p]))
<1> DEFINE delta == e[p] - d[p]
           D0 == [i \in 0 .. Len(d) |-> Sums(d)[i].c0]
           D1 == [i \in 0 .. Len(d) |-> Sums(d)[i].c1]
           E0 == [i \in 0 .. Len(d) |-> Sums(e)[i].c0]
           E1 == [i \in 0 .. Len(d) |-> Sums(e)[i].c1]
           h == [i \in 0 .. Len(d) |-> IF i < p THEN 0 ELSE delta]
           g == [i \in 0 .. Len(d) |-> IF i < p THEN 0 ELSE (i - p + 1) * delta]
           good == {n \in Nat : n <= Len(d) =>
                       /\ Differ(E0[n], D0[n], h[n])
                       /\ Differ(E1[n], D1[n], g[n])}
<1>1. Len(d) \in Nat /\ \A i \in 1 .. Len(d) : d[i] \in Int /\ e[i] \in Int
    <2>1. Len(d) \in Nat
        BY LenProperties
    <2>2. \A i \in 1 .. Len(d) : d[i] \in Octet /\ e[i] \in Octet
        BY ElementOfSeq
    <2>3. \A x \in Octet : x \in Int
        BY DEF Octet
    <2> QED
        BY <2>1, <2>2, <2>3
<1>2. delta \in Int
    BY <1>1
<1>3. /\ D0[0] = 0 /\ D1[0] = 0 /\ E0[0] = 0 /\ E1[0] = 0
    BY SumsStep DEF NoSums
<1>4. \A i \in 0 .. Len(d) : D0[i] \in Int /\ D1[i] \in Int /\ E0[i] \in Int /\ E1[i] \in Int
    <2> TAKE i \in 0 .. Len(d)
    <2>1. Sums(d)[i] \in SumPairs /\ Sums(e)[i] \in SumPairs
        BY SumsStep
    <2>2. \A s \in SumPairs : s.c0 \in Int /\ s.c1 \in Int
        <3>1. \A s \in SumPairs : s.c0 \in 0 .. 254 /\ s.c1 \in 0 .. 254
            BY DEF SumPairs
        <3>2. \A x \in 0 .. 254 : x \in Int
            OBVIOUS
        <3> QED
            BY <3>1, <3>2, Zenon
    <2> QED
        BY <2>1, <2>2
<1>5. \A i \in 1 .. Len(d) : /\ Differ(D0[i], D0[i - 1], d[i])
                             /\ Differ(D1[i], D1[i - 1], D0[i])
                             /\ Differ(E0[i], E0[i - 1], e[i])
                             /\ Differ(E1[i], E1[i - 1], E0[i])
    BY SumsStep
<1>6. \A i \in 0 .. Len(d) : h[i] \in Int /\ g[i] \in Int
    <2> HIDE DEF delta
    <2> QED
        BY <1>1, <1>2
<1>7. ASSUME NEW i \in 1 .. Len(d)
      PROVE  h[i] = h[i - 1] + (e[i] - d[i]) /\ g[i] = g[i - 1] + h[i]
    <2>1. CASE i < p
        BY <1>1, <1>2, <2>1
    <2>2. CASE i = p
        BY <1>1, <1>2, <2>2
    <2>3. CASE i > p
        <3>1. h[i] = delta /\ h[i - 1] = delta /\ e[i] = d[i]
            BY <1>1, <2>3
        <3>2. g[i] = (i - p + 1) * delta /\ g[i - 1] = (i - p) * delta
            BY <1>1, <2>3
        <3> HIDE DEF delta, h, g
        <3>3. (i - p + 1) * delta = (i - p) * delta + delta
            BY <1>2
        <3> QED
            BY <1>1, <1>2, <3>1, <3>2, <3>3
    <2> QED
        BY <2>1, <2>2, <2>3
<1>8. 0 \in good
    <2>1. h[0] = 0 /\ g[0] = 0
        OBVIOUS
    <2> HIDE DEF h, g, D0, D1, E0, E1
    <2>2. Differ(E0[0], D0[0], h[0]) /\ Differ(E1[0], D1[0], g[0])
        BY <1>3, <2>1, EqualDiffer
    <2> QED
        BY <2>2
<1> HIDE DEF delta, h, g, D0, D1, E0, E1
<1>9. ASSUME NEW n \in Nat, n \in good
      PROVE  n + 1 \in good
    <2> SUFFICES ASSUME n + 1 <= Len(d)
                 PROVE  /\ Differ(E0[n + 1], D0[n + 1], h[n + 1])
                        /\ Differ(E1[n + 1], D1[n + 1], g[n + 1])
        OBVIOUS
    <2> DEFINE i == n + 1
    <2>1. i \in 1 .. Len(d) /\ i \in 0 .. Len(d) /\ n \in 0 .. Len(d) /\ i - 1 = n
        BY <1>1
    <2>2. Differ(E0[n], D0[n], h[n]) /\ Differ(E1[n], D1[n], g[n])
        BY <1>9, <2>1
    <2> HIDE DEF i, good
    <2>3. /\ D0[i] \in Int /\ D1[i] \in Int /\ E0[i] \in Int /\ E1[i] \in Int
          /\ D0[n] \in Int /\ D1[n] \in Int /\ E0[n] \in Int /\ E1[n] \in Int
          /\ h[i] \in Int /\ g[i] \in Int /\ h[n] \in Int /\ g[n] \in Int
          /\ d[i] \in Int /\ e[i] \in Int
        BY <1>1, <1>4, <1>6, <2>1
    <2>4. /\ Differ(D0[i], D0[n], d[i]) /\ Differ(D1[i], D1[n], D0[i])
          /\ Differ(E0[i], E0[n], e[i]) /\ Differ(E1[i], E1[n], E0[i])
        BY <1>5, <2>1
    <2>5. h[i] = h[n] + (e[i] - d[i]) /\ g[i] = g[n] + h[i]
        BY <1>7, <2>1
    <2>6. PICK w \in Int : e[i] = d[i] + w /\ h[i] = h[n] + w
        <3>1. e[i] - d[i] \in Int /\ e[i] = d[i] + (e[i] - d[i])
            BY <2>3, SMTT(20)
        <3> QED
            BY <2>5, <3>1
    <2>7. Differ(E0[i], D0[i], h[i])
        <3>1. Differ(e[i], d[i], w)
            BY <2>3, <2>6, EqualDiffer, Zenon
        <3>2. /\ E0[n] \in Int /\ D0[n] \in Int /\ e[i] \in Int /\ d[i] \in Int
              /\ E0[i] \in Int /\ D0[i] \in Int /\ h[n] \in Int /\ h[i] \in Int
            BY <2>3
        <3>3. /\ Differ(E0[i], E0[n], e[i]) /\ Differ(D0[i], D0[n], d[i])
              /\ Differ(E0[n], D0[n], h[n]) /\ h[i] = h[n] + w
            BY <2>2, <2>4, <2>6
        <3> QED
            BY ONLY <3>1, <3>2, <3>3, w \in Int, DifferStep, SMTT(20)
    <2>8. Differ(E1[i], D1[i], g[i])
        <3>1. /\ E1[n] \in Int /\ D1[n] \in Int /\ E0[i] \in Int /\ D0[i] \in Int
              /\ E1[i] \in Int /\ D1[i] \in Int /\ g[n] \in Int /\ g[i] \in Int /\ h[i] \in Int
            BY <2>3
        <3>2. /\ Differ(E1[i], E1[n], E0[i]) /\ Differ(D1[i], D1[n], D0[i])
              /\ Differ(E1[n], D1[n], g[n]) /\ Differ(E0[i], D0[i], h[i]) /\ g[i] = g[n] + h[i]
            BY <2>2, <2>4, <2>5, <2>7
        <3> QED
            BY ONLY <3>1, <3>2, DifferStep, SMTT(20)
    <2> QED
        BY <2>7, <2>8 DEF i
<1>10. Len(d) \in good
    <2> HIDE DEF good
    <2>1. \A n \in Nat : n \in good
        BY <1>8, <1>9, InductiveSet
    <2> QED
        BY <1>1, <2>1
<1>11. Differ(E0[Len(d)], D0[Len(d)], h[Len(d)]) /\ Differ(E1[Len(d)], D1[Len(d)], g[Len(d)])
    BY <1>1, <1>10
<1>12. h[Len(d)] = delta /\ g[Len(d)] = (Len(d) - p + 1) * delta
    BY <1>1 DEF h, g
<1> QED
    BY <1>11, <1>12 DEF Fletcher16, delta, D0, D1, E0, E1

--------------------------------------------------------------------------------
(* What the checksum tells                                                   *)

\* fletcher16 returns two numbers below 255.
LEMMA FletcherType ==
    ASSUME NEW data \in Seq(Octet)
    PROVE  /\ Fletcher16(data) \in SumPairs
           /\ Fletcher16(data).c0 \in 0 .. 254 /\ Fletcher16(data).c1 \in 0 .. 254
<1>1. Len(data) \in 0 .. Len(data)
    BY LenProperties
<1>2. Fletcher16(data) \in SumPairs
    BY <1>1, SumsStep DEF Fletcher16
<1> QED
    BY <1>2 DEF SumPairs

\* An octet is an integer.
LEMMA OctetsAreIntegers == \A o \in Octet : o \in Int
BY DEF Octet

\* A sequence of octets of which one is replaced.
LEMMA ReplaceOctet ==
    ASSUME NEW data \in Seq(Octet), NEW p \in 1 .. Len(data), NEW octet \in Octet
    PROVE  LET e == [data EXCEPT ![p] = octet]
           IN  /\ e \in Seq(Octet) /\ Len(e) = Len(data) /\ e[p] = octet
               /\ \A i \in 1 .. Len(data) : i # p => e[i] = data[i]
BY ExceptSeq

\* A sequence of which two neighbours are replaced is a sequence of which one is
\* replaced, and then the other.
LEMMA ReplaceTwo ==
    ASSUME NEW data \in Seq(Octet), NEW p \in 1 .. Len(data) - 1, NEW x \in Octet, NEW y \in Octet
    PROVE  LET m == [data EXCEPT ![p] = x]
               e == [data EXCEPT ![p] = x, ![p + 1] = y]
           IN  /\ m \in Seq(Octet) /\ Len(m) = Len(data)
               /\ m[p] = x /\ m[p + 1] = data[p + 1]
               /\ \A i \in 1 .. Len(data) : i # p => m[i] = data[i]
               /\ e \in Seq(Octet) /\ Len(e) = Len(data)
               /\ e[p] = x /\ e[p + 1] = y
               /\ \A i \in 1 .. Len(data) : i # p + 1 => e[i] = m[i]
<1> DEFINE m == [data EXCEPT ![p] = x]
           e == [m EXCEPT ![p + 1] = y]
<1>1. Len(data) \in Nat /\ p \in 1 .. Len(data) /\ p + 1 \in 1 .. Len(data) /\ p # p + 1
    BY LenProperties
<1>2. /\ m \in Seq(Octet) /\ Len(m) = Len(data) /\ m[p] = x
      /\ \A i \in 1 .. Len(data) : i # p => m[i] = data[i]
    BY <1>1, ReplaceOctet
<1> HIDE DEF m
<1>3. /\ e \in Seq(Octet) /\ Len(e) = Len(data) /\ e[p + 1] = y
      /\ \A i \in 1 .. Len(data) : i # p + 1 => e[i] = m[i]
    BY <1>1, <1>2, ReplaceOctet
<1>4. e = [data EXCEPT ![p] = x, ![p + 1] = y]
    BY DEF m
<1> HIDE DEF e
<1> QED
    BY <1>1, <1>2, <1>3, <1>4 DEF m

\* A number below 255 that is such a sum is 0.
LEMMA VanishedSum ==
    ASSUME NEW s \in 0 .. 254, NEW t \in 0 .. 254, NEW u \in Int, NEW v \in Int, NEW w \in Int,
           Differ(t, w, u), Differ(s, t, v), Vanish(w, u, v)
    PROVE  s = 0
<1>1. PICK q \in Int : t = w + u + 255 * q
    BY DEF Differ
<1>2. PICK r \in Int : s = t + v + 255 * r
    BY DEF Differ
<1>3. PICK n \in Int : w + u + v = 255 * n
    BY DEF Vanish
<1>4. s = 255 * (n + q + r)
    BY <1>1, <1>2, <1>3
<1> QED
    BY <1>4

\* The check bytes that are generated are the ones that verify, for data of any
\* length, wherever in it they are.
THEOREM GeneratedChecksumVerifies ==
    ASSUME NEW data \in Seq(Octet), NEW offset \in 0 .. Len(data) - 2
    PROVE  LET check == GenerateChecksum(data, offset)
               e == [data EXCEPT ![offset + 1] = check[1], ![offset + 2] = check[2]]
           IN  /\ check[1] \in 1 .. 255 /\ check[2] \in 1 .. 255
               /\ e \in Seq(Octet) /\ Len(e) = Len(data)
               /\ Fletcher16(e) = NoSums
<1> DEFINE z == [data EXCEPT ![offset + 1] = 0, ![offset + 2] = 0]
           k == Len(data) - offset - 1
           c0 == Fletcher16(z).c0
           c1 == Fletcher16(z).c1
           x == CheckBytes(c0, c1, k)[1]
           y == CheckBytes(c0, c1, k)[2]
           p == offset + 1
           m == [z EXCEPT ![p] = x]
           e == [z EXCEPT ![p] = x, ![p + 1] = y]
<1>1. /\ Len(data) \in Nat /\ k \in Nat /\ p \in 1 .. Len(data) - 1 /\ p + 1 = offset + 2
      /\ p \in 1 .. Len(data) /\ p + 1 \in 1 .. Len(data)
    BY LenProperties
<1>2. z \in Seq(Octet) /\ Len(z) = Len(data) /\ z[p] = 0 /\ z[p + 1] = 0
    <2>1. 0 \in Octet
        BY DEF Octet
    <2> QED
        BY <1>1, <2>1, ReplaceTwo
<1>3. c0 \in 0 .. 254 /\ c1 \in 0 .. 254
    BY <1>2, FletcherType
<1>4. /\ GenerateChecksum(data, offset)[1] = x /\ GenerateChecksum(data, offset)[2] = y
    BY DEF GenerateChecksum
<1>5. [data EXCEPT ![offset + 1] = x, ![offset + 2] = y] = e
    <2>1. data = [i \in 1 .. Len(data) |-> data[i]]
        BY LenProperties
    <2> HIDE DEF x, y
    <2> QED
        BY <1>1, <2>1
<1> HIDE DEF z, c0, c1, k
<1>6. /\ x \in 1 .. 255 /\ y \in 1 .. 255
      /\ Vanish(c0, x, y) /\ Vanish(c1, (k + 1) * x, k * y)
    BY <1>1, <1>3, CheckBytesVerify
<1> HIDE DEF x, y, p, m, e
<1>7. /\ m \in Seq(Octet) /\ Len(m) = Len(data)
      /\ m[p] = x /\ m[p + 1] = z[p + 1]
      /\ \A i \in 1 .. Len(data) : i # p => m[i] = z[i]
      /\ e \in Seq(Octet) /\ Len(e) = Len(data)
      /\ e[p] = x /\ e[p + 1] = y
      /\ \A i \in 1 .. Len(data) : i # p + 1 => e[i] = m[i]
    <2>1. x \in Octet /\ y \in Octet
        BY <1>6 DEF Octet
    <2> QED
        BY <1>1, <1>2, <2>1, ReplaceTwo DEF m, e
<1>8. /\ Differ(Fletcher16(m).c0, c0, x)
      /\ Differ(Fletcher16(m).c1, c1, (k + 1) * x)
    <2>1. /\ Differ(Fletcher16(m).c0, Fletcher16(z).c0, m[p] - z[p])
          /\ Differ(Fletcher16(m).c1, Fletcher16(z).c1, (Len(z) - p + 1) * (m[p] - z[p]))
        BY <1>1, <1>2, <1>7, OneOctetChanges
    <2>2. m[p] - z[p] = x /\ Len(z) - p + 1 = k + 1
        BY <1>1, <1>2, <1>6, <1>7 DEF k, p
    <2> QED
        BY <2>1, <2>2 DEF c0, c1
<1>9. /\ Differ(Fletcher16(e).c0, Fletcher16(m).c0, y)
      /\ Differ(Fletcher16(e).c1, Fletcher16(m).c1, k * y)
    <2>1. /\ Differ(Fletcher16(e).c0, Fletcher16(m).c0, e[p + 1] - m[p + 1])
          /\ Differ(Fletcher16(e).c1, Fletcher16(m).c1,
                    (Len(m) - (p + 1) + 1) * (e[p + 1] - m[p + 1]))
        BY <1>1, <1>7, OneOctetChanges
    <2>2. e[p + 1] - m[p + 1] = y /\ Len(m) - (p + 1) + 1 = k
        BY <1>1, <1>2, <1>6, <1>7 DEF k, p
    <2> QED
        BY <2>1, <2>2
<1>10. Fletcher16(e).c0 = 0 /\ Fletcher16(e).c1 = 0
    <2>2. /\ Fletcher16(m).c0 \in 0 .. 254 /\ Fletcher16(m).c1 \in 0 .. 254
          /\ Fletcher16(e).c0 \in 0 .. 254 /\ Fletcher16(e).c1 \in 0 .. 254
        BY <1>7, FletcherType
    <2>3. c0 \in Int /\ c1 \in Int /\ x \in Int /\ y \in Int /\ k \in Int
        BY <1>1, <1>3, <1>6
    <2>4. (k + 1) * x \in Int /\ k * y \in Int
        BY <2>3
    <2>5. Fletcher16(e).c0 = 0
        BY <1>6, <1>8, <1>9, <2>2, <2>3, VanishedSum
    <2>6. Fletcher16(e).c1 = 0
        BY <1>6, <1>8, <1>9, <2>2, <2>3, <2>4, VanishedSum, Zenon
    <2> QED
        BY <2>5, <2>6
<1>11. Fletcher16(e) = NoSums
    <2>1. Fletcher16(e) \in SumPairs
        BY <1>7, FletcherType
    <2> QED
        BY <1>10, <2>1 DEF SumPairs, NoSums
<1> QED
    BY <1>4, <1>5, <1>6, <1>7, <1>11

\* Two octets that differ by a multiple of 255 are the same but for 0 and 255.
LEMMA SameOctet ==
    ASSUME NEW x \in Octet, NEW y \in Octet, Differ(0, 0, x - y)
    PROVE  x % 255 = y % 255
<1>1. PICK q \in Int : 0 = 0 + (x - y) + 255 * q
    BY DEF Differ
<1>2. x \in 0 .. 255 /\ y \in 0 .. 255 /\ x = y - 255 * q
    BY <1>1 DEF Octet
<1> QED
    BY <1>2

\* A change of one octet shows in the first sum.
LEMMA ReplacedOctetShows ==
    ASSUME NEW data \in Seq(Octet), NEW p \in 1 .. Len(data), NEW octet \in Octet,
           Fletcher16(data) = NoSums, Fletcher16([data EXCEPT ![p] = octet]) = NoSums
    PROVE  \A i \in 1 .. Len(data) : [data EXCEPT ![p] = octet][i] % 255 = data[i] % 255
<1> DEFINE e == [data EXCEPT ![p] = octet]
<1>1. /\ e \in Seq(Octet) /\ Len(e) = Len(data) /\ e[p] = octet
      /\ \A i \in 1 .. Len(data) : i # p => e[i] = data[i]
    BY ReplaceOctet
<1>2. data[p] \in Octet
    BY ElementOfSeq
<1>3. Fletcher16(e) = NoSums
    OBVIOUS
<1> HIDE DEF e
<1>4. Differ(Fletcher16(e).c0, Fletcher16(data).c0, e[p] - data[p])
    BY <1>1, OneOctetChanges
<1>5. Differ(0, 0, e[p] - data[p])
    BY <1>3, <1>4 DEF NoSums
<1>6. e[p] % 255 = data[p] % 255
    BY <1>1, <1>2, <1>5, SameOctet
<1>7. \A i \in 1 .. Len(data) : e[i] % 255 = data[i] % 255
    BY <1>1, <1>6
<1> QED
    BY <1>7 DEF e

\* A swap of two neighbours does not show in the first sum, but in the second.
LEMMA SwappedOctetsShow ==
    ASSUME NEW data \in Seq(Octet), NEW p \in 1 .. Len(data) - 1,
           Fletcher16(data) = NoSums,
           Fletcher16([data EXCEPT ![p] = data[p + 1], ![p + 1] = data[p]]) = NoSums
    PROVE  \A i \in 1 .. Len(data) :
              [data EXCEPT ![p] = data[p + 1], ![p + 1] = data[p]][i] % 255 = data[i] % 255
<1> DEFINE x == data[p + 1]
           y == data[p]
           m == [data EXCEPT ![p] = x]
           e == [data EXCEPT ![p] = x, ![p + 1] = y]
           k == Len(data) - p
<1>1. /\ Len(data) \in Nat /\ p \in 1 .. Len(data) /\ p + 1 \in 1 .. Len(data) /\ k \in Nat
    BY LenProperties
<1>2. x \in Octet /\ y \in Octet
    BY <1>1, ElementOfSeq
<1> HIDE DEF x, y
<1>3. x \in Int /\ y \in Int
    BY <1>2, OctetsAreIntegers
<1>4. /\ m \in Seq(Octet) /\ Len(m) = Len(data)
      /\ m[p] = x /\ m[p + 1] = data[p + 1]
      /\ \A i \in 1 .. Len(data) : i # p => m[i] = data[i]
      /\ e \in Seq(Octet) /\ Len(e) = Len(data)
      /\ e[p] = x /\ e[p + 1] = y
      /\ \A i \in 1 .. Len(data) : i # p + 1 => e[i] = m[i]
    BY <1>2, ReplaceTwo
<1>5. Fletcher16(e) = NoSums
    BY DEF x, y
<1> HIDE DEF m, e
<1>6. Differ(Fletcher16(m).c1, Fletcher16(data).c1, (k + 1) * (x - y))
    <2>1. Differ(Fletcher16(m).c1, Fletcher16(data).c1, (Len(data) - p + 1) * (m[p] - data[p]))
        BY <1>1, <1>4, OneOctetChanges
    <2>2. m[p] - data[p] = x - y
        BY <1>4 DEF y
    <2> QED
        BY <2>1, <2>2
<1>7. Differ(Fletcher16(e).c1, Fletcher16(m).c1, k * (y - x))
    <2>1. Differ(Fletcher16(e).c1, Fletcher16(m).c1,
                 (Len(m) - (p + 1) + 1) * (e[p + 1] - m[p + 1]))
        BY <1>1, <1>4, OneOctetChanges
    <2>2. e[p + 1] - m[p + 1] = y - x
        BY <1>4 DEF x
    <2>3. Len(m) - (p + 1) + 1 = k
        BY <1>1, <1>4
    <2> QED
        BY <2>1, <2>2, <2>3
<1>8. Differ(0, 0, x - y)
    <2>1. Fletcher16(data).c1 = 0 /\ Fletcher16(e).c1 = 0
        BY <1>5 DEF NoSums
    <2>2. Fletcher16(m).c1 \in 0 .. 254
        BY <1>4, FletcherType
    <2>3. PICK q \in Int : Fletcher16(m).c1 = 0 + (k + 1) * (x - y) + 255 * q
        BY <1>6, <2>1 DEF Differ
    <2>4. PICK r \in Int : 0 = Fletcher16(m).c1 + k * (y - x) + 255 * r
        BY <1>7, <2>1 DEF Differ
    <2> HIDE DEF k
    <2>5. (k + 1) * (x - y) = k * (x - y) + (x - y) /\ k * (y - x) = -(k * (x - y))
        BY <1>1, <1>3
    <2>6. k * (x - y) \in Int
        BY <1>1, <1>3
    <2>7. 0 = 0 + (x - y) + 255 * (q + r)
        BY <1>3, <2>2, <2>3, <2>4, <2>5, <2>6
    <2> QED
        BY <2>7 DEF Differ
<1>9. x % 255 = y % 255
    BY <1>2, <1>8, SameOctet
<1>10. ASSUME NEW i \in 1 .. Len(data)
       PROVE  e[i] % 255 = data[i] % 255
    <2>1. CASE i = p
        BY <1>4, <1>9, <2>1 DEF x, y
    <2>2. CASE i = p + 1
        BY <1>4, <1>9, <2>2 DEF x, y
    <2>3. CASE i # p /\ i # p + 1
        BY <1>4, <2>3
    <2> QED
        BY <2>1, <2>2, <2>3
<1> QED
    BY <1>10 DEF e, x, y

--------------------------------------------------------------------------------
(* The LSA on its way: the inductive invariant of LsaSpec.                   *)

\* What is left of what was originated: all of it, or all but one octet, or all
\* of it with two neighbours swapped.
IsLeftOf(body, org) ==
    \/ body = org
    \/ \E p \in 1 .. Len(org), octet \in Octet : body = [org EXCEPT ![p] = octet]
    \/ \E p \in 1 .. Len(org) - 1 :
          body = [org EXCEPT ![p] = org[p + 1], ![p + 1] = org[p]]

\* The age is encoded in front of what is left of an encoding that verifies, and
\* neither octet of the checksum is 0.
LsaInv ==
    /\ LsaTypeOK
    /\ lsa.octets = Encode(lsa.age) \o Body
    /\ Fletcher16(origin) = NoSums
    /\ \E x \in 1 .. 255, y \in 1 .. 255 : lsa.checksum = Decode(<<x, y>>)
    /\ IsLeftOf(Body, origin)

\* The numbers of 16 bits.
LEMMA Uint16Bounds ==
    /\ \A i \in Int : 0 <= i /\ i <= 65535 => i \in Uint16
    /\ \A i \in Uint16 : i \in Int /\ 0 <= i /\ i <= 65535
<1>1. ASSUME NEW i \in Int, 0 <= i, i <= 65535
      PROVE  i \in Uint16
    BY <1>1 DEF Uint16
<1>2. ASSUME NEW i \in Uint16
      PROVE  i \in Int /\ 0 <= i /\ i <= 65535
    BY DEF Uint16
<1> QED
    BY <1>1, <1>2

\* Two octets hold 16 bits.
LEMMA EncodeDecodes ==
    ASSUME NEW n \in Uint16
    PROVE  /\ Encode(n) \in Seq(Octet) /\ Len(Encode(n)) = 2
           /\ Encode(n)[1] = n \div 256 /\ Encode(n)[2] = n % 256
           /\ 256 * Encode(n)[1] + Encode(n)[2] = n
<1>1. n \in Int /\ 0 <= n /\ n <= 65535
    BY Uint16Bounds
<1>2. n \div 256 \in 0 .. 255 /\ n % 256 \in 0 .. 255 /\ 256 * (n \div 256) + (n % 256) = n
    <2> DEFINE q == n \div 256
               m == n % 256
    <2>1. q \in Int /\ m \in 0 .. 255
        BY <1>1
    <2>2. n = 256 * q + m
        BY <1>1
    <2> HIDE DEF q, m
    <2>3. q \in 0 .. 255
        <3>1. 0 <= q
            BY <1>1, <2>1, <2>2
        <3>2. q <= 255
            BY <1>1, <2>1, <2>2
        <3> QED
            BY <2>1, <3>1, <3>2
    <2> QED
        BY <2>1, <2>2, <2>3 DEF q, m
<1>3. n \div 256 \in Octet /\ n % 256 \in Octet
    BY <1>2 DEF Octet
<1>4. Encode(n)[1] = n \div 256 /\ Encode(n)[2] = n % 256 /\ Len(Encode(n)) = 2
    BY DEF Encode
<1>5. Encode(n) \in Seq(Octet)
    BY <1>3 DEF Encode
<1> QED
    BY <1>2, <1>4, <1>5

\* The octets of the checksum, once it is stored as one number.
LEMMA DecodeEncodes ==
    ASSUME NEW x \in 1 .. 255, NEW y \in 1 .. 255
    PROVE  Decode(<<x, y>>) \in Uint16 /\ Encode(Decode(<<x, y>>)) = <<x, y>>
<1>1. Decode(<<x, y>>) = 256 * x + y
    BY DEF Decode
<1> DEFINE n == 256 * x + y
<1>2. n \in Int /\ 0 <= n /\ n <= 65535 /\ n = 256 * x + y
    OBVIOUS
<1> HIDE DEF n
<1>3. n \div 256 = x /\ n % 256 = y
    <2>1. n \div 256 \in Int /\ n % 256 \in 0 .. 255
        BY <1>2
    <2>2. n = 256 * (n \div 256) + (n % 256)
        BY <1>2
    <2> QED
        BY <1>2, <2>1, <2>2
<1>4. Encode(n) = <<x, y>>
    BY <1>3 DEF Encode
<1>5. n \in Uint16
    BY <1>2, Uint16Bounds
<1>6. Decode(<<x, y>>) = n
    BY <1>1 DEF n
<1> QED
    BY <1>4, <1>5, <1>6

\* What follows the age is what was put there.
LEMMA BehindTheAge ==
    ASSUME NEW n \in Uint16, NEW b \in Seq(Octet)
    PROVE  LET s == Encode(n) \o b
           IN  /\ s \in Seq(Octet) /\ Len(s) = Len(b) + 2
               /\ SubSeq(s, 3, Len(s)) = b
               /\ Decode(s) = n
               /\ \A i \in 3 .. Len(s) : i - 2 \in 1 .. Len(b) /\ s[i] = b[i - 2]
<1> DEFINE h == Encode(n)
           s == h \o b
<1>1. h \in Seq(Octet) /\ Len(h) = 2 /\ 256 * h[1] + h[2] = n
    BY EncodeDecodes
<1> HIDE DEF h
<1>2. s \in Seq(Octet) /\ Len(s) = Len(b) + 2 /\ Len(b) \in Nat
    <2>1. s \in Seq(Octet) /\ Len(s) = Len(h) + Len(b)
        BY <1>1, ConcatProperties
    <2>2. Len(b) \in Nat
        BY LenProperties
    <2> QED
        BY <1>1, <2>1, <2>2
<1>3. s[1] = h[1] /\ s[2] = h[2] /\ \A i \in 3 .. Len(b) + 2 : s[i] = b[i - 2]
    BY <1>1, <1>2
<1>4. SubSeq(s, 3, Len(s)) = b
    <2> DEFINE t == SubSeq(s, 3, Len(s))
    <2>1. t \in Seq(Octet) /\ Len(t) = Len(b) /\ \A i \in 1 .. Len(b) : t[i] = s[i + 2]
        BY <1>2, SubSeqProperties
    <2>2. \A i \in 1 .. Len(b) : s[i + 2] = b[i]
        <3> TAKE i \in 1 .. Len(b)
        <3>1. i + 2 \in 3 .. Len(b) + 2 /\ (i + 2) - 2 = i
            BY <1>2
        <3> QED
            BY <1>3, <3>1
    <2> HIDE DEF t
    <2> QED
        BY <2>1, <2>2, SeqEqual DEF t
<1>5. Decode(s) = n
    BY <1>1, <1>3 DEF Decode
<1>6. \A i \in 3 .. Len(s) : i - 2 \in 1 .. Len(b) /\ s[i] = b[i - 2]
    BY <1>2, <1>3
<1> QED
    BY <1>2, <1>4, <1>5, <1>6 DEF h

\* A change behind the age is a change of the body.
LEMMA ChangeBehindTheAge ==
    ASSUME NEW n \in Uint16, NEW b \in Seq(Octet), NEW p \in 1 .. Len(b), NEW octet \in Octet
    PROVE  [Encode(n) \o b EXCEPT ![p + 2] = octet] = Encode(n) \o [b EXCEPT ![p] = octet]
<1> DEFINE h == Encode(n)
           s == h \o b
           c == [b EXCEPT ![p] = octet]
           l == [s EXCEPT ![p + 2] = octet]
           r == h \o c
<1>1. h \in Seq(Octet) /\ Len(h) = 2
    BY EncodeDecodes
<1>2. /\ c \in Seq(Octet) /\ Len(c) = Len(b) /\ c[p] = octet
      /\ \A i \in 1 .. Len(b) : i # p => c[i] = b[i]
    BY ReplaceOctet
<1> HIDE DEF h, c
<1>3. /\ s \in Seq(Octet) /\ Len(s) = Len(b) + 2 /\ Len(b) \in Nat
      /\ r \in Seq(Octet) /\ Len(r) = Len(b) + 2
    <2>1. s \in Seq(Octet) /\ Len(s) = Len(h) + Len(b)
        BY <1>1, ConcatProperties
    <2>2. r \in Seq(Octet) /\ Len(r) = Len(h) + Len(c)
        BY <1>1, <1>2, ConcatProperties
    <2>3. Len(b) \in Nat
        BY LenProperties
    <2> QED
        BY <1>1, <1>2, <2>1, <2>2, <2>3
<1>4. \A i \in 1 .. Len(b) + 2 : /\ s[i] = IF i <= 2 THEN h[i] ELSE b[i - 2]
                                 /\ r[i] = IF i <= 2 THEN h[i] ELSE c[i - 2]
    BY <1>1, <1>2, <1>3, ConcatProperties
<1> HIDE DEF s, r
<1>5. p + 2 \in 1 .. Len(s)
    BY <1>3
<1>6. /\ l \in Seq(Octet) /\ Len(l) = Len(s) /\ l[p + 2] = octet
      /\ \A i \in 1 .. Len(s) : i # p + 2 => l[i] = s[i]
    BY <1>3, <1>5, ReplaceOctet
<1> HIDE DEF l
<1>7. ASSUME NEW i \in 1 .. Len(b) + 2
      PROVE  l[i] = r[i]
    <2>1. CASE i = p + 2
        BY <1>2, <1>4, <1>6, <2>1
    <2>2. CASE i # p + 2 /\ i <= 2
        BY <1>3, <1>4, <1>6, <2>2, SMTT(20)
    <2>3. CASE i # p + 2 /\ ~ (i <= 2)
        <3>1. i - 2 \in 1 .. Len(b) /\ i - 2 # p
            BY <1>3, <2>3
        <3> QED
            BY <1>2, <1>3, <1>4, <1>6, <2>3, <3>1
    <2> QED
        BY <2>1, <2>2, <2>3
<1>8. l = r
    BY <1>3, <1>6, <1>7, SeqEqual
<1> QED
    BY <1>8 DEF l, r, s, c, h

\* An LSA is originated with check bytes that verify.
LEMMA OriginatedLsa == LsaInit => LsaInv
<1> SUFFICES ASSUME LsaInit
             PROVE  LsaInv
    OBVIOUS
<1>1. PICK d \in Bodies, number \in Seqs :
         LET check == GenerateChecksum(d.octets, d.offset)
         IN  /\ origin = [d.octets EXCEPT ![d.offset + 1] = check[1],
                                          ![d.offset + 2] = check[2]]
             /\ lsa = [seq |-> number, checksum |-> Decode(check), age |-> 0,
                       octets |-> Encode(0) \o origin]
    BY DEF LsaInit
<1> DEFINE check == GenerateChecksum(d.octets, d.offset)
           x == check[1]
           y == check[2]
<1>2. d.octets \in Seq(Octet) /\ d.offset \in 0 .. Len(d.octets) - 2
    BY BodiesAssumption
<1>3. /\ x \in 1 .. 255 /\ y \in 1 .. 255
      /\ origin \in Seq(Octet)
      /\ Fletcher16(origin) = NoSums
    BY <1>1, <1>2, GeneratedChecksumVerifies
<1>4. /\ lsa.seq = number /\ lsa.age = 0 /\ lsa.checksum = Decode(check)
      /\ lsa.octets = Encode(0) \o origin
      /\ lsa = [seq |-> number, checksum |-> Decode(check), age |-> 0,
                octets |-> Encode(0) \o origin]
    BY <1>1
<1>5. Decode(check) = Decode(<<x, y>>)
    BY DEF Decode
<1> HIDE DEF check, x, y
<1>6. 0 \in Ages /\ 0 \in Uint16
    BY HeadersAssumption
<1>7. Encode(0) \o origin \in Seq(Octet) /\ Body = origin
    BY <1>3, <1>4, <1>6, BehindTheAge DEF Body
<1>8. Decode(check) \in Uint16
    BY <1>3, <1>5, DecodeEncodes
<1>9. LsaTypeOK
    BY <1>3, <1>4, <1>6, <1>7, <1>8 DEF LsaTypeOK
<1>10. IsLeftOf(Body, origin)
    BY <1>7 DEF IsLeftOf
<1> QED
    BY <1>3, <1>4, <1>5, <1>7, <1>9, <1>10 DEF LsaInv

\* An LSA whose encoding is an age and a body again, whose header is otherwise
\* what it was, is still one of the invariant's.
LEMMA LsaKept ==
    ASSUME LsaInv, UNCHANGED origin,
           NEW age \in Ages, NEW body \in Seq(Octet), IsLeftOf(body, origin),
           lsa'.seq = lsa.seq, lsa'.checksum = lsa.checksum, lsa'.age = age,
           lsa'.octets = Encode(age) \o body,
           lsa' = [seq |-> lsa'.seq, checksum |-> lsa'.checksum, age |-> lsa'.age,
                   octets |-> lsa'.octets]
    PROVE  LsaInv'
<1>1. age \in Uint16
    BY HeadersAssumption
<1>2. Encode(age) \o body \in Seq(Octet) /\ Body' = body
    BY <1>1, BehindTheAge DEF Body
<1>3. lsa.seq \in Seqs /\ lsa.checksum \in Uint16
    BY DEF LsaInv, LsaTypeOK
<1>4. LsaTypeOK'
    <2>1. origin' \in Seq(Octet)
        BY DEF LsaInv, LsaTypeOK
    <2>2. lsa' \in [seq : Seqs, checksum : Uint16, age : Ages, octets : Seq(Octet)]
        BY <1>2, <1>3
    <2> QED
        BY <2>1, <2>2 DEF LsaTypeOK
<1>5. (lsa.octets = Encode(lsa.age) \o Body)'
    BY <1>2
<1>6. (Fletcher16(origin) = NoSums)'
    BY DEF LsaInv
<1>7. (\E x \in 1 .. 255, y \in 1 .. 255 : lsa.checksum = Decode(<<x, y>>))'
    BY DEF LsaInv
<1>8. IsLeftOf(Body, origin)'
    BY <1>2
<1> QED
    BY <1>4, <1>5, <1>6, <1>7, <1>8 DEF LsaInv

\* The fields of an LSA and its encoding.
LEMMA LsaFields ==
    ASSUME LsaInv
    PROVE  /\ lsa.age \in Ages /\ lsa.age \in Uint16
           /\ lsa.octets \in Seq(Octet) /\ origin \in Seq(Octet)
           /\ Body \in Seq(Octet) /\ lsa.octets = Encode(lsa.age) \o Body
           /\ Len(lsa.octets) = Len(Body) + 2 /\ Len(Body) \in Nat
           /\ lsa = [seq |-> lsa.seq, checksum |-> lsa.checksum, age |-> lsa.age,
                     octets |-> lsa.octets]
<1>1. /\ lsa \in [seq : Seqs, checksum : Uint16, age : Ages, octets : Seq(Octet)]
      /\ origin \in Seq(Octet)
    BY DEF LsaInv, LsaTypeOK
<1>2. lsa.age \in Ages /\ lsa.octets \in Seq(Octet)
    BY <1>1
<1>3. lsa.age \in Uint16
    BY <1>2, HeadersAssumption
<1>4. lsa.octets = Encode(lsa.age) \o Body
    BY DEF LsaInv
<1>5. Body \in Seq(Octet)
    <2> DEFINE s == lsa.octets
    <2>1. s \in Seq(Octet) /\ Len(s) \in Nat
        BY <1>2, LenProperties
    <2> HIDE DEF s
    <2>2. \A i \in 3 .. Len(s) : s[i] \in Octet
        BY <2>1, ElementOfSeq
    <2>3. SubSeq(s, 3, Len(s)) \in Seq(Octet)
        BY <2>1, <2>2, SubSeqProperties
    <2> QED
        BY <2>3 DEF Body, s
<1>6. Len(lsa.octets) = Len(Body) + 2 /\ Len(Body) \in Nat
    <2>1. Len(Encode(lsa.age) \o Body) = Len(Body) + 2
        BY <1>3, <1>5, BehindTheAge
    <2> QED
        BY <1>4, <1>5, <2>1, LenProperties
<1>7. lsa = [seq |-> lsa.seq, checksum |-> lsa.checksum, age |-> lsa.age,
             octets |-> lsa.octets]
    BY <1>1
<1> QED
    BY <1>1, <1>2, <1>3, <1>4, <1>5, <1>6, <1>7

\* Aging changes the age and nothing behind it.
LEMMA SetAgeKeeps ==
    ASSUME LsaInv, NEW age \in Ages, SetAge(age)
    PROVE  LsaInv'
<1>1. /\ Body \in Seq(Octet)
      /\ lsa = [seq |-> lsa.seq, checksum |-> lsa.checksum, age |-> lsa.age,
                octets |-> lsa.octets]
    BY LsaFields
<1>2. lsa' = [lsa EXCEPT !.age = age, !.octets = Encode(age) \o Body] /\ UNCHANGED origin
    BY DEF SetAge
<1>3. lsa' = [seq |-> lsa.seq, checksum |-> lsa.checksum, age |-> age,
              octets |-> Encode(age) \o Body]
    BY <1>1, <1>2
<1>4. /\ lsa'.seq = lsa.seq /\ lsa'.checksum = lsa.checksum /\ lsa'.age = age
      /\ lsa'.octets = Encode(age) \o Body
    BY <1>3
<1>5. IsLeftOf(Body, origin)
    BY DEF LsaInv
<1> QED
    BY <1>1, <1>2, <1>3, <1>4, <1>5, LsaKept

\* A change of an octet behind the age, of an LSA that arrived so far undamaged.
LEMMA ChangedOctetKeeps ==
    ASSUME LsaInv, Body = origin, UNCHANGED origin,
           NEW i \in 3 .. Len(lsa.octets), NEW octet \in Octet,
           lsa' = [lsa EXCEPT !.octets[i] = octet]
    PROVE  LsaInv'
<1> DEFINE p == i - 2
           body == [Body EXCEPT ![p] = octet]
<1>1. /\ lsa.age \in Ages /\ lsa.age \in Uint16
      /\ Body \in Seq(Octet) /\ lsa.octets = Encode(lsa.age) \o Body
      /\ Len(lsa.octets) = Len(Body) + 2 /\ Len(Body) \in Nat
      /\ lsa = [seq |-> lsa.seq, checksum |-> lsa.checksum, age |-> lsa.age,
                octets |-> lsa.octets]
    BY LsaFields
<1>2. p \in 1 .. Len(Body) /\ i = p + 2
    BY <1>1
<1> HIDE DEF p
<1>3. body \in Seq(Octet)
    BY <1>1, <1>2, ReplaceOctet
<1>4. lsa' = [seq |-> lsa.seq, checksum |-> lsa.checksum, age |-> lsa.age,
              octets |-> [lsa.octets EXCEPT ![p + 2] = octet]]
    BY <1>1, <1>2
<1>5. [lsa.octets EXCEPT ![p + 2] = octet] = Encode(lsa.age) \o body
    BY <1>1, <1>2, ChangeBehindTheAge
<1>6. /\ lsa'.seq = lsa.seq /\ lsa'.checksum = lsa.checksum /\ lsa'.age = lsa.age
      /\ lsa'.octets = Encode(lsa.age) \o body
    BY <1>4, <1>5
<1>7. IsLeftOf(body, origin)
    BY <1>2 DEF IsLeftOf
<1> HIDE DEF body
<1> QED
    BY <1>1, <1>3, <1>4, <1>5, <1>6, <1>7, LsaKept

\* A swap of two neighbours behind the age.
LEMMA SwapKeeps ==
    ASSUME LsaInv, Body = origin, UNCHANGED origin,
           NEW i \in 3 .. Len(lsa.octets), i < Len(lsa.octets),
           lsa' = [lsa EXCEPT !.octets[i] = lsa.octets[i + 1],
                              !.octets[i + 1] = lsa.octets[i]]
    PROVE  LsaInv'
<1> DEFINE p == i - 2
           x == Body[p + 1]
           y == Body[p]
           half == [Body EXCEPT ![p] = x]
           body == [half EXCEPT ![p + 1] = y]
<1>1. /\ lsa.age \in Ages /\ lsa.age \in Uint16
      /\ Body \in Seq(Octet) /\ lsa.octets = Encode(lsa.age) \o Body
      /\ Len(lsa.octets) = Len(Body) + 2 /\ Len(Body) \in Nat
      /\ lsa = [seq |-> lsa.seq, checksum |-> lsa.checksum, age |-> lsa.age,
                octets |-> lsa.octets]
    BY LsaFields
<1>2. p \in 1 .. Len(Body) - 1 /\ p \in 1 .. Len(Body) /\ p + 1 \in 1 .. Len(Body)
      /\ i = p + 2 /\ i + 1 = (p + 1) + 2 /\ i + 1 \in 3 .. Len(lsa.octets)
    BY <1>1
<1>3. lsa.octets[i] = y /\ lsa.octets[i + 1] = x
    <2>1. \A j \in 3 .. Len(lsa.octets) : lsa.octets[j] = Body[j - 2]
        BY <1>1, BehindTheAge
    <2>2. i - 2 = p /\ (i + 1) - 2 = p + 1
        BY <1>2
    <2> QED
        BY <1>2, <2>1, <2>2
<1>4. x \in Octet /\ y \in Octet
    BY <1>1, <1>2, ElementOfSeq
<1> HIDE DEF p
<1>5. lsa' = [seq |-> lsa.seq, checksum |-> lsa.checksum, age |-> lsa.age,
              octets |-> [[lsa.octets EXCEPT ![p + 2] = x] EXCEPT ![(p + 1) + 2] = y]]
    BY <1>1, <1>2, <1>3
<1> HIDE DEF x, y
<1>6. half \in Seq(Octet) /\ Len(half) = Len(Body)
    BY <1>1, <1>2, <1>4, ReplaceOctet
<1>7. [lsa.octets EXCEPT ![p + 2] = x] = Encode(lsa.age) \o half
    BY <1>1, <1>2, <1>4, ChangeBehindTheAge, SMTT(20)
<1> HIDE DEF half
<1>8. body \in Seq(Octet)
    BY <1>2, <1>4, <1>6, ReplaceOctet
<1>9. [Encode(lsa.age) \o half EXCEPT ![(p + 1) + 2] = y] = Encode(lsa.age) \o body
    BY <1>1, <1>2, <1>4, <1>6, ChangeBehindTheAge, SMTT(20)
<1> HIDE DEF body
<1>10. /\ lsa'.seq = lsa.seq /\ lsa'.checksum = lsa.checksum /\ lsa'.age = lsa.age
       /\ lsa'.octets = Encode(lsa.age) \o body
    <2>1. lsa' = [seq |-> lsa.seq, checksum |-> lsa.checksum, age |-> lsa.age,
                  octets |-> Encode(lsa.age) \o body]
        BY ONLY <1>5, <1>7, <1>9, Zenon
    <2> QED
        BY ONLY <2>1
<1>11. IsLeftOf(body, origin)
    <2>1. body = [origin EXCEPT ![p] = origin[p + 1], ![p + 1] = origin[p]]
        BY DEF body, half, x, y
    <2> QED
        BY <1>2, <2>1 DEF IsLeftOf
<1> QED
    BY <1>1, <1>5, <1>8, <1>10, <1>11, LsaKept

\* Every step keeps the invariant.
THEOREM LsaInvariant == LsaSpec => []LsaInv
<1>1. LsaInit => LsaInv
    BY OriginatedLsa
<1>2. LsaInv /\ [LsaNext]_lsaVars => LsaInv'
    <2> SUFFICES ASSUME LsaInv, [LsaNext]_lsaVars
                 PROVE  LsaInv'
        OBVIOUS
    <2>1. ASSUME NEW age \in Ages, SetAge(age)
          PROVE  LsaInv'
        BY <2>1, SetAgeKeeps
    <2>2. CASE Damage
        <3>1. Body = origin /\ UNCHANGED origin
            BY <2>2 DEF Damage
        <3>2. PICK i \in 3 .. Len(lsa.octets) :
                 \/ \E octet \in DamagedOctets : lsa' = [lsa EXCEPT !.octets[i] = octet]
                 \/ /\ i < Len(lsa.octets)
                    /\ lsa' = [lsa EXCEPT !.octets[i] = lsa.octets[i + 1],
                                          !.octets[i + 1] = lsa.octets[i]]
            BY <2>2 DEF Damage
        <3>3. ASSUME NEW octet \in DamagedOctets, lsa' = [lsa EXCEPT !.octets[i] = octet]
              PROVE  LsaInv'
            <4>1. octet \in Octet
                BY DamageAssumption
            <4> QED
                BY <3>1, <3>3, <4>1, ChangedOctetKeeps
        <3>4. CASE /\ i < Len(lsa.octets)
                   /\ lsa' = [lsa EXCEPT !.octets[i] = lsa.octets[i + 1],
                                         !.octets[i + 1] = lsa.octets[i]]
            BY <3>1, <3>4, SwapKeeps
        <3> QED
            BY <3>2, <3>3, <3>4
    <2>3. CASE UNCHANGED lsaVars
        <3>1. lsa' = lsa /\ origin' = origin
            BY <2>3 DEF lsaVars
        <3> QED
            BY <3>1 DEF LsaInv, LsaTypeOK, Body
    <2> QED
        BY <2>1, <2>2, <2>3 DEF LsaNext
<1> QED
    BY <1>1, <1>2, PTL DEF LsaSpec

\* What the invariant says of the checksum.
LEMMA DamageTold == LsaInv => ChecksumTellsDamage
<1> SUFFICES ASSUME LsaInv
             PROVE  ChecksumTellsDamage
    OBVIOUS
<1>1. /\ lsa.age \in Uint16 /\ Body \in Seq(Octet) /\ origin \in Seq(Octet)
      /\ lsa.octets = Encode(lsa.age) \o Body
    BY LsaFields
<1>2. Decode(lsa.octets) = lsa.age
    BY <1>1, BehindTheAge
<1>3. Fletcher16(origin) = NoSums
    BY DEF LsaInv
<1>4. \A octet \in ToSet(Encode(lsa.checksum)) : octet # 0
    <2>1. PICK x \in 1 .. 255, y \in 1 .. 255 : lsa.checksum = Decode(<<x, y>>)
        BY DEF LsaInv
    <2>2. Encode(lsa.checksum) = <<x, y>>
        BY <2>1, DecodeEncodes
    <2>3. x # 0 /\ y # 0
        OBVIOUS
    <2> QED
        BY <2>2, <2>3 DEF ToSet
<1>5. Body = origin => IsChecksumValid
    BY <1>3 DEF IsChecksumValid
<1>6. ASSUME IsChecksumValid
      PROVE  \A i \in 1 .. Len(origin) : Body[i] % 255 = origin[i] % 255
    <2>1. Fletcher16(Body) = NoSums
        BY <1>6 DEF IsChecksumValid
    <2>2. CASE Body = origin
        BY <2>2
    <2>3. ASSUME NEW p \in 1 .. Len(origin), NEW octet \in Octet,
                 Body = [origin EXCEPT ![p] = octet]
          PROVE  \A i \in 1 .. Len(origin) : Body[i] % 255 = origin[i] % 255
        <3>1. Fletcher16([origin EXCEPT ![p] = octet]) = NoSums
            BY <2>1, <2>3
        <3>2. \A i \in 1 .. Len(origin) :
                 [origin EXCEPT ![p] = octet][i] % 255 = origin[i] % 255
            BY ONLY <1>1, <1>3, <3>1, ReplacedOctetShows
        <3> QED
            BY <2>3, <3>2
    <2>4. ASSUME NEW p \in 1 .. Len(origin) - 1,
                 Body = [origin EXCEPT ![p] = origin[p + 1], ![p + 1] = origin[p]]
          PROVE  \A i \in 1 .. Len(origin) : Body[i] % 255 = origin[i] % 255
        <3> DEFINE e == [origin EXCEPT ![p] = origin[p + 1], ![p + 1] = origin[p]]
        <3>1. Fletcher16(e) = NoSums
            BY <2>1, <2>4
        <3>2. \A i \in 1 .. Len(origin) : e[i] % 255 = origin[i] % 255
            BY ONLY <1>1, <1>3, <3>1, SwappedOctetsShow, ZenonT(30)
        <3> QED
            BY <2>4, <3>2
    <2>5. IsLeftOf(Body, origin)
        BY DEF LsaInv
    <2> QED
        BY <2>2, <2>3, <2>4, <2>5 DEF IsLeftOf
<1> QED
    BY <1>2, <1>4, <1>5, <1>6 DEF ChecksumTellsDamage

\* ChecksumTellsDamage, for LSAs of any length, with the check bytes anywhere in
\* them: fletcher16GenerateChecksum and IsChecksumValid agree, SetAge disturbs
\* neither, and one octet or one swap on the way is noticed.
THEOREM DamageIsTold == LsaSpec => []ChecksumTellsDamage
<1>1. LsaInv => ChecksumTellsDamage
    BY DamageTold
<1> QED
    BY <1>1, LsaInvariant, PTL

\* RecencyIsOrder, whatever sequence numbers and ages there are.
THEOREM RecencyDecides == LsaSpec => []RecencyIsOrder
<1>1. LsaInv => RecencyIsOrder
    BY RecencyHolds DEF LsaInv
<1> QED
    BY <1>1, LsaInvariant, PTL

================================================================================
