----------------------------- MODULE ServiceManager -----------------------------
(***************************************************************************)
(* ServiceManager.Run (chatterd/services/service_manager.go) with the      *)
(* services it starts: every change of the configuration stops all         *)
(* services and starts the ones of the new configuration.                  *)
(*                                                                         *)
(* The goroutines of one errgroup: the feeder, which follows the           *)
(* ConfigManager's notifier and offers configurations in confCh; the       *)
(* manager, which applies them; and one goroutine for every service        *)
(* started.  The channel s.st of capacity 1 is the mutex of the map of     *)
(* controllers.  The manager keeps it from the first Stop to the last      *)
(* start.  Get and RunningServices take it, read and give it back, which   *)
(* nobody can observe in between, so each is one step.                     *)
(*                                                                         *)
(* The notifier is used through what it promises (module Broadcast, which  *)
(* module Notifier implements).  A configuration is the set of services    *)
(* that Bootstraps returns for it, and Bootstraps returns them in an order *)
(* that respects the dependencies (module ServiceGraph).                   *)
(***************************************************************************)
EXTENDS Integers, Sequences, FiniteSets

CONSTANTS Services,     \* the names of services
          Deps,         \* Deps[s]: the services s depends on
          Lookups,      \* Lookups[s]: the services Run of s gets when it starts
          Servers,      \* services that answer the API's calls
          BadBuilders,  \* services whose builder may return an error
          Fallible,     \* services whose Run may return an error
          Configs,      \* configurations, each the set of its services
          FirstConfig,  \* the configuration chatterd is started with
          NoConf,       \* the manager has not received a configuration
          MaxConf,      \* bound: UpdateConfig is called at most this often
          MaxGen,       \* bound: the manager applies a configuration this often
          MaxCalls      \* bound: calls of RunningServices at one time

ASSUME ServicesAssumption == IsFiniteSet(Services)
ASSUME DepsAssumption == Deps \in [Services -> SUBSET Services]
ASSUME LookupsAssumption ==
    /\ Lookups \in [Services -> SUBSET Services]
    /\ \A s \in Services : Lookups[s] \subseteq Deps[s]
ASSUME SetsAssumption ==
    /\ Servers \subseteq Services
    /\ BadBuilders \subseteq Services
    /\ Fallible \subseteq Services
ASSUME ConfigsAssumption ==
    /\ Configs \subseteq SUBSET Services
    /\ FirstConfig \in Configs
    /\ \A conf \in Configs : \A s \in conf : Deps[s] \subseteq conf
ASSUME NoConfAssumption == NoConf \notin Nat
ASSUME BoundsAssumption == MaxConf \in Nat /\ MaxGen \in Nat /\ MaxCalls \in Nat

VARIABLES
    hist,         \* every configuration published, see Broadcast
    seen,         \* the feeder's conf and seq, see Broadcast
    feeder,       \* where the feeder is
    confCh,       \* the buffer of confCh: versions of the configuration
    manager,      \* where the manager is
    conf,         \* the version of the configuration the manager is applying
    gen,          \* how many configurations the manager has received
    stFree,       \* the state is in s.st
    controllers,  \* st.controllers: controllers[s] is an instance, 0 if none
    toStart,      \* the rest of the loop over Bootstraps
    inst,         \* every service instance ever started, with its goroutine
    ctxDone       \* the errgroup's context is done

vars == <<hist, seen, feeder, confCh, manager, conf, gen, stFree, controllers,
          toStart, inst, ctxDone>>

managerVars == <<manager, conf, gen, stFree, controllers, toStart>>
configVars == <<hist, seen, feeder>>

Feeder == "feeder"
Config == INSTANCE Broadcast
            WITH Listeners <- {Feeder}, Values <- Configs, InitialVal <- FirstConfig

\* An instance: pc is "starting" until the lookups of Run are done, "running",
\* "returned" once Run returned, "closed" once done is closed, and "gone" once
\* the goroutine's error has reached the errgroup.
Instance == [svc     : Services,
             gen     : 1 .. MaxGen,           \* the application it was started by
             conf    : Nat,                   \* the version that one applied
             pc      : {"starting", "running", "returned", "closed", "gone"},
             stopped : BOOLEAN,               \* its controller was told to Stop
             err     : BOOLEAN,               \* Run returned an error
             found   : SUBSET (1 .. MaxGen),  \* generations of what Get returned
             calls   : 0 .. MaxCalls]         \* calls of RunningServices in progress

Controlled == {s \in Services : controllers[s] # 0}
InRun(i) == inst[i].pc \in {"starting", "running"}
Cancelled(i) == inst[i].stopped \/ ctxDone

--------------------------------------------------------------------------------

Init ==
    /\ Config!Init
    /\ feeder = "start"
    /\ confCh = {}
    /\ manager = "select"
    /\ conf = NoConf
    /\ gen = 0
    /\ stFree = TRUE
    /\ controllers = [s \in Services |-> 0]
    /\ toStart = <<>>
    /\ inst = <<>>
    /\ ctxDone = FALSE

\* ConfigManager.UpdateConfig: validate accepts every configuration.
UpdateConfig ==
    /\ Len(hist) <= MaxConf
    /\ Config!Publish
    /\ UNCHANGED <<feeder, confCh, managerVars, inst, ctxDone>>

\* An interrupt, or a call of the API's Shutdown: main's context is done.
Shutdown ==
    /\ ~ctxDone
    /\ ctxDone' = TRUE
    /\ UNCHANGED <<configVars, confCh, managerVars, inst>>

--------------------------------------------------------------------------------
(* The feeder.                                                               *)

FeederLastChange ==
    /\ feeder = "start"
    /\ Config!Learn(Feeder)
    /\ feeder' = "offer"
    /\ UNCHANGED <<confCh, managerVars, inst, ctxDone>>

FeederOffer_Drop ==
    /\ feeder = "offer"
    /\ confCh' = IF confCh = {} THEN {seen[Feeder].seq} ELSE confCh
    /\ feeder' = "await"
    /\ UNCHANGED <<hist, seen, managerVars, inst, ctxDone>>
FeederOffer ==
    /\ feeder = "offer"
    /\ confCh = {}
    /\ confCh' = {seen[Feeder].seq}
    /\ feeder' = "await"
    /\ UNCHANGED <<hist, seen, managerVars, inst, ctxDone>>

FeederDone_AfterSend ==
    /\ feeder = "offer"
    /\ ctxDone
    /\ confCh = {}
    /\ feeder' = "returned"
    /\ UNCHANGED <<hist, seen, confCh, managerVars, inst, ctxDone>>
FeederDone ==
    /\ feeder = "offer"
    /\ ctxDone
    /\ feeder' = "returned"
    /\ UNCHANGED <<hist, seen, confCh, managerVars, inst, ctxDone>>

\* AwaitChange returns a newer version, or what it has if ctx is done.
FeederAwaitChange ==
    /\ feeder = "await"
    /\ Config!Learn(Feeder)
    /\ seen'[Feeder].seq > seen[Feeder].seq \/ ctxDone
    /\ feeder' = "offer"
    /\ UNCHANGED <<confCh, managerVars, inst, ctxDone>>

--------------------------------------------------------------------------------
(* The manager.                                                              *)

ManagerDone ==
    /\ manager = "select"
    /\ ctxDone
    /\ manager' = "returned"
    /\ UNCHANGED <<configVars, confCh, conf, gen, stFree, controllers, toStart,
                   inst, ctxDone>>

ManagerReceive ==
    /\ manager = "select"
    /\ gen < MaxGen
    /\ \E v \in confCh :
          /\ conf' = v
          /\ confCh' = confCh \ {v}
    /\ gen' = gen + 1
    /\ manager' = "acquire"
    /\ UNCHANGED <<configVars, stFree, controllers, toStart, inst, ctxDone>>

ManagerAcquire ==
    /\ manager = "acquire"
    /\ stFree
    /\ stFree' = FALSE
    /\ manager' = "stop"
    /\ UNCHANGED <<configVars, confCh, conf, gen, controllers, toStart, inst, ctxDone>>

\* for _, controller := range st.controllers { controller.Stop() }
ManagerStop ==
    /\ manager = "stop"
    /\ \E s \in Controlled :
          /\ ~inst[controllers[s]].stopped
          /\ inst' = [inst EXCEPT ![controllers[s]].stopped = TRUE]
    /\ UNCHANGED <<configVars, confCh, managerVars, ctxDone>>

ManagerStopped ==
    /\ manager = "stop"
    /\ \A s \in Controlled : inst[controllers[s]].stopped
    /\ manager' = "wait"
    /\ UNCHANGED <<configVars, confCh, conf, gen, stFree, controllers, toStart,
                   inst, ctxDone>>

\* controller.Wait() and delete(st.controllers, name).  All of them have to be
\* waited for, so the order in which they are found done does not matter.
ManagerWait_NoWait ==
    /\ manager = "wait"
    /\ \E s \in Controlled : controllers' = [controllers EXCEPT ![s] = 0]
    /\ UNCHANGED <<configVars, confCh, manager, conf, gen, stFree, toStart,
                   inst, ctxDone>>
ManagerWait ==
    /\ manager = "wait"
    /\ \E s \in Controlled :
          /\ inst[controllers[s]].pc \in {"closed", "gone"}
          /\ controllers' = [controllers EXCEPT ![s] = 0]
    /\ UNCHANGED <<configVars, confCh, manager, conf, gen, stFree, toStart,
                   inst, ctxDone>>

\* The orders in which Bootstraps may return the services of a configuration.
Bootstraps(services) ==
    {order \in [1 .. Cardinality(services) -> services] :
        /\ \A i, j \in DOMAIN order : order[i] = order[j] => i = j
        /\ \A i \in DOMAIN order : \A d \in Deps[order[i]] :
               \E j \in 1 .. (i - 1) : order[j] = d}

ManagerBootstraps ==
    /\ manager = "wait"
    /\ Controlled = {}
    /\ toStart' \in Bootstraps(hist[conf + 1])
    /\ manager' = "start"
    /\ UNCHANGED <<configVars, confCh, conf, gen, stFree, controllers, inst, ctxDone>>

\* start: the goroutine of the new instance enters Run.
ManagerStart ==
    /\ manager = "start"
    /\ toStart # <<>>
    /\ LET s == Head(toStart)
       IN  /\ s \notin Controlled
           /\ inst' = Append(inst,
                  [svc |-> s, gen |-> gen, conf |-> conf, pc |-> "starting", stopped |-> FALSE,
                   err |-> FALSE, found |-> {}, calls |-> 0])
           /\ controllers' = [controllers EXCEPT ![s] = Len(inst) + 1]
    /\ toStart' = Tail(toStart)
    /\ UNCHANGED <<configVars, confCh, manager, conf, gen, stFree, ctxDone>>

\* start returns an error, and so does the manager.  It keeps the state.
ManagerStartError ==
    /\ manager = "start"
    /\ toStart # <<>>
    /\ Head(toStart) \in Controlled \cup BadBuilders
    /\ manager' = "returned"
    /\ ctxDone' = TRUE
    /\ UNCHANGED <<configVars, confCh, conf, gen, stFree, controllers, toStart, inst>>

ManagerRelease_Early ==
    /\ manager = "start"
    /\ stFree' = TRUE
    /\ manager' = IF toStart = <<>> THEN "select" ELSE "start"
    /\ UNCHANGED <<configVars, confCh, conf, gen, controllers, toStart, inst, ctxDone>>
ManagerRelease ==
    /\ manager = "start"
    /\ toStart = <<>>
    /\ stFree' = TRUE
    /\ manager' = "select"
    /\ UNCHANGED <<configVars, confCh, conf, gen, controllers, toStart, inst, ctxDone>>

--------------------------------------------------------------------------------
(* The goroutine of instance i.                                              *)

ServiceUnchanged == UNCHANGED <<configVars, confCh, managerVars>>

\* Run begins with Get of every service it looks up; an error of Get is
\* returned.
ServiceGet_NoLock(i) ==
    LET found == {inst[controllers[s]].gen : s \in Lookups[inst[i].svc] \cap Controlled}
        missing == Lookups[inst[i].svc] \ Controlled # {}
    IN  /\ inst[i].pc = "starting"
        /\ inst' = [inst EXCEPT ![i].pc = IF missing THEN "returned" ELSE "running",
                                ![i].err = missing,
                                ![i].found = found]
        /\ UNCHANGED ctxDone
        /\ ServiceUnchanged
ServiceGet(i) ==
    LET found == {inst[controllers[s]].gen : s \in Lookups[inst[i].svc] \cap Controlled}
        missing == Lookups[inst[i].svc] \ Controlled # {}
    IN  /\ inst[i].pc = "starting"
        /\ stFree \/ Lookups[inst[i].svc] = {}
        /\ inst' = [inst EXCEPT ![i].pc = IF missing THEN "returned" ELSE "running",
                                ![i].err = missing,
                                ![i].found = found]
        /\ UNCHANGED ctxDone
        /\ ServiceUnchanged

\* A client calls GetServices.  A server that is told to stop accepts no more
\* calls.
ServiceCall(i) ==
    /\ inst[i].svc \in Servers
    /\ inst[i].pc = "running"
    /\ ~Cancelled(i)
    /\ inst[i].calls < MaxCalls
    /\ inst' = [inst EXCEPT ![i].calls = @ + 1]
    /\ UNCHANGED ctxDone
    /\ ServiceUnchanged

\* RunningServices takes the state, and the call returns.
ServiceAnswer(i) ==
    /\ inst[i].calls > 0
    /\ stFree
    /\ inst' = [inst EXCEPT ![i].calls = @ - 1]
    /\ UNCHANGED ctxDone
    /\ ServiceUnchanged

\* Run returns, with an error (err) or because its context is done.  A server
\* stops gracefully: Run returns after the calls in progress have.
ServiceReturn(i, err) ==
    /\ inst[i].pc = "running"
    /\ IF err THEN inst[i].svc \in Fallible ELSE Cancelled(i)
    /\ inst[i].calls = 0
    /\ inst' = [inst EXCEPT ![i].pc = "returned", ![i].err = err]
    /\ UNCHANGED ctxDone
    /\ ServiceUnchanged

\* close(done)
ServiceClose(i) ==
    /\ inst[i].pc = "returned"
    /\ inst' = [inst EXCEPT ![i].pc = "closed"]
    /\ UNCHANGED ctxDone
    /\ ServiceUnchanged

\* return err: the errgroup cancels its context on an error.
ServiceGone(i) ==
    /\ inst[i].pc = "closed"
    /\ inst' = [inst EXCEPT ![i].pc = "gone"]
    /\ ctxDone' = (ctxDone \/ inst[i].err)
    /\ ServiceUnchanged

--------------------------------------------------------------------------------

FeederStep == FeederLastChange \/ FeederOffer \/ FeederDone \/ FeederAwaitChange

ManagerStep ==
    \/ ManagerDone \/ ManagerReceive \/ ManagerAcquire \/ ManagerStop
    \/ ManagerStopped \/ ManagerWait \/ ManagerBootstraps \/ ManagerStart
    \/ ManagerStartError \/ ManagerRelease

ServiceStep(i) ==
    \/ ServiceGet(i) \/ ServiceCall(i) \/ ServiceAnswer(i)
    \/ \E err \in BOOLEAN : ServiceReturn(i, err)
    \/ ServiceClose(i) \/ ServiceGone(i)

Next ==
    \/ UpdateConfig \/ Shutdown
    \/ FeederStep \/ ManagerStep
    \/ \E i \in 1 .. Len(inst) : ServiceStep(i)

Spec == Init /\ [][Next]_vars

\* Every goroutine runs when it can: weak fairness for the feeder, the manager
\* and the services (an instance has finitely many steps to its end, so what
\* is fair to all of them is fair to each).  A select with several cases ready
\* picks one at random, so it does not pass over ctx.Done() for ever, and the
\* goroutines that wait for s.st get it in order: strong fairness.  Nobody has
\* to update the configuration, to shut down, to call the API or to fail.
SomeService(Step(_)) == \E i \in 1 .. Len(inst) : Step(i)
ServiceEnd(i) == ServiceReturn(i, FALSE) \/ ServiceClose(i) \/ ServiceGone(i)

Fairness ==
    /\ WF_vars(FeederStep) /\ SF_vars(FeederDone)
    /\ WF_vars(ManagerStep) /\ SF_vars(ManagerDone) /\ SF_vars(ManagerAcquire)
    /\ SF_vars(SomeService(ServiceGet)) /\ SF_vars(SomeService(ServiceAnswer))
    /\ WF_vars(SomeService(ServiceEnd))

FairSpec == Spec /\ Fairness

--------------------------------------------------------------------------------
(* Properties                                                                *)

TypeOK ==
    /\ hist \in Seq(Configs)
    /\ seen \in [{Feeder} -> [seq : Nat, val : Configs]]
    /\ feeder \in {"start", "offer", "await", "returned"}
    /\ confCh \subseteq Nat /\ \A v, w \in confCh : v = w
    /\ manager \in {"select", "acquire", "stop", "wait", "start", "returned"}
    /\ conf \in Nat \cup {NoConf}
    /\ gen \in 0 .. MaxGen
    /\ stFree \in BOOLEAN
    /\ controllers \in [Services -> 0 .. Len(inst)]
    /\ toStart \in Seq(Services)
    /\ inst \in Seq(Instance)
    /\ ctxDone \in BOOLEAN

\* A restart is complete: the instances in Run belong to one generation, to
\* different services, and have their controllers.  Two instances of a service
\* never run at the same time, no service of a new configuration meets one of
\* an old configuration, and none runs on where no Stop can reach it.
OneGeneration ==
    \A i, j \in 1 .. Len(inst) :
        InRun(i) /\ InRun(j) =>
            /\ inst[i].gen = inst[j].gen
            /\ inst[i].svc = inst[j].svc => i = j
            /\ controllers[inst[i].svc] = i

\* Nobody sees a restart half done: whenever the state can be taken from s.st,
\* as Get and RunningServices do, the controllers are those of exactly the
\* services of one published configuration, started together.
SnapshotIsOneConfig ==
    stFree =>
        \/ Controlled = {} /\ inst = <<>>
        \/ \E v \in Config!Versions, g \in 1 .. gen :
              /\ Controlled = hist[v + 1]
              /\ \A s \in Controlled :
                    inst[controllers[s]].conf = v /\ inst[controllers[s]].gen = g

\* The lookups of a service never fail, however its Get races with a restart,
\* and return instances of the service's own generation, never ones that have
\* been stopped for it.
LookupsAreCurrent ==
    \A i \in 1 .. Len(inst) :
        inst[i].pc # "starting" =>
            inst[i].found = {inst[i].gen : s \in Lookups[inst[i].svc]}

\* Run of the ServiceManager has returned.
AllReturned ==
    /\ feeder = "returned"
    /\ manager = "returned"
    /\ \A i \in 1 .. Len(inst) : inst[i].pc = "gone"

\* Instance i waits for the state in Get or RunningServices.
WaitsForState(i) ==
    \/ inst[i].pc = "starting" /\ Lookups[inst[i].svc] # {}
    \/ inst[i].calls > 0

\* The manager owns the state and waits for an instance that waits for the
\* state, or it has returned with the state.
Stuck ==
    /\ ~stFree
    /\ \E i \in 1 .. Len(inst) :
          /\ WaitsForState(i)
          /\ \/ manager = "wait" /\ controllers[inst[i].svc] = i
             \/ manager = "returned"

\* The manager has applied the newest configuration.
NewestApplied == manager = "select" /\ conf = Len(hist) - 1

\* The only way for a shutdown to hang is that wait of the manager for an
\* instance that waits for the manager's state: all else ends.
ShutdownEndsUnlessStuck == ctxDone ~> (AllReturned \/ Stuck)

\* The newest configuration is applied again and again, that is, in the end,
\* unless chatterd is shut down or the manager is stuck.
ConfigAppliedUnlessStuck == []<>(NewestApplied \/ ctxDone \/ Stuck)

\* "Services are restarted on config changes": in the end the services of the
\* newest configuration run, unless chatterd is shut down.
ConfigApplied == []<>(NewestApplied \/ ctxDone)

================================================================================
