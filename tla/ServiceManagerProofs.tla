-------------------------- MODULE ServiceManagerProofs --------------------------
(***************************************************************************)
(* What ServiceManager.Run guarantees, for any services, dependencies and  *)
(* configurations, and any bounds.                                         *)
(*                                                                         *)
(* The three properties say what is seen of a restart.  They rest on who   *)
(* changes the controllers and when: the manager has the state while it    *)
(* does (StateIsTaken); it deletes a controller only once done is closed,  *)
(* so whatever is in Run has its controller (LiveIsControlled); all        *)
(* controllers are of the generation started last (ControlledAreLast),     *)
(* and, during the loop over Bootstraps, those started and those to start  *)
(* make up the configuration (StartIsRight).                               *)
(***************************************************************************)
EXTENDS ServiceManager, FunctionTheorems, FiniteSetTheorems, SequenceTheorems, TLAPS

--------------------------------------------------------------------------------
(* The inductive invariant                                                   *)

\* The versions that the feeder, confCh and the manager hold were published.
VersionsExist ==
    /\ confCh \subseteq Config!Versions
    /\ seen[Feeder].seq \in Config!Versions
    /\ gen > 0 => conf \in Config!Versions
    /\ manager \in {"acquire", "stop", "wait", "start"} => gen > 0

\* While the manager changes the controllers it has the state.
StateIsTaken == manager \in {"stop", "wait", "start"} => ~stFree

\* A controller is one of its service, and an instance whose done channel is
\* not closed has its controller: Wait keeps the manager from deleting it.
ControllersMatch == \A s \in Controlled : inst[controllers[s]].svc = s
LiveIsControlled ==
    \A i \in 1 .. Len(inst) :
        inst[i].pc \notin {"closed", "gone"} => controllers[inst[i].svc] = i

\* The controllers are those of the generation started last.
LastStarted == IF manager \in {"acquire", "stop", "wait"} THEN gen - 1 ELSE gen
ControlledAreLast == \A s \in Controlled : inst[controllers[s]].gen = LastStarted

\* The services started and the ones to start are those of the configuration.
StartIsRight ==
    manager = "start" =>
        /\ Controlled \cup {toStart[k] : k \in 1 .. Len(toStart)} = hist[conf + 1]
        /\ \A k \in 1 .. Len(toStart) : toStart[k] \notin Controlled
        /\ \A k, m \in 1 .. Len(toStart) : toStart[k] = toStart[m] => k = m
        /\ \A s \in Controlled : inst[controllers[s]].conf = conf

\* The inductive invariant.
IInv ==
    /\ TypeOK /\ VersionsExist /\ StateIsTaken
    /\ ControllersMatch /\ LiveIsControlled /\ ControlledAreLast
    /\ StartIsRight /\ SnapshotIsOneConfig /\ LookupsAreCurrent

--------------------------------------------------------------------------------
(* The proofs                                                                *)

\* What instances and controllers are.
LEMMA InstanceType ==
  ASSUME TypeOK
  PROVE  /\ Len(inst) \in Nat
         /\ \A i \in 1 .. Len(inst) : inst[i] \in Instance
         /\ \A s \in Services : controllers[s] \in 0 .. Len(inst)
         /\ \A s \in Controlled : s \in Services /\ controllers[s] \in 1 .. Len(inst)
<1>1. inst \in Seq(Instance) /\ controllers \in [Services -> 0 .. Len(inst)]
  BY DEF TypeOK
<1>2. Len(inst) \in Nat /\ \A i \in 1 .. Len(inst) : inst[i] \in Instance
  BY <1>1
<1> QED
  BY <1>1, <1>2 DEF Controlled

\* One instance goes on; who it is does not change, and what is closed stays so.
GoesOn(i, r) ==
    /\ inst' = [inst EXCEPT ![i] = r]
    /\ r.svc = inst[i].svc /\ r.gen = inst[i].gen /\ r.conf = inst[i].conf
    /\ inst[i].pc \in {"closed", "gone"} => r.pc \in {"closed", "gone"}

\* A step that makes an instance go on leaves the rest as it is.
LEMMA GoesOnEffect ==
  ASSUME TypeOK, NEW i \in 1 .. Len(inst), NEW r \in Instance, GoesOn(i, r)
  PROVE  /\ inst' \in Seq(Instance) /\ Len(inst') = Len(inst)
         /\ inst'[i] = r
         /\ \A j \in 1 .. Len(inst) : j # i => inst'[j] = inst[j]
         /\ \A j \in 1 .. Len(inst) :
               /\ inst'[j].svc = inst[j].svc /\ inst'[j].gen = inst[j].gen
               /\ inst'[j].conf = inst[j].conf
               /\ inst[j].pc \in {"closed", "gone"} => inst'[j].pc \in {"closed", "gone"}
<1>1. inst \in Seq(Instance) /\ inst' = [inst EXCEPT ![i] = r]
  BY DEF TypeOK, GoesOn
<1>2. /\ [inst EXCEPT ![i] = r] \in Seq(Instance)
      /\ Len([inst EXCEPT ![i] = r]) = Len(inst)
      /\ \A j \in 1 .. Len(inst) : [inst EXCEPT ![i] = r][j] = IF j = i THEN r ELSE inst[j]
  BY <1>1, ExceptSeq
<1> QED
  BY <1>1, <1>2 DEF GoesOn

\* The step of a service: it goes on, and either its lookups are not touched or
\* this is the step that does them.
LEMMA ServiceEffect ==
  ASSUME TypeOK, NEW i \in 1 .. Len(inst), ServiceStep(i)
  PROVE  /\ UNCHANGED <<hist, seen, feeder, confCh, manager, conf, gen, stFree,
                        controllers, toStart>>
         /\ ctxDone' \in BOOLEAN
         /\ \E r \in Instance :
               /\ GoesOn(i, r)
               /\ \/ r.found = inst[i].found /\ (r.pc = "starting" <=> inst[i].pc = "starting")
                  \/ ServiceGet(i)
<1>t. /\ inst[i] \in Instance /\ ctxDone \in BOOLEAN
      /\ inst \in Seq(Instance)
  BY InstanceType DEF TypeOK
<1>u. UNCHANGED <<hist, seen, feeder, confCh, manager, conf, gen, stFree,
                  controllers, toStart>>
  BY DEF ServiceStep, ServiceGet, ServiceCall, ServiceAnswer, ServiceReturn, ServiceClose,
         ServiceGone, ServiceUnchanged, configVars, managerVars
<1> DEFINE Effect == /\ ctxDone' \in BOOLEAN
                     /\ \E r \in Instance :
                           /\ GoesOn(i, r)
                           /\ \/ r.found = inst[i].found /\ (r.pc = "starting" <=> inst[i].pc = "starting")
                              \/ ServiceGet(i)
<1>1. CASE ServiceGet(i)
  <2> DEFINE found == {inst[controllers[s]].gen : s \in Lookups[inst[i].svc] \cap Controlled}
             missing == Lookups[inst[i].svc] \ Controlled # {}
             r == [inst[i] EXCEPT !.pc = IF missing THEN "returned" ELSE "running",
                                  !.err = missing, !.found = found]
  <2>1. /\ inst[i].pc = "starting" /\ ctxDone' = ctxDone
        /\ inst' = [inst EXCEPT ![i].pc = IF missing THEN "returned" ELSE "running",
                                ![i].err = missing, ![i].found = found]
    BY <1>1 DEF ServiceGet
  <2>2. found \subseteq 1 .. MaxGen
    BY InstanceType DEF Instance
  <2>3. missing \in BOOLEAN
    OBVIOUS
  <2> HIDE DEF found, missing
  <2>4. r \in Instance
    BY <1>t, <2>2, <2>3 DEF Instance
  <2>5. /\ r.svc = inst[i].svc /\ r.gen = inst[i].gen /\ r.conf = inst[i].conf
    BY <1>t DEF Instance
  <2>6. inst' = [inst EXCEPT ![i] = r]
    BY <1>t, <2>1
  <2>7. GoesOn(i, r)
    BY <2>1, <2>5, <2>6 DEF GoesOn
  <2> QED
    BY <1>1, <1>t, <1>u, <2>1, <2>4, <2>7
<1>2. CASE ServiceCall(i)
  <2> DEFINE r == [inst[i] EXCEPT !.calls = @ + 1]
  <2>0. inst[i].calls + 1 \in 0 .. MaxCalls
    BY <1>t, <1>2, BoundsAssumption DEF ServiceCall, Instance
  <2>1. r \in Instance
    BY <1>t, <2>0 DEF Instance
  <2>2. /\ inst' = [inst EXCEPT ![i] = r] /\ inst[i].pc = "running" /\ ctxDone' = ctxDone
    BY <1>t, <1>2 DEF ServiceCall
  <2>3. /\ r.svc = inst[i].svc /\ r.gen = inst[i].gen /\ r.conf = inst[i].conf
        /\ r.found = inst[i].found /\ r.pc = inst[i].pc
    BY <1>t DEF Instance
  <2>4. GoesOn(i, r)
    BY <2>2, <2>3 DEF GoesOn
  <2> QED
    BY <1>t, <1>u, <2>1, <2>2, <2>3, <2>4
<1>3. CASE ServiceAnswer(i)
  <2> DEFINE r == [inst[i] EXCEPT !.calls = @ - 1]
  <2>0. inst[i].calls - 1 \in 0 .. MaxCalls
    BY <1>t, <1>3, BoundsAssumption DEF ServiceAnswer, Instance
  <2>1. r \in Instance
    BY <1>t, <2>0 DEF Instance
  <2>2. /\ inst' = [inst EXCEPT ![i] = r] /\ inst[i].calls > 0 /\ ctxDone' = ctxDone
    BY <1>t, <1>3 DEF ServiceAnswer
  <2>3. /\ r.svc = inst[i].svc /\ r.gen = inst[i].gen /\ r.conf = inst[i].conf
        /\ r.found = inst[i].found /\ r.pc = inst[i].pc
    BY <1>t DEF Instance
  <2>4. GoesOn(i, r)
    BY <2>2, <2>3 DEF GoesOn
  <2> QED
    BY <1>t, <1>u, <2>1, <2>2, <2>3, <2>4
<1>4. ASSUME NEW err \in BOOLEAN, ServiceReturn(i, err) PROVE Effect
  <2> DEFINE r == [inst[i] EXCEPT !.pc = "returned", !.err = err]
  <2>1. r \in Instance
    BY <1>t, <1>4 DEF Instance
  <2>2. /\ inst' = [inst EXCEPT ![i] = r] /\ inst[i].pc = "running" /\ ctxDone' = ctxDone
    BY <1>t, <1>4 DEF ServiceReturn
  <2>3. /\ r.svc = inst[i].svc /\ r.gen = inst[i].gen /\ r.conf = inst[i].conf
        /\ r.found = inst[i].found /\ r.pc = "returned"
    BY <1>t DEF Instance
  <2>4. GoesOn(i, r)
    BY <2>2, <2>3 DEF GoesOn
  <2> QED
    BY <1>t, <1>u, <2>1, <2>2, <2>3, <2>4
<1>5. CASE ServiceClose(i)
  <2> DEFINE r == [inst[i] EXCEPT !.pc = "closed"]
  <2>1. r \in Instance
    BY <1>t DEF Instance
  <2>2. /\ inst' = [inst EXCEPT ![i] = r] /\ inst[i].pc = "returned" /\ ctxDone' = ctxDone
    BY <1>t, <1>5 DEF ServiceClose
  <2>3. /\ r.svc = inst[i].svc /\ r.gen = inst[i].gen /\ r.conf = inst[i].conf
        /\ r.found = inst[i].found /\ r.pc = "closed"
    BY <1>t DEF Instance
  <2>4. GoesOn(i, r)
    BY <2>2, <2>3 DEF GoesOn
  <2> QED
    BY <1>t, <1>u, <2>1, <2>2, <2>3, <2>4
<1>6. CASE ServiceGone(i)
  <2> DEFINE r == [inst[i] EXCEPT !.pc = "gone"]
  <2>1. r \in Instance
    BY <1>t DEF Instance
  <2>2. /\ inst' = [inst EXCEPT ![i] = r] /\ inst[i].pc = "closed" /\ ctxDone' \in BOOLEAN
    BY <1>t, <1>6 DEF ServiceGone
  <2>3. /\ r.svc = inst[i].svc /\ r.gen = inst[i].gen /\ r.conf = inst[i].conf
        /\ r.found = inst[i].found /\ r.pc = "gone"
    BY <1>t DEF Instance
  <2>4. GoesOn(i, r)
    BY <2>2, <2>3 DEF GoesOn
  <2> QED
    BY <1>t, <1>u, <2>1, <2>2, <2>3, <2>4
<1> QED
  BY <1>u, <1>1, <1>2, <1>3, <1>4, <1>5, <1>6 DEF ServiceStep

--------------------------------------------------------------------------------
(* What the other steps do                                                   *)

\* Published configurations stay, and new ones come after them.
LEMMA HistoryGrows ==
  ASSUME TypeOK, [Next]_vars
  PROVE  /\ hist' \in Seq(Configs) /\ Len(hist) \in Nat /\ Len(hist') >= Len(hist)
         /\ \A v \in Config!Versions : hist'[v + 1] = hist[v + 1]
         /\ Config!Versions \subseteq Config!Versions'
<1>t. hist \in Seq(Configs) /\ Len(hist) \in Nat
  BY DEF TypeOK
<1>1. CASE UpdateConfig
  <2>1. PICK c \in Configs : hist' = Append(hist, c)
    BY <1>1 DEF UpdateConfig, Config!Publish
  <2>2. /\ hist' \in Seq(Configs) /\ Len(hist') = Len(hist) + 1
        /\ \A k \in 1 .. Len(hist) : hist'[k] = hist[k]
    BY <1>t, <2>1, AppendProperties
  <2> QED
    BY <1>t, <2>2 DEF Config!Versions
<1>2. CASE hist' = hist
  BY <1>t, <1>2 DEF Config!Versions
<1>3. UpdateConfig \/ hist' = hist
  <2>1. CASE \E i \in 1 .. Len(inst) : ServiceStep(i)
    BY <2>1, ServiceEffect
  <2>2. CASE FeederStep
    BY <2>2 DEF FeederStep, FeederLastChange, FeederOffer, FeederDone, FeederAwaitChange,
           Config!Learn
  <2>3. CASE ManagerStep
    BY <2>3 DEF ManagerStep, ManagerDone, ManagerReceive, ManagerAcquire, ManagerStop,
           ManagerStopped, ManagerWait, ManagerBootstraps, ManagerStart, ManagerStartError,
           ManagerRelease, configVars
  <2>4. CASE Shutdown \/ UNCHANGED vars
    BY <2>4 DEF Shutdown, configVars, vars
  <2> QED
    BY <2>1, <2>2, <2>3, <2>4 DEF Next
<1> QED
  BY <1>1, <1>2, <1>3

\* The feeder holds, and hands over, versions that were published.
LEMMA FeederEffect ==
  ASSUME TypeOK, VersionsExist, FeederStep
  PROVE  /\ seen' \in [{Feeder} -> [seq : Nat, val : Configs]]
         /\ seen'[Feeder].seq \in Config!Versions
         /\ feeder' \in {"start", "offer", "await", "returned"}
         /\ confCh' \subseteq Config!Versions /\ \A v, w \in confCh' : v = w
         /\ UNCHANGED <<hist, managerVars, inst, ctxDone>>
<1>t. /\ seen \in [{Feeder} -> [seq : Nat, val : Configs]]
      /\ seen[Feeder].seq \in Config!Versions
      /\ confCh \subseteq Config!Versions /\ \A v, w \in confCh : v = w
      /\ hist \in Seq(Configs) /\ Len(hist) \in Nat
  BY DEF TypeOK, VersionsExist
<1>1. ASSUME Config!Learn(Feeder)
      PROVE  /\ seen' \in [{Feeder} -> [seq : Nat, val : Configs]]
             /\ seen'[Feeder].seq \in Config!Versions /\ hist' = hist
  <2>1. PICK v \in Config!Versions : seen' = [seen EXCEPT ![Feeder] = Config!Pair(v)]
    BY <1>1 DEF Config!Learn
  <2>2. v \in Nat /\ hist[v + 1] \in Configs
    BY <1>t DEF Config!Versions
  <2>3. Config!Pair(v) \in [seq : Nat, val : Configs] /\ Config!Pair(v).seq = v
    BY <2>2 DEF Config!Pair
  <2> QED
    BY <1>t, <1>1, <2>1, <2>3 DEF Config!Learn
<1>2. CASE FeederLastChange
  BY <1>t, <1>1, <1>2 DEF FeederLastChange
<1>3. CASE FeederOffer
  BY <1>t, <1>3 DEF FeederOffer
<1>4. CASE FeederDone
  BY <1>t, <1>4 DEF FeederDone
<1>5. CASE FeederAwaitChange
  BY <1>t, <1>1, <1>5 DEF FeederAwaitChange
<1> QED
  BY <1>2, <1>3, <1>4, <1>5 DEF FeederStep

\* Stop of a controller.
LEMMA StopEffect ==
  ASSUME TypeOK, ManagerStop
  PROVE  /\ \E i \in 1 .. Len(inst), r \in Instance :
               GoesOn(i, r) /\ r.found = inst[i].found /\ r.pc = inst[i].pc
         /\ UNCHANGED <<configVars, confCh, managerVars, ctxDone>>
<1>1. PICK s \in Controlled : inst' = [inst EXCEPT ![controllers[s]].stopped = TRUE]
  BY DEF ManagerStop
<1> DEFINE i == controllers[s]
           r == [inst[i] EXCEPT !.stopped = TRUE]
<1>2. i \in 1 .. Len(inst) /\ inst[i] \in Instance /\ inst \in Seq(Instance)
  BY InstanceType DEF TypeOK
<1>3. /\ r \in Instance
      /\ r.svc = inst[i].svc /\ r.gen = inst[i].gen /\ r.conf = inst[i].conf
      /\ r.found = inst[i].found /\ r.pc = inst[i].pc
  BY <1>2 DEF Instance
<1>4. inst' = [inst EXCEPT ![i] = r]
  BY <1>1, <1>2
<1>5. GoesOn(i, r)
  BY <1>3, <1>4 DEF GoesOn
<1> QED
  BY <1>2, <1>3, <1>5 DEF ManagerStop

\* Wait of a controller, which is then deleted.
LEMMA WaitEffect ==
  ASSUME TypeOK, ManagerWait
  PROVE  /\ \E s \in Controlled :
               /\ s \in Services /\ inst[controllers[s]].pc \in {"closed", "gone"}
               /\ controllers' = [controllers EXCEPT ![s] = 0]
               /\ controllers'[s] = 0
               /\ \A t \in Services : t # s => controllers'[t] = controllers[t]
               /\ Controlled' = Controlled \ {s}
         /\ manager = "wait"
         /\ UNCHANGED <<configVars, confCh, manager, conf, gen, stFree, toStart, inst, ctxDone>>
<1>1. PICK s \in Controlled : /\ inst[controllers[s]].pc \in {"closed", "gone"}
                              /\ controllers' = [controllers EXCEPT ![s] = 0]
  BY DEF ManagerWait
<1>2. s \in Services /\ controllers \in [Services -> 0 .. Len(inst)]
  BY DEF TypeOK, Controlled
<1>3. controllers'[s] = 0 /\ \A t \in Services : t # s => controllers'[t] = controllers[t]
  BY <1>1, <1>2
<1>4. Controlled' = Controlled \ {s}
  BY <1>2, <1>3 DEF Controlled
<1> QED
  BY <1>1, <1>2, <1>3, <1>4 DEF ManagerWait

\* The instance that start makes for the service s.
NewInstance(s) ==
    [svc |-> s, gen |-> gen, conf |-> conf, pc |-> "starting", stopped |-> FALSE,
     err |-> FALSE, found |-> {}, calls |-> 0]

\* start of the next service.
LEMMA StartEffect ==
  ASSUME TypeOK, VersionsExist, ManagerStart
  PROVE  /\ \E s \in Services :
               /\ s = Head(toStart) /\ s \notin Controlled
               /\ inst'[Len(inst) + 1] = NewInstance(s)
               /\ controllers'[s] = Len(inst) + 1
               /\ \A t \in Services : t # s => controllers'[t] = controllers[t]
               /\ Controlled' = Controlled \cup {s}
         /\ inst' \in Seq(Instance) /\ Len(inst') = Len(inst) + 1
         /\ \A i \in 1 .. Len(inst) : inst'[i] = inst[i]
         /\ controllers' \in [Services -> 0 .. Len(inst')]
         /\ manager = "start" /\ toStart # <<>> /\ toStart' = Tail(toStart)
         /\ toStart' \in Seq(Services)
         /\ UNCHANGED <<configVars, confCh, manager, conf, gen, stFree, ctxDone>>
<1> DEFINE s == Head(toStart)
<1>1. /\ manager = "start" /\ toStart # <<>> /\ toStart' = Tail(toStart)
      /\ s \notin Controlled
      /\ inst' = Append(inst, NewInstance(s))
      /\ controllers' = [controllers EXCEPT ![s] = Len(inst) + 1]
      /\ UNCHANGED <<configVars, confCh, manager, conf, gen, stFree, ctxDone>>
  BY DEF ManagerStart, NewInstance
<1>2. toStart \in Seq(Services) /\ inst \in Seq(Instance) /\ Len(inst) \in Nat
  BY DEF TypeOK
<1>3. s \in Services /\ toStart' \in Seq(Services)
  BY <1>1, <1>2, HeadTailProperties
<1>4. gen \in 1 .. MaxGen /\ conf \in Nat
  <2>1. gen > 0 /\ conf \in Config!Versions /\ gen \in 0 .. MaxGen
    BY <1>1 DEF VersionsExist, TypeOK
  <2>2. Len(hist) \in Nat
    BY DEF TypeOK
  <2> QED
    BY <2>1, <2>2, BoundsAssumption DEF Config!Versions
<1>5. NewInstance(s) \in Instance
  BY <1>3, <1>4, BoundsAssumption DEF NewInstance, Instance
<1>6. /\ inst' \in Seq(Instance) /\ Len(inst') = Len(inst) + 1
      /\ \A i \in 1 .. Len(inst) : inst'[i] = inst[i]
      /\ inst'[Len(inst) + 1] = NewInstance(s)
  BY <1>1, <1>2, <1>5, AppendProperties
<1>7. controllers \in [Services -> 0 .. Len(inst)]
  BY DEF TypeOK
<1>8. controllers' \in [Services -> 0 .. Len(inst')]
  BY <1>1, <1>2, <1>3, <1>6, <1>7
<1>9. /\ controllers'[s] = Len(inst) + 1
      /\ \A t \in Services : t # s => controllers'[t] = controllers[t]
  BY <1>1, <1>3, <1>7
<1>10. Controlled' = Controlled \cup {s}
  BY <1>2, <1>3, <1>9 DEF Controlled
<1> QED
  BY <1>1, <1>3, <1>6, <1>8, <1>9, <1>10

\* Bootstraps lists the services of a configuration, each of them once.
LEMMA BootstrapsLists ==
  ASSUME NEW services \in SUBSET Services, NEW order \in Bootstraps(services)
  PROVE  /\ order \in Seq(Services)
         /\ {order[k] : k \in 1 .. Len(order)} = services
         /\ \A k, m \in 1 .. Len(order) : order[k] = order[m] => k = m
<1> DEFINE n == Cardinality(services)
<1>1. IsFiniteSet(services)
  BY ServicesAssumption, FS_Subset
<1>2. n \in Nat
  BY <1>1, FS_CardinalityType
<1>3. /\ order \in [1 .. n -> services]
      /\ \A k, m \in 1 .. n : order[k] = order[m] => k = m
  BY DEF Bootstraps
<1>4. order \in Injection(1 .. n, services)
  BY <1>3 DEF Injection, IsInjective
<1>5. Cardinality(1 .. n) = n
  <2>1. 1 \in Int /\ n \in Int
    BY <1>2
  <2>2. Cardinality(1 .. n) = IF 1 > n THEN 0 ELSE n - 1 + 1
    BY <2>1, FS_Interval
  <2> QED
    BY <1>2, <2>2
<1>6. order \in Surjection(1 .. n, services)
  BY <1>1, <1>4, <1>5, FS_Injection
<1>7. order \in Seq(Services) /\ Len(order) = n
  BY <1>2, <1>3
<1>8. \A s \in services : \E k \in 1 .. n : order[k] = s
  BY <1>6 DEF Surjection
<1> QED
  BY <1>3, <1>7, <1>8

--------------------------------------------------------------------------------
(* One step                                                                  *)

\* Every step leaves the variables with their types, the versions in use
\* published, and the state with the manager while it changes the controllers.
LEMMA TypesStep == IInv /\ [Next]_vars => TypeOK' /\ VersionsExist' /\ StateIsTaken'
<1> SUFFICES ASSUME IInv, [Next]_vars PROVE TypeOK' /\ VersionsExist' /\ StateIsTaken'
  OBVIOUS
<1>t. TypeOK /\ VersionsExist /\ StateIsTaken
  BY DEF IInv
<1>h. hist' \in Seq(Configs) /\ Config!Versions \subseteq Config!Versions'
  BY <1>t, HistoryGrows
<1>n. Len(hist) \in Nat /\ Config!Versions \subseteq Nat /\ gen \in 0 .. MaxGen
  BY <1>t DEF TypeOK, Config!Versions
<1>1. CASE UpdateConfig
  <2>1. /\ UNCHANGED <<seen, feeder, confCh, manager, conf, gen, stFree, controllers,
                       toStart, inst, ctxDone>>
    BY <1>1 DEF UpdateConfig, Config!Publish, managerVars
  <2> QED
    BY <1>t, <1>h, <2>1 DEF TypeOK, VersionsExist, StateIsTaken
<1>2. CASE Shutdown
  BY <1>t, <1>h, <1>2 DEF Shutdown, configVars, managerVars, TypeOK, VersionsExist, StateIsTaken
<1>3. CASE FeederStep
  <2>1. UNCHANGED <<hist, manager, conf, gen, stFree, controllers, toStart, inst, ctxDone>>
    BY <1>t, <1>3, FeederEffect DEF managerVars
  <2>2. confCh' \subseteq Nat
    BY <1>t, <1>n, <1>3, FeederEffect
  <2>3. Config!Versions' = Config!Versions
    BY <2>1 DEF Config!Versions
  <2>4. TypeOK'
    BY <1>t, <1>h, <1>3, <2>1, <2>2, FeederEffect DEF TypeOK
  <2> QED
    BY <1>t, <1>3, <2>1, <2>3, <2>4, FeederEffect DEF VersionsExist, StateIsTaken
<1>4. CASE ManagerDone
  BY <1>t, <1>h, <1>4 DEF ManagerDone, configVars, TypeOK, VersionsExist, StateIsTaken
<1>5. CASE ManagerReceive
  <2>1. PICK v \in confCh : conf' = v /\ confCh' = confCh \ {v}
    BY <1>5 DEF ManagerReceive
  <2>2. gen' = gen + 1 /\ gen' \in 0 .. MaxGen /\ gen' > 0
    BY <1>n, <1>5, BoundsAssumption DEF ManagerReceive
  <2>3. /\ UNCHANGED <<hist, seen, feeder, stFree, controllers, toStart, inst, ctxDone>>
        /\ manager' = "acquire"
    BY <1>5 DEF ManagerReceive, configVars
  <2>4. TypeOK'
    BY <1>t, <1>h, <2>1, <2>2, <2>3 DEF TypeOK
  <2>5. VersionsExist' /\ StateIsTaken'
    BY <1>t, <1>h, <2>1, <2>2, <2>3 DEF VersionsExist, StateIsTaken
  <2> QED
    BY <2>4, <2>5
<1>6. CASE ManagerAcquire \/ ManagerStopped
  <2>1. /\ UNCHANGED <<hist, seen, feeder, confCh, conf, gen, controllers, toStart, inst,
                       ctxDone>>
        /\ manager' \in {"stop", "wait"}
        /\ manager \in {"acquire", "stop"}
    BY <1>6 DEF ManagerAcquire, ManagerStopped, configVars
  <2>2. stFree' = FALSE
    <3>1. CASE ManagerAcquire
      BY <3>1 DEF ManagerAcquire
    <3>2. CASE ManagerStopped
      <4>1. stFree \in BOOLEAN /\ ~stFree
        BY <1>t, <3>2 DEF ManagerStopped, TypeOK, StateIsTaken
      <4> QED
        BY <3>2, <4>1 DEF ManagerStopped
    <3> QED
      BY <1>6, <3>1, <3>2
  <2> QED
    BY <1>t, <1>h, <2>1, <2>2 DEF TypeOK, VersionsExist, StateIsTaken
<1>7. CASE ManagerStop
  <2>1. inst' \in Seq(Instance) /\ Len(inst') = Len(inst)
    BY <1>t, <1>7, StopEffect, GoesOnEffect
  <2> QED
    BY <1>t, <1>h, <1>7, <2>1
       DEF ManagerStop, configVars, managerVars, TypeOK, VersionsExist, StateIsTaken
<1>8. CASE ManagerWait
  <2>1. PICK s \in Controlled : controllers' = [controllers EXCEPT ![s] = 0]
    BY <1>8 DEF ManagerWait
  <2>2. controllers \in [Services -> 0 .. Len(inst)] /\ 0 \in 0 .. Len(inst)
    BY <1>t, InstanceType DEF TypeOK
  <2>3. controllers' \in [Services -> 0 .. Len(inst)]
    BY <2>1, <2>2
  <2> QED
    BY <1>t, <1>h, <1>8, <2>3
       DEF ManagerWait, configVars, TypeOK, VersionsExist, StateIsTaken
<1>9. CASE ManagerBootstraps
  <2>1. hist[conf + 1] \in SUBSET Services
    <3>1. conf \in Config!Versions
      BY <1>t, <1>9 DEF ManagerBootstraps, VersionsExist
    <3>2. hist[conf + 1] \in Configs
      BY <1>t, <1>n, <3>1 DEF TypeOK, Config!Versions
    <3> QED
      BY <3>2, ConfigsAssumption
  <2>2. toStart' \in Bootstraps(hist[conf + 1])
    BY <1>9 DEF ManagerBootstraps
  <2>3. toStart' \in Seq(Services)
    BY <2>1, <2>2, BootstrapsLists
  <2> QED
    BY <1>t, <1>h, <1>9, <2>3
       DEF ManagerBootstraps, configVars, TypeOK, VersionsExist, StateIsTaken
<1>10. CASE ManagerStart
  <2>1. UNCHANGED <<hist, seen, feeder, confCh, manager, conf, gen, stFree, ctxDone>>
    BY <1>10 DEF ManagerStart, configVars
  <2>2. TypeOK'
    BY <1>t, <1>h, <1>10, <2>1, StartEffect DEF TypeOK
  <2> QED
    BY <1>t, <1>h, <2>1, <2>2 DEF VersionsExist, StateIsTaken
<1>11. CASE ManagerStartError \/ ManagerRelease
  BY <1>t, <1>h, <1>11
     DEF ManagerStartError, ManagerRelease, configVars, TypeOK, VersionsExist, StateIsTaken
<1>12. ASSUME NEW i \in 1 .. Len(inst), ServiceStep(i)
       PROVE  TypeOK' /\ VersionsExist' /\ StateIsTaken'
  <2>1. inst' \in Seq(Instance) /\ Len(inst') = Len(inst)
    BY <1>t, <1>12, ServiceEffect, GoesOnEffect
  <2> QED
    BY <1>t, <1>h, <1>12, <2>1, ServiceEffect DEF TypeOK, VersionsExist, StateIsTaken
<1>13. CASE UNCHANGED vars
  BY <1>t, <1>h, <1>13 DEF vars, TypeOK, VersionsExist, StateIsTaken
<1> QED
  BY <1>1, <1>2, <1>3, <1>4, <1>5, <1>6, <1>7, <1>8, <1>9, <1>10, <1>11, <1>12, <1>13
     DEF Next, ManagerStep

\* The instances and the controllers stay who they are.
SameInstances ==
    /\ controllers' = controllers /\ Controlled' = Controlled /\ Len(inst') = Len(inst)
    /\ \A j \in 1 .. Len(inst) :
          /\ inst'[j].svc = inst[j].svc /\ inst'[j].gen = inst[j].gen
          /\ inst'[j].conf = inst[j].conf
          /\ inst[j].pc \in {"closed", "gone"} => inst'[j].pc \in {"closed", "gone"}

\* Only a deletion and a start make a difference.
LEMMA Identity ==
  ASSUME IInv, [Next]_vars
  PROVE  SameInstances \/ ManagerWait \/ ManagerStart
<1>t. TypeOK /\ VersionsExist
  BY DEF IInv
<1>a. ASSUME controllers' = controllers PROVE Controlled' = Controlled
  BY <1>a DEF Controlled
<1>1. CASE inst' = inst /\ controllers' = controllers
  BY <1>1, <1>a DEF SameInstances
<1>2. ASSUME NEW i \in 1 .. Len(inst), NEW r \in Instance, GoesOn(i, r),
             controllers' = controllers
      PROVE  SameInstances
  BY <1>t, <1>2, <1>a, GoesOnEffect DEF SameInstances
<1>3. ASSUME NEW i \in 1 .. Len(inst), ServiceStep(i) PROVE SameInstances
  BY <1>t, <1>2, <1>3, ServiceEffect
<1>4. CASE ManagerStop
  BY <1>t, <1>2, <1>4, StopEffect DEF managerVars
<1>5. CASE FeederStep
  BY <1>t, <1>1, <1>5, FeederEffect DEF managerVars
<1>6. CASE \/ UpdateConfig \/ Shutdown \/ ManagerDone \/ ManagerReceive \/ ManagerAcquire
           \/ ManagerStopped \/ ManagerBootstraps \/ ManagerStartError \/ ManagerRelease
           \/ UNCHANGED vars
  BY <1>1, <1>6
     DEF UpdateConfig, Shutdown, ManagerDone, ManagerReceive, ManagerAcquire, ManagerStopped,
         ManagerBootstraps, ManagerStartError, ManagerRelease, managerVars, vars
<1> QED
  BY <1>3, <1>4, <1>5, <1>6 DEF Next, ManagerStep

\* Instances and controllers belong to each other.
LEMMA MatchStep == IInv /\ [Next]_vars => ControllersMatch' /\ LiveIsControlled'
<1> SUFFICES ASSUME IInv, [Next]_vars PROVE ControllersMatch' /\ LiveIsControlled'
  OBVIOUS
<1>t. TypeOK /\ VersionsExist /\ ControllersMatch /\ LiveIsControlled
  BY DEF IInv
<1>i. /\ Len(inst) \in Nat /\ \A i \in 1 .. Len(inst) : inst[i].svc \in Services
      /\ \A s \in Controlled : s \in Services /\ controllers[s] \in 1 .. Len(inst)
  BY <1>t, InstanceType DEF Instance
<1>1. CASE SameInstances
  BY <1>t, <1>i, <1>1 DEF SameInstances, ControllersMatch, LiveIsControlled
<1>2. CASE ManagerWait
  <2>1. inst' = inst
    BY <1>2 DEF ManagerWait
  <2>2. PICK s \in Controlled :
           /\ s \in Services /\ inst[controllers[s]].pc \in {"closed", "gone"}
           /\ controllers'[s] = 0
           /\ \A t \in Services : t # s => controllers'[t] = controllers[t]
           /\ Controlled' = Controlled \ {s}
    BY <1>t, <1>2, WaitEffect
  <2>3. ControllersMatch'
    BY <1>t, <1>i, <2>1, <2>2 DEF ControllersMatch
  <2>4. LiveIsControlled'
    BY <1>t, <1>i, <2>1, <2>2 DEF LiveIsControlled
  <2> QED
    BY <2>3, <2>4
<1>3. CASE ManagerStart
  <2>1. /\ Len(inst') = Len(inst) + 1
        /\ \A i \in 1 .. Len(inst) : inst'[i] = inst[i]
    BY <1>t, <1>3, StartEffect
  <2>2. PICK s \in Services :
           /\ s \notin Controlled
           /\ inst'[Len(inst) + 1] = NewInstance(s)
           /\ controllers'[s] = Len(inst) + 1
           /\ \A t \in Services : t # s => controllers'[t] = controllers[t]
           /\ Controlled' = Controlled \cup {s}
    BY <1>t, <1>3, StartEffect
  <2>3. NewInstance(s).svc = s /\ NewInstance(s).pc = "starting"
    BY DEF NewInstance
  <2>4. ControllersMatch'
    BY <1>t, <1>i, <2>1, <2>2, <2>3 DEF ControllersMatch
  <2>5. ASSUME NEW i \in 1 .. Len(inst'), inst'[i].pc \notin {"closed", "gone"}
        PROVE  controllers'[inst'[i].svc] = i
    <3>1. CASE i = Len(inst) + 1
      BY <2>2, <2>3, <3>1
    <3>2. CASE i \in 1 .. Len(inst)
      <4>1. controllers[inst[i].svc] = i /\ inst'[i] = inst[i]
        BY <1>t, <2>1, <2>5, <3>2 DEF LiveIsControlled
      <4>2. inst[i].svc \in Controlled
        BY <1>i, <3>2, <4>1 DEF Controlled
      <4> QED
        BY <1>i, <2>2, <3>2, <4>1, <4>2
    <3> QED
      BY <1>i, <2>1, <3>1, <3>2
  <2> QED
    BY <2>4, <2>5 DEF LiveIsControlled
<1> QED
  BY <1>1, <1>2, <1>3, Identity

\* How the manager goes on, seen from what it has started.
LEMMA ManagerMoves ==
  ASSUME IInv, [Next]_vars
  PROVE  /\ gen \in Nat /\ gen' \in Nat /\ gen' >= gen
         /\ ManagerBootstraps \/ LastStarted' = LastStarted
         /\ manager' = "start" =>
               \/ ManagerBootstraps
               \/ manager = "start" /\ conf' = conf /\ (toStart' = toStart \/ ManagerStart)
         /\ stFree' => stFree \/ ManagerRelease
<1>t. TypeOK /\ VersionsExist
  BY DEF IInv
<1>g. gen \in Nat
  BY <1>t DEF TypeOK
<1>1. CASE UNCHANGED managerVars
  <2>1. UNCHANGED <<manager, conf, gen, stFree, toStart>>
    BY <1>1 DEF managerVars
  <2> QED
    BY <1>g, <2>1 DEF LastStarted
<1>2. CASE FeederStep
  BY <1>t, <1>1, <1>2, FeederEffect
<1>3. CASE \E i \in 1 .. Len(inst) : ServiceStep(i)
  BY <1>t, <1>1, <1>3, ServiceEffect DEF managerVars
<1>4. CASE UpdateConfig \/ Shutdown \/ ManagerStop \/ UNCHANGED vars
  BY <1>1, <1>4 DEF UpdateConfig, Shutdown, ManagerStop, vars, managerVars
<1>5. CASE ManagerDone
  BY <1>g, <1>5 DEF ManagerDone, LastStarted
<1>6. CASE ManagerReceive
  <2>1. manager = "select" /\ manager' = "acquire" /\ gen' = gen + 1 /\ stFree' = stFree
    BY <1>6 DEF ManagerReceive
  <2> QED
    BY <1>g, <2>1 DEF LastStarted
<1>7. CASE ManagerAcquire
  <2>1. manager = "acquire" /\ manager' = "stop" /\ gen' = gen /\ ~stFree'
    BY <1>7 DEF ManagerAcquire
  <2> QED
    BY <1>g, <2>1 DEF LastStarted
<1>8. CASE ManagerStopped
  BY <1>g, <1>8 DEF ManagerStopped, LastStarted
<1>9. CASE ManagerWait
  BY <1>g, <1>9 DEF ManagerWait, LastStarted
<1>10. CASE ManagerBootstraps
  BY <1>g, <1>10 DEF ManagerBootstraps
<1>11. CASE ManagerStart
  BY <1>g, <1>11 DEF ManagerStart, LastStarted
<1>12. CASE ManagerStartError
  BY <1>g, <1>12 DEF ManagerStartError, LastStarted
<1>13. CASE ManagerRelease
  BY <1>g, <1>13 DEF ManagerRelease, LastStarted
<1> QED
  BY <1>2, <1>3, <1>4, <1>5, <1>6, <1>7, <1>8, <1>9, <1>10, <1>11, <1>12, <1>13
     DEF Next, ManagerStep

\* All controllers are of the generation started last.
LEMMA LastStep == IInv /\ [Next]_vars => ControlledAreLast'
<1> SUFFICES ASSUME IInv, [Next]_vars, NEW s \in Controlled'
             PROVE  inst'[controllers'[s]].gen = LastStarted'
  BY DEF ControlledAreLast
<1>t. TypeOK /\ VersionsExist /\ ControlledAreLast
  BY DEF IInv
<1>i. \A c \in Controlled : c \in Services /\ controllers[c] \in 1 .. Len(inst)
  BY <1>t, InstanceType
<1>1. CASE ManagerBootstraps
  <2>1. Controlled = {} /\ controllers' = controllers
    BY <1>1 DEF ManagerBootstraps
  <2> QED
    BY <2>1 DEF Controlled
<1>2. CASE SameInstances /\ LastStarted' = LastStarted
  BY <1>t, <1>i, <1>2 DEF SameInstances, ControlledAreLast
<1>3. CASE ManagerWait /\ LastStarted' = LastStarted
  <2>1. inst' = inst
    BY <1>3 DEF ManagerWait
  <2>2. PICK c \in Controlled :
           /\ \A t \in Services : t # c => controllers'[t] = controllers[t]
           /\ Controlled' = Controlled \ {c}
    BY <1>t, <1>3, WaitEffect
  <2> QED
    BY <1>t, <1>i, <1>3, <2>1, <2>2 DEF ControlledAreLast
<1>4. CASE ManagerStart /\ LastStarted' = LastStarted
  <2>1. /\ manager = "start" /\ \A i \in 1 .. Len(inst) : inst'[i] = inst[i]
    BY <1>t, <1>4, StartEffect
  <2>2. PICK c \in Services :
           /\ inst'[Len(inst) + 1] = NewInstance(c)
           /\ controllers'[c] = Len(inst) + 1
           /\ \A t \in Services : t # c => controllers'[t] = controllers[t]
           /\ Controlled' = Controlled \cup {c}
    BY <1>t, <1>4, StartEffect
  <2>3. NewInstance(c).gen = LastStarted
    BY <2>1 DEF NewInstance, LastStarted
  <2>4. CASE s = c
    BY <1>4, <2>2, <2>3, <2>4
  <2>5. CASE s # c
    BY <1>t, <1>i, <1>4, <2>1, <2>2, <2>5 DEF ControlledAreLast
  <2> QED
    BY <2>4, <2>5
<1> QED
  BY <1>1, <1>2, <1>3, <1>4, Identity, ManagerMoves

\* The loop over Bootstraps starts what the configuration asks for.
LEMMA StartStep == IInv /\ [Next]_vars => StartIsRight'
<1> SUFFICES ASSUME IInv, [Next]_vars, manager' = "start" PROVE StartIsRight'
  BY DEF StartIsRight
<1>t. TypeOK /\ VersionsExist /\ StartIsRight
  BY DEF IInv
<1>i. /\ Len(inst) \in Nat
      /\ \A c \in Controlled : c \in Services /\ controllers[c] \in 1 .. Len(inst)
  BY <1>t, InstanceType
<1>1. CASE ManagerBootstraps
  <2>1. /\ hist' = hist /\ conf' = conf /\ controllers' = controllers /\ Controlled = {}
        /\ toStart' \in Bootstraps(hist[conf + 1]) /\ manager = "wait"
    BY <1>1 DEF ManagerBootstraps, configVars
  <2>2. Controlled' = {}
    BY <2>1 DEF Controlled
  <2>3. hist[conf + 1] \in SUBSET Services
    <3>1. conf \in Config!Versions /\ hist \in Seq(Configs) /\ Len(hist) \in Nat
      BY <1>t, <2>1 DEF VersionsExist, TypeOK
    <3>2. hist[conf + 1] \in Configs
      BY <3>1 DEF Config!Versions
    <3> QED
      BY <3>2, ConfigsAssumption
  <2>4. /\ {toStart'[k] : k \in 1 .. Len(toStart')} = hist[conf + 1]
        /\ \A k, m \in 1 .. Len(toStart') : toStart'[k] = toStart'[m] => k = m
    BY <2>1, <2>3, BootstrapsLists
  <2> QED
    BY <2>1, <2>2, <2>4 DEF StartIsRight
<1>2. CASE manager = "start" /\ conf' = conf /\ toStart' = toStart /\ SameInstances
  <2>1. hist'[conf + 1] = hist[conf + 1]
    BY <1>t, <1>2, HistoryGrows DEF VersionsExist
  <2> QED
    BY <1>t, <1>i, <1>2, <2>1 DEF SameInstances, StartIsRight
<1>3. CASE ManagerStart
  <2>1. /\ toStart \in Seq(Services) /\ toStart # <<>> /\ toStart' = Tail(toStart)
        /\ manager = "start" /\ conf' = conf /\ hist' = hist
        /\ \A i \in 1 .. Len(inst) : inst'[i] = inst[i]
    BY <1>t, <1>3, StartEffect DEF TypeOK, configVars
  <2>2. PICK s \in Services :
           /\ s = Head(toStart) /\ s \notin Controlled
           /\ inst'[Len(inst) + 1] = NewInstance(s)
           /\ controllers'[s] = Len(inst) + 1
           /\ \A t \in Services : t # s => controllers'[t] = controllers[t]
           /\ Controlled' = Controlled \cup {s}
    BY <1>t, <1>3, StartEffect
  <2>3. /\ Len(toStart) \in Nat \ {0} /\ s = toStart[1]
        /\ Len(toStart') = Len(toStart) - 1
        /\ \A k \in 1 .. Len(toStart') : toStart'[k] = toStart[k + 1]
    BY <2>1, <2>2, HeadTailProperties, EmptySeq
  <2>4. \A k, m \in 1 .. Len(toStart) : toStart[k] = toStart[m] => k = m
    BY <1>t, <2>1 DEF StartIsRight
  <2>5. {toStart[k] : k \in 1 .. Len(toStart)}
          = {s} \cup {toStart'[k] : k \in 1 .. Len(toStart')}
    <3>1. \A k \in 1 .. Len(toStart) :
             k = 1 \/ (k - 1 \in 1 .. Len(toStart') /\ toStart'[k - 1] = toStart[k])
      BY <2>3
    <3>2. \A k \in 1 .. Len(toStart') : k + 1 \in 1 .. Len(toStart)
      BY <2>3
    <3>3. 1 \in 1 .. Len(toStart)
      BY <2>3
    <3> QED
      BY <2>3, <3>1, <3>2, <3>3
  <2>6. Controlled' \cup {toStart'[k] : k \in 1 .. Len(toStart')} = hist'[conf' + 1]
    BY <1>t, <2>1, <2>2, <2>5 DEF StartIsRight
  <2>7. \A k \in 1 .. Len(toStart') : toStart'[k] \notin Controlled'
    <3> TAKE k \in 1 .. Len(toStart')
    <3>1. k + 1 \in 1 .. Len(toStart) /\ k + 1 # 1 /\ toStart'[k] = toStart[k + 1]
      BY <2>3
    <3>2. toStart[k + 1] # s /\ toStart[k + 1] \notin Controlled
      BY <1>t, <2>1, <2>3, <2>4, <3>1 DEF StartIsRight
    <3> QED
      BY <2>2, <3>1, <3>2
  <2>8. \A k, m \in 1 .. Len(toStart') : toStart'[k] = toStart'[m] => k = m
    <3> TAKE k, m \in 1 .. Len(toStart')
    <3>1. k + 1 \in 1 .. Len(toStart) /\ m + 1 \in 1 .. Len(toStart) /\ k \in Nat /\ m \in Nat
      BY <2>3
    <3>2. toStart'[k] = toStart'[m] => k + 1 = m + 1
      BY <2>3, <2>4, <3>1
    <3> QED
      BY <3>1, <3>2
  <2>9. \A c \in Controlled' : inst'[controllers'[c]].conf = conf'
    <3> TAKE c \in Controlled'
    <3>1. CASE c = s
      BY <2>1, <2>2, <3>1 DEF NewInstance
    <3>2. CASE c # s
      BY <1>t, <1>i, <2>1, <2>2, <3>2 DEF StartIsRight
    <3> QED
      BY <3>1, <3>2
  <2> QED
    BY <2>6, <2>7, <2>8, <2>9 DEF StartIsRight
<1>4. ManagerWait => manager' # "start"
  BY DEF ManagerWait
<1> QED
  BY <1>1, <1>2, <1>3, <1>4, Identity, ManagerMoves

\* Whoever can take the state finds one configuration, started together.
LEMMA SnapshotStep == IInv /\ [Next]_vars => SnapshotIsOneConfig'
<1> SUFFICES ASSUME IInv, [Next]_vars, stFree' PROVE SnapshotIsOneConfig'
  BY DEF SnapshotIsOneConfig
<1>t. /\ TypeOK /\ VersionsExist /\ SnapshotIsOneConfig /\ StateIsTaken
      /\ ControlledAreLast /\ StartIsRight
  BY DEF IInv
<1>i. /\ Len(inst) \in Nat /\ inst \in Seq(Instance)
      /\ \A c \in Controlled : c \in Services /\ controllers[c] \in 1 .. Len(inst)
  BY <1>t, InstanceType DEF TypeOK
<1>g. gen \in Nat /\ gen' \in Nat /\ gen' >= gen /\ (stFree \/ ManagerRelease)
  BY ManagerMoves
<1>h. /\ Config!Versions \subseteq Config!Versions'
      /\ \A v \in Config!Versions : hist'[v + 1] = hist[v + 1]
  BY <1>t, HistoryGrows
<1>s. inst' \in Seq(Instance)
  BY TypesStep DEF TypeOK
<1>1. CASE stFree
  <2>1. ~ManagerWait /\ ~ManagerStart
    BY <1>t, <1>1 DEF ManagerWait, ManagerStart, StateIsTaken
  <2>2. SameInstances
    BY <2>1, Identity
  <2>3. CASE Controlled = {} /\ inst = <<>>
    <3>1. Controlled' = {} /\ Len(inst') = 0
      BY <2>2, <2>3 DEF SameInstances
    <3>2. inst' = <<>>
      BY <1>s, <3>1, EmptySeq
    <3> QED
      BY <3>1, <3>2 DEF SnapshotIsOneConfig
  <2>4. CASE \E v \in Config!Versions, g \in 1 .. gen :
                /\ Controlled = hist[v + 1]
                /\ \A s \in Controlled :
                      inst[controllers[s]].conf = v /\ inst[controllers[s]].gen = g
    <3>1. PICK v \in Config!Versions, g \in 1 .. gen :
                /\ Controlled = hist[v + 1]
                /\ \A s \in Controlled :
                      inst[controllers[s]].conf = v /\ inst[controllers[s]].gen = g
      BY <2>4
    <3>2. v \in Config!Versions' /\ g \in 1 .. gen' /\ Controlled' = hist'[v + 1]
      BY <1>g, <1>h, <2>2, <3>1 DEF SameInstances
    <3>3. \A s \in Controlled' :
             inst'[controllers'[s]].conf = v /\ inst'[controllers'[s]].gen = g
      BY <1>i, <2>2, <3>1 DEF SameInstances
    <3> QED
      BY <3>2, <3>3 DEF SnapshotIsOneConfig
  <2> QED
    BY <1>t, <1>1, <2>3, <2>4 DEF SnapshotIsOneConfig
<1>2. CASE ManagerRelease
  <2>1. /\ manager = "start" /\ toStart = <<>>
        /\ UNCHANGED <<hist, conf, gen, controllers, inst>>
    BY <1>2 DEF ManagerRelease, configVars
  <2>2. Controlled' = Controlled
    BY <2>1 DEF Controlled
  <2>3. conf \in Config!Versions' /\ gen \in 1 .. gen'
    BY <1>t, <1>g, <1>h, <2>1 DEF VersionsExist
  <2>4. Controlled = hist[conf + 1] /\ \A s \in Controlled : inst[controllers[s]].conf = conf
    <3>1. {toStart[k] : k \in 1 .. Len(toStart)} = {}
      BY <2>1
    <3> QED
      BY <1>t, <2>1, <3>1 DEF StartIsRight
  <2>5. \A s \in Controlled : inst[controllers[s]].gen = gen
    BY <1>t, <2>1 DEF ControlledAreLast, LastStarted
  <2> QED
    BY <2>1, <2>2, <2>3, <2>4, <2>5 DEF SnapshotIsOneConfig
<1> QED
  BY <1>g, <1>1, <1>2

\* Get runs with the state, so it finds the services of one configuration, with
\* everything they depend on.
LEMMA GetFindsAll ==
  ASSUME IInv, NEW i \in 1 .. Len(inst), ServiceGet(i)
  PROVE  {inst[controllers[s]].gen : s \in Lookups[inst[i].svc] \cap Controlled}
           = {inst[i].gen : s \in Lookups[inst[i].svc]}
<1> DEFINE svc == inst[i].svc
<1>t. TypeOK /\ SnapshotIsOneConfig /\ LiveIsControlled
  BY DEF IInv
<1>1. inst[i] \in Instance /\ svc \in Services /\ Len(inst) \in Nat
  BY <1>t, InstanceType DEF Instance
<1>2. controllers[svc] = i
  BY <1>t DEF ServiceGet, LiveIsControlled
<1>3. svc \in Controlled
  BY <1>1, <1>2 DEF Controlled
<1>4. CASE Lookups[svc] = {}
  BY <1>4
<1>5. CASE stFree
  <2>1. inst # <<>>
    BY <1>1
  <2>2. PICK v \in Config!Versions, g \in 1 .. gen :
            /\ Controlled = hist[v + 1]
            /\ \A s \in Controlled :
                  inst[controllers[s]].conf = v /\ inst[controllers[s]].gen = g
    BY <1>t, <1>5, <2>1 DEF SnapshotIsOneConfig
  <2>3. Controlled \in Configs
    <3>1. hist \in Seq(Configs) /\ Len(hist) \in Nat
      BY <1>t DEF TypeOK
    <3>2. hist[v + 1] \in Configs
      BY <3>1 DEF Config!Versions
    <3> QED
      BY <2>2, <3>2
  <2>4. Lookups[svc] \subseteq Controlled
    BY <1>1, <1>3, <2>3, LookupsAssumption, ConfigsAssumption
  <2>5. \A s \in Lookups[svc] : inst[controllers[s]].gen = inst[i].gen
    BY <1>2, <1>3, <2>2, <2>4
  <2> QED
    BY <2>4, <2>5
<1> QED
  BY <1>4, <1>5 DEF ServiceGet

\* The lookups of every instance are those of its own generation.
LEMMA LookupStep == IInv /\ [Next]_vars => LookupsAreCurrent'
<1> SUFFICES ASSUME IInv, [Next]_vars, NEW i \in 1 .. Len(inst'), inst'[i].pc # "starting"
             PROVE  inst'[i].found = {inst'[i].gen : s \in Lookups[inst'[i].svc]}
  BY DEF LookupsAreCurrent
<1>t. TypeOK /\ VersionsExist /\ LookupsAreCurrent
  BY DEF IInv
<1>n. Len(inst) \in Nat
  BY <1>t, InstanceType
<1>1. CASE inst' = inst
  BY <1>t, <1>1 DEF LookupsAreCurrent
<1>2. ASSUME NEW j \in 1 .. Len(inst), NEW r \in Instance, GoesOn(j, r),
             r.found = inst[j].found, r.pc = "starting" <=> inst[j].pc = "starting"
      PROVE  inst'[i].found = {inst'[i].gen : s \in Lookups[inst'[i].svc]}
  <2>1. /\ i \in 1 .. Len(inst) /\ inst'[i].found = inst[i].found
        /\ inst[i].pc # "starting"
        /\ inst'[i].gen = inst[i].gen /\ inst'[i].svc = inst[i].svc
    BY <1>t, <1>2, GoesOnEffect
  <2> QED
    BY <1>t, <2>1 DEF LookupsAreCurrent
<1>3. ASSUME NEW j \in 1 .. Len(inst), ServiceStep(j)
      PROVE  inst'[i].found = {inst'[i].gen : s \in Lookups[inst'[i].svc]}
  <2>1. PICK r \in Instance :
           /\ GoesOn(j, r)
           /\ \/ r.found = inst[j].found /\ (r.pc = "starting" <=> inst[j].pc = "starting")
              \/ ServiceGet(j)
    BY <1>t, <1>3, ServiceEffect
  <2>2. CASE ServiceGet(j)
    <3>1. i \in 1 .. Len(inst) /\ inst'[i].gen = inst[i].gen /\ inst'[i].svc = inst[i].svc
      BY <1>t, <2>1, GoesOnEffect
    <3>2. CASE i # j
      <4>1. inst'[i] = inst[i]
        BY <1>t, <2>1, <3>1, <3>2, GoesOnEffect
      <4>2. inst[i].pc # "starting" /\ inst'[i].found = inst[i].found
        BY <4>1
      <4>3. inst[i].found = {inst[i].gen : s \in Lookups[inst[i].svc]}
        BY <1>t, <3>1, <4>2 DEF LookupsAreCurrent
      <4> QED
        BY <3>1, <4>2, <4>3
    <3>3. CASE i = j
      <4>1. inst'[j].found = {inst[controllers[s]].gen : s \in Lookups[inst[j].svc] \cap Controlled}
        <5> DEFINE found == {inst[controllers[s]].gen : s \in Lookups[inst[j].svc] \cap Controlled}
                   missing == Lookups[inst[j].svc] \ Controlled # {}
        <5>1. inst' = [inst EXCEPT ![j].pc = IF missing THEN "returned" ELSE "running",
                                   ![j].err = missing, ![j].found = found]
          BY <2>2 DEF ServiceGet
        <5>2. inst \in Seq(Instance) /\ inst[j] \in Instance
          BY <1>t, InstanceType DEF TypeOK
        <5> HIDE DEF found, missing
        <5> DEFINE q == [inst[j] EXCEPT !.pc = IF missing THEN "returned" ELSE "running",
                                        !.err = missing, !.found = found]
        <5>3. inst' = [inst EXCEPT ![j] = q]
          BY <5>1, <5>2
        <5>4. q.found = found
          BY <5>2 DEF Instance
        <5> HIDE DEF q
        <5>5. inst'[j] = q
          BY <5>2, <5>3
        <5>6. inst'[j].found = found
          BY <5>4, <5>5
        <5> QED
          BY <5>6 DEF found
      <4> QED
        BY <2>2, <3>1, <3>3, <4>1, GetFindsAll
    <3> QED
      BY <3>2, <3>3
  <2>3. CASE r.found = inst[j].found /\ (r.pc = "starting" <=> inst[j].pc = "starting")
    BY <1>2, <2>1, <2>3
  <2> QED
    BY <2>1, <2>2, <2>3
<1>4. CASE ManagerStop
  BY <1>t, <1>2, <1>4, StopEffect
<1>5. CASE ManagerStart
  <2>1. /\ Len(inst') = Len(inst) + 1 /\ \A k \in 1 .. Len(inst) : inst'[k] = inst[k]
        /\ \E s \in Services : inst'[Len(inst) + 1] = NewInstance(s)
    BY <1>t, <1>5, StartEffect
  <2>2. inst'[Len(inst) + 1].pc = "starting"
    BY <2>1 DEF NewInstance
  <2>3. i \in 1 .. Len(inst)
    <3>1. i # Len(inst) + 1
      BY <2>2
    <3> QED
      BY <1>n, <2>1, <3>1
  <2>4. inst'[i] = inst[i]
    BY <2>1, <2>3
  <2>5. inst[i].pc # "starting"
    BY <2>4
  <2>6. inst[i].found = {inst[i].gen : s \in Lookups[inst[i].svc]}
    BY <1>t, <2>3, <2>5 DEF LookupsAreCurrent
  <2> QED
    BY <2>4, <2>6
<1>6. CASE FeederStep
  BY <1>t, <1>1, <1>6, FeederEffect
<1>7. CASE \/ UpdateConfig \/ Shutdown \/ ManagerDone \/ ManagerReceive \/ ManagerAcquire
           \/ ManagerStopped \/ ManagerWait \/ ManagerBootstraps \/ ManagerStartError
           \/ ManagerRelease \/ UNCHANGED vars
  BY <1>1, <1>7
     DEF UpdateConfig, Shutdown, ManagerDone, ManagerReceive, ManagerAcquire, ManagerStopped,
         ManagerWait, ManagerBootstraps, ManagerStartError, ManagerRelease, vars
<1> QED
  BY <1>3, <1>4, <1>5, <1>6, <1>7 DEF Next, ManagerStep

--------------------------------------------------------------------------------
(* The theorems                                                              *)

\* At first nothing has been started, and the manager waits.
LEMMA IInvInit == Init => IInv
<1> SUFFICES ASSUME Init PROVE IInv
  OBVIOUS
<1>1. /\ hist = <<FirstConfig>> /\ seen = [l \in {Feeder} |-> [seq |-> 0, val |-> FirstConfig]]
      /\ FirstConfig \in Configs
  BY ConfigsAssumption DEF Init, Config!Init
<1>2. /\ hist \in Seq(Configs) /\ Len(hist) = 1 /\ Config!Versions = {0}
      /\ seen \in [{Feeder} -> [seq : Nat, val : Configs]] /\ seen[Feeder].seq = 0
  BY <1>1 DEF Config!Versions
<1>3. Controlled = {} /\ Len(inst) = 0 /\ inst \in Seq(Instance) /\ toStart \in Seq(Services)
  BY EmptySeq DEF Init, Controlled
<1>4. controllers \in [Services -> 0 .. Len(inst)] /\ gen \in 0 .. MaxGen
  BY <1>3, BoundsAssumption DEF Init
<1>5. TypeOK
  BY <1>2, <1>3, <1>4 DEF Init, TypeOK
<1>6. VersionsExist /\ StateIsTaken /\ StartIsRight
  BY <1>2 DEF Init, VersionsExist, StateIsTaken, StartIsRight
<1>7. ControllersMatch /\ LiveIsControlled /\ ControlledAreLast /\ LookupsAreCurrent
  BY <1>3 DEF ControllersMatch, LiveIsControlled, ControlledAreLast, LookupsAreCurrent
<1>8. SnapshotIsOneConfig
  BY <1>3 DEF Init, SnapshotIsOneConfig
<1> QED
  BY <1>5, <1>6, <1>7, <1>8 DEF IInv

\* The invariant holds in every state of the service manager.
THEOREM ManagerInvariance == Spec => []IInv
<1>1. IInv /\ [Next]_vars => IInv'
  BY TypesStep, MatchStep, LastStep, StartStep, SnapshotStep, LookupStep DEF IInv
<1> QED
  BY IInvInit, <1>1, PTL DEF Spec

\* A restart is complete: what is in Run is of one generation, one instance of
\* a service, and can be stopped through its controller.
THEOREM RestartIsComplete == Spec => []OneGeneration
<1>1. IInv => OneGeneration
  <2> SUFFICES ASSUME IInv, NEW i \in 1 .. Len(inst), NEW j \in 1 .. Len(inst),
                      InRun(i), InRun(j)
               PROVE  /\ inst[i].gen = inst[j].gen
                      /\ inst[i].svc = inst[j].svc => i = j
                      /\ controllers[inst[i].svc] = i
    BY DEF OneGeneration
  <2>1. controllers[inst[i].svc] = i /\ controllers[inst[j].svc] = j
    BY DEF IInv, LiveIsControlled, InRun
  <2>2. inst[i].svc \in Controlled /\ inst[j].svc \in Controlled
    <3>1. inst[i].svc \in Services /\ inst[j].svc \in Services
      BY InstanceType DEF IInv, Instance
    <3>2. i # 0 /\ j # 0
      OBVIOUS
    <3> QED
      BY <2>1, <3>1, <3>2 DEF Controlled
  <2>3. inst[i].gen = LastStarted /\ inst[j].gen = LastStarted
    BY <2>1, <2>2 DEF IInv, ControlledAreLast
  <2> QED
    BY <2>1, <2>3
<1> QED
  BY ManagerInvariance, <1>1, PTL

\* Whoever takes the state from s.st finds the services of one published
\* configuration, all of them, started together.
THEOREM NobodySeesHalfARestart == Spec => []SnapshotIsOneConfig
<1>1. IInv => SnapshotIsOneConfig
  BY DEF IInv
<1> QED
  BY ManagerInvariance, <1>1, PTL

\* The lookups of a service find everything, of the service's own generation.
THEOREM LookupsFindTheirOwn == Spec => []LookupsAreCurrent
<1>1. IInv => LookupsAreCurrent
  BY DEF IInv
<1> QED
  BY ManagerInvariance, <1>1, PTL

================================================================================
