----------------------------- MODULE NotifierProofs -----------------------------
(***************************************************************************)
(* Proofs about sync.Notifier, for any number of listeners, publishers,    *)
(* values and channels, and any bound on the publications.                 *)
(*                                                                         *)
(* The safety properties follow from one inductive invariant, IInv: who    *)
(* has the state (OneState), that it is the newest (StateIsNewest), that a *)
(* call's channel is its own (ChansAreOwned), that a channel is empty as   *)
(* long as it is in the list of waiters (WaitersAreEmpty), and that a call *)
(* that blocks is in that list (BlockedIsEnlisted).  None of the named     *)
(* properties is inductive by itself: that a channel to be signalled has   *)
(* room, for example, needs that no other call shares it and that the list *)
(* is cut when its channels have been filled.                              *)
(***************************************************************************)
EXTENDS Notifier, TLAPS

--------------------------------------------------------------------------------
(* The inductive invariant                                                   *)

\* r carries a version that was published.
Published(r) == r.seq < Len(hist) /\ r.val = hist[r.seq + 1]

\* r carries the newest version.
Newest(r) == r.seq = Len(hist) - 1 /\ r.val = hist[Len(hist)]

\* The shared state carries the newest version, except in the hands of a
\* publisher, who is about to replace it by the newest one.
StateIsNewest ==
    /\ Len(hist) >= 1
    /\ \A s \in stCh : Newest(s)
    /\ \A l \in Listeners : Holds(l) => Newest(st[l])
    /\ \A p \in Publishers : pc[p] = "notify" =>
          /\ st[p].seq = Len(hist) - 2
          /\ newVal[p] = hist[Len(hist)]

\* A call's channel is its own, and nobody knows it before it is enlisted.
ChansAreOwned ==
    /\ \A l, m \in Listeners : c[l] = c[m] /\ c[l] # NoChan => l = m
    /\ \A l \in Listeners : pc[l] = "awaitHold" =>
          /\ chan[c[l]] = {}
          /\ \A p \in Procs : c[l] \notin st[p].wait

\* The channels in the list of waiters are empty, wherever the list is.
WaitersAreEmpty ==
    /\ \A s \in stCh : \A ch \in s.wait : chan[ch] = {}
    /\ \A l \in Listeners : \A ch \in st[l].wait : chan[ch] = {}
    /\ \A p \in Procs : ~Holds(p) => st[p].wait = {}
    /\ \A p \in Publishers : todo[p] \subseteq st[p].wait
    /\ NotifyNeverBlocks

\* What a call can still return is published, and not older than what its
\* caller has.
AnswersAreNewer ==
    /\ \A ch \in Chans : \A s \in chan[ch] : Published(s)
    /\ \A l \in Listeners : pc[l] = "select" =>
          /\ \A s \in chan[c[l]] : s.seq >= seen[l].seq
          /\ Published(st[l]) /\ st[l].seq >= seen[l].seq

\* Nobody is publishing, listener l knows the newest version, and its channel
\* is in the list of waiters, whoever has the list.
Enlisted(l) ==
    /\ \A p \in Publishers : pc[p] # "notify"
    /\ seen[l].seq = Len(hist) - 1
    /\ \A s \in stCh : c[l] \in s.wait
    /\ \A m \in Listeners : Holds(m) => c[l] \in st[m].wait

\* NoLostWakeup, told apart by who has the list of waiters.
BlockedIsEnlisted ==
    \A l \in Listeners :
        (pc[l] = "select" /\ chan[c[l]] = {}) =>
            WillSignal(c[l]) \/ Enlisted(l)

\* The inductive invariant.
IInv ==
    /\ TypeOK
    /\ OneState
    /\ StateIsNewest
    /\ ChansAreOwned
    /\ WaitersAreEmpty
    /\ SeenWasPublished
    /\ AnswersAreNewer
    /\ BlockedIsEnlisted

--------------------------------------------------------------------------------
(* The proofs                                                                *)

\* NewNotifier, and the callers before their first call, satisfy the types.
LEMMA TypeInit == Init => TypeOK
  BY ProcsAssumption, ValuesAssumption
     DEF Init, NewNotifier, TypeOK, State, Signal, Procs

\* st := <-n.st keeps the types: what is received is a state.
LEMMA ReceiveType ==
  ASSUME TypeOK, NEW p \in Procs, NEW to, Receive(p, to)
  PROVE  /\ stCh' \in SUBSET State
         /\ st' \in [Procs -> State]
  BY DEF Receive, TypeOK

\* n.st <- s keeps the types if s is a state.
LEMMA SendBackType ==
  ASSUME TypeOK, NEW p \in Procs, NEW s \in State, NEW to, SendBack(p, s, to)
  PROVE  /\ stCh' \in SUBSET State
         /\ st' \in [Procs -> State]
<1>1. [st[p] EXCEPT !.wait = {}] \in State
  BY DEF TypeOK, State
<1>2. st' = [st EXCEPT ![p] = [st[p] EXCEPT !.wait = {}]]
  BY DEF SendBack
<1> QED
  BY <1>1, <1>2 DEF SendBack, TypeOK

\* Every step of a listener or a publisher keeps the types.
LEMMA TypeStep == TypeOK /\ [Next]_vars => TypeOK'
<1> SUFFICES ASSUME TypeOK, [Next]_vars PROVE TypeOK'
  OBVIOUS
<1> USE ProcsAssumption, ChansAssumption
<1>1. ASSUME NEW p \in Publishers, NotifyReceive(p) PROVE TypeOK'
  <2>1. stCh' \in SUBSET State /\ st' \in [Procs -> State]
    BY <1>1, ReceiveType DEF NotifyReceive, Procs
  <2> QED
    BY <1>1, <2>1 DEF NotifyReceive, Receive, TypeOK, State, Procs
<1>2. ASSUME NEW p \in Publishers, NotifySignal(p) PROVE TypeOK'
  BY <1>2 DEF NotifySignal, TypeOK, State, Signal, Procs
<1>3. ASSUME NEW p \in Publishers, NotifySendBack(p) PROVE TypeOK'
  <2>1. NextState(p) \in State
    BY DEF NextState, TypeOK, State, Procs
  <2>2. stCh' \in SUBSET State /\ st' \in [Procs -> State]
    BY <1>3, <2>1, SendBackType DEF NotifySendBack, Procs
  <2> QED
    BY <1>3, <2>2 DEF NotifySendBack, SendBack, TypeOK, Procs
<1>4. ASSUME NEW l \in Listeners, LastReceive(l) PROVE TypeOK'
  <2>1. stCh' \in SUBSET State /\ st' \in [Procs -> State]
    BY <1>4, ReceiveType DEF LastReceive, Procs
  <2> QED
    BY <1>4, <2>1 DEF LastReceive, Receive, TypeOK, Procs
<1>5. ASSUME NEW l \in Listeners, LastSendBack(l) PROVE TypeOK'
  <2>1. st[l] \in State /\ Result(st[l]) \in Signal
    BY DEF Result, TypeOK, State, Signal, Procs
  <2>2. stCh' \in SUBSET State /\ st' \in [Procs -> State]
    BY <1>5, <2>1, SendBackType DEF LastSendBack, Procs
  <2> QED
    BY <1>5, <2>1, <2>2 DEF LastSendBack, SendBack, TypeOK, Procs
<1>6. ASSUME NEW l \in Listeners, AwaitReceive(l) PROVE TypeOK'
  <2>1. stCh' \in SUBSET State /\ st' \in [Procs -> State]
    BY <1>6, ReceiveType DEF AwaitReceive, Procs
  <2> QED
    BY <1>6, <2>1 DEF AwaitReceive, Receive, TypeOK, Procs
<1>7. ASSUME NEW l \in Listeners, AwaitSendBack(l) PROVE TypeOK'
  <2>1. st[l] \in State /\ Result(st[l]) \in Signal
    BY DEF Result, TypeOK, State, Signal, Procs
  <2>2. c[l] \in Chans
    BY <1>7 DEF AwaitSendBack, TypeOK
  <2>3. [st[l] EXCEPT !.wait = @ \cup {c[l]}] \in State
    BY <2>1, <2>2 DEF State
  <2>4. stCh' \in SUBSET State /\ st' \in [Procs -> State]
    BY <1>7, <2>1, <2>3, SendBackType DEF AwaitSendBack, Enlist, AnswerNow, Procs
  <2>5. chan' \in [Chans -> SUBSET Signal] /\ pc' = [pc EXCEPT ![l] = "select"]
    BY <1>7, <2>1, <2>2 DEF AwaitSendBack, Enlist, AnswerNow, SendBack, TypeOK
  <2> QED
    BY <1>7, <2>4, <2>5 DEF AwaitSendBack, TypeOK, Procs
<1>8. ASSUME NEW l \in Listeners, AwaitSignal(l) PROVE TypeOK'
  BY <1>8 DEF AwaitSignal, Return, TypeOK, Procs
<1>9. ASSUME NEW l \in Listeners, AwaitDone(l) PROVE TypeOK'
  <2>1. Result(st[l]) \in Signal
    BY DEF Result, TypeOK, State, Signal, Procs
  <2> QED
    BY <1>9, <2>1 DEF AwaitDone, Return, TypeOK, Procs
<1>10. ASSUME NEW l \in Listeners, Cancel(l) PROVE TypeOK'
  BY <1>10 DEF Cancel, TypeOK
<1>11. ASSUME NEW l \in Listeners, ListenerReturn(l) PROVE TypeOK'
  BY <1>11 DEF ListenerReturn, TypeOK, Procs
<1>12. CASE UNCHANGED vars
  BY <1>12 DEF vars, TypeOK
<1> QED
  BY <1>1, <1>2, <1>3, <1>4, <1>5, <1>6, <1>7, <1>8, <1>9, <1>10, <1>11, <1>12
     DEF Next, ListenerStep, PublisherStep

\* Only the goroutine that owns the state can send it back, and only its
\* copy of the state has waiters.
LEMMA HolderIsAlone ==
  ASSUME IInv, NEW p \in Procs, Holds(p)
  PROVE  /\ stCh = {}
         /\ \A q \in Procs : Holds(q) => q = p
         /\ \A q \in Procs : q # p => st[q].wait = {}
  BY DEF IInv, OneState, WaitersAreEmpty

\* Every step preserves the inductive invariant: one step of the proof for
\* each action, and below it one for each conjunct.
LEMMA IInvStep == IInv /\ [Next]_vars => IInv'
<1> SUFFICES ASSUME IInv, [Next]_vars PROVE IInv'
  OBVIOUS
<1> USE ProcsAssumption, ChansAssumption
<1>t. TypeOK /\ TypeOK'
  BY TypeStep DEF IInv
<1>1. ASSUME NEW p \in Publishers, NotifyReceive(p) PROVE IInv'
  <2>1. OneState'
    BY <1>t, <1>1 DEF IInv, NotifyReceive, Receive, OneState, TypeOK, Holds, Holding
  <2>2. StateIsNewest'
    BY <1>t, <1>1
       DEF IInv, NotifyReceive, Receive, StateIsNewest, Newest, OneState, TypeOK,
           Procs, Holds, Holding
  <2>3. ChansAreOwned'
    BY <1>t, <1>1
       DEF IInv, NotifyReceive, Receive, ChansAreOwned, OneState, Procs, Holds,
           Holding
  <2>4. WaitersAreEmpty'
    BY <1>t, <1>1
       DEF IInv, NotifyReceive, Receive, WaitersAreEmpty, NotifyNeverBlocks,
           TypeOK, Holds, Holding
  <2>5. SeenWasPublished'
    BY <1>t, <1>1 DEF IInv, NotifyReceive, SeenWasPublished, TypeOK, Signal
  <2>6. AnswersAreNewer'
    BY <1>t, <1>1
       DEF IInv, NotifyReceive, Receive, AnswersAreNewer, Published, TypeOK, State,
           Signal, Procs
  <2>7. BlockedIsEnlisted'
    <3> SUFFICES ASSUME NEW m \in Listeners, (pc[m] = "select" /\ chan[c[m]] = {})'
                 PROVE  WillSignal(c[m])' \/ Enlisted(m)'
      BY DEF BlockedIsEnlisted
    <3>1. (pc[m] = "select" /\ chan[c[m]] = {}) => WillSignal(c[m]) \/ Enlisted(m)
      BY DEF IInv, BlockedIsEnlisted
    <3> QED
      BY <1>t, <1>1, <3>1
         DEF IInv, NotifyReceive, Receive, WillSignal, Enlisted, OneState,
             WaitersAreEmpty, TypeOK
  <2> QED
    BY <1>t, <2>1, <2>2, <2>3, <2>4, <2>5, <2>6, <2>7 DEF IInv
<1>2. ASSUME NEW p \in Publishers, NotifySignal(p) PROVE IInv'
  <2>1. OneState'
    BY <1>t, <1>2 DEF IInv, NotifySignal, OneState, Holds
  <2>2. StateIsNewest'
    BY <1>t, <1>2
       DEF IInv, NotifySignal, StateIsNewest, OneState, Procs, Holds, Holding
  <2>3. ChansAreOwned'
    BY <1>t, <1>2
       DEF IInv, NotifySignal, ChansAreOwned, OneState, Procs, Holds, Holding
  <2>4. WaitersAreEmpty'
    <3>1. /\ stCh = {}
          /\ \A q \in Procs : q # p => st[q].wait = {}
      BY <1>2, HolderIsAlone DEF NotifySignal, Holds, Holding, Procs
    <3>2. PICK ch \in todo[p] :
             /\ chan' = [chan EXCEPT ![ch] = {[seq |-> st[p].seq + 1, val |-> newVal[p]]}]
             /\ todo' = [todo EXCEPT ![p] = @ \ {ch}]
      BY <1>2 DEF NotifySignal
    <3>3. UNCHANGED <<stCh, st, pc>> /\ p \in Procs /\ p \notin Listeners /\ ch \in Chans
      BY <1>t, <1>2, <3>2 DEF NotifySignal, Procs, TypeOK
    <3>4. \A q \in Publishers : todo'[q] \subseteq st'[q].wait
      BY <1>t, <3>2, <3>3 DEF IInv, WaitersAreEmpty, TypeOK
    <3>5. NotifyNeverBlocks'
      BY <1>t, <3>1, <3>2, <3>3, <3>4
         DEF IInv, WaitersAreEmpty, NotifyNeverBlocks, TypeOK, Procs
    <3>6. \A l \in Listeners : st'[l].wait = {}
      BY <3>1, <3>3 DEF Procs
    <3> QED
      BY <3>1, <3>3, <3>4, <3>5, <3>6 DEF IInv, WaitersAreEmpty, Holds
  <2>5. SeenWasPublished'
    BY <1>t, <1>2 DEF IInv, NotifySignal, SeenWasPublished
  <2>6. AnswersAreNewer'
    BY <1>t, <1>2
       DEF IInv, NotifySignal, AnswersAreNewer, StateIsNewest, Published, TypeOK,
           State, Signal, Procs
  <2>7. BlockedIsEnlisted'
    <3> SUFFICES ASSUME NEW m \in Listeners, (pc[m] = "select" /\ chan[c[m]] = {})'
                 PROVE  WillSignal(c[m])' \/ Enlisted(m)'
      BY DEF BlockedIsEnlisted
    <3>1. (pc[m] = "select" /\ chan[c[m]] = {}) => WillSignal(c[m]) \/ Enlisted(m)
      BY DEF IInv, BlockedIsEnlisted
    <3>2. PICK ch \in todo[p] :
             /\ chan' = [chan EXCEPT ![ch] = {[seq |-> st[p].seq + 1, val |-> newVal[p]]}]
             /\ todo' = [todo EXCEPT ![p] = @ \ {ch}]
      BY <1>2 DEF NotifySignal
    <3>3. UNCHANGED <<stCh, st, pc, c>> /\ pc[p] = "notify" /\ ch \in Chans
      BY <1>t, <1>2, <3>2 DEF NotifySignal, TypeOK
    <3>4. c[m] # ch
      BY <1>t, <3>2, <3>3 DEF TypeOK
    <3>5. c[m] \in Chans
      BY <1>t, <3>3 DEF TypeOK
    <3>6. WillSignal(c[m])
      BY <1>t, <3>1, <3>2, <3>3, <3>4, <3>5 DEF Enlisted, TypeOK
    <3> QED
      BY <1>t, <3>2, <3>3, <3>4, <3>6 DEF WillSignal, TypeOK
  <2> QED
    BY <1>t, <2>1, <2>2, <2>3, <2>4, <2>5, <2>6, <2>7 DEF IInv
<1>3. ASSUME NEW p \in Publishers, NotifySendBack(p) PROVE IInv'
  <2>1. OneState'
    BY <1>t, <1>3
       DEF IInv, NotifySendBack, SendBack, NextState, OneState, TypeOK, State,
           Signal, Procs, Holds, Holding
  <2>2. StateIsNewest'
    BY <1>t, <1>3
       DEF IInv, NotifySendBack, SendBack, NextState, StateIsNewest, Newest, Holds
  <2>3. ChansAreOwned'
    BY <1>t, <1>3 DEF IInv, NotifySendBack, SendBack, ChansAreOwned
  <2>4. WaitersAreEmpty'
    BY <1>t, <1>3
       DEF IInv, NotifySendBack, SendBack, NextState, WaitersAreEmpty,
           NotifyNeverBlocks, TypeOK, Holds
  <2>5. SeenWasPublished'
    BY <1>t, <1>3 DEF IInv, NotifySendBack, SeenWasPublished
  <2>6. AnswersAreNewer'
    BY <1>t, <1>3 DEF IInv, NotifySendBack, SendBack, AnswersAreNewer, Published
  <2>7. BlockedIsEnlisted'
    <3>1. pc[p] = "notify" /\ pc' = [pc EXCEPT ![p] = "idle"] /\ UNCHANGED <<chan, c, todo>>
      BY <1>3 DEF NotifySendBack, SendBack
    <3>2. \A l \in Listeners : ~Enlisted(l)
      BY <3>1 DEF Enlisted
    <3>3. \A l \in Listeners : pc'[l] = "select" => pc[l] = "select"
      BY <1>t, <3>1 DEF TypeOK
    <3>4. \A l \in Listeners : WillSignal(c[l]) => WillSignal(c[l])'
      BY <3>1 DEF WillSignal
    <3> QED
      BY <1>t, <3>1, <3>2, <3>3, <3>4 DEF IInv, BlockedIsEnlisted
  <2> QED
    BY <1>t, <2>1, <2>2, <2>3, <2>4, <2>5, <2>6, <2>7 DEF IInv
<1>4. ASSUME NEW l \in Listeners, LastReceive(l) PROVE IInv'
  <2>1. OneState'
    BY <1>t, <1>4 DEF IInv, LastReceive, Receive, OneState, TypeOK, Holds, Holding
  <2>2. StateIsNewest'
    BY <1>t, <1>4
       DEF IInv, LastReceive, Receive, StateIsNewest, Newest, TypeOK, Holds
  <2>3. ChansAreOwned'
    BY <1>t, <1>4
       DEF IInv, LastReceive, Receive, ChansAreOwned, OneState, Procs, Holds,
           Holding
  <2>4. WaitersAreEmpty'
    BY <1>t, <1>4
       DEF IInv, LastReceive, Receive, WaitersAreEmpty, NotifyNeverBlocks, TypeOK,
           Holds, Holding
  <2>5. SeenWasPublished'
    BY <1>t, <1>4 DEF IInv, LastReceive, SeenWasPublished
  <2>6. AnswersAreNewer'
    BY <1>t, <1>4 DEF IInv, LastReceive, Receive, AnswersAreNewer, Published
  <2>7. BlockedIsEnlisted'
    <3> SUFFICES ASSUME NEW m \in Listeners, (pc[m] = "select" /\ chan[c[m]] = {})'
                 PROVE  WillSignal(c[m])' \/ Enlisted(m)'
      BY DEF BlockedIsEnlisted
    <3>1. (pc[m] = "select" /\ chan[c[m]] = {}) => WillSignal(c[m]) \/ Enlisted(m)
      BY DEF IInv, BlockedIsEnlisted
    <3> QED
      BY <1>t, <1>4, <3>1
         DEF LastReceive, Receive, WillSignal, Enlisted, TypeOK, Holds
  <2> QED
    BY <1>t, <2>1, <2>2, <2>3, <2>4, <2>5, <2>6, <2>7 DEF IInv
<1>5. ASSUME NEW l \in Listeners, LastSendBack(l) PROVE IInv'
  <2>1. OneState'
    BY <1>t, <1>5 DEF IInv, LastSendBack, SendBack, OneState, TypeOK, Holds, Holding
  <2>2. StateIsNewest'
    BY <1>t, <1>5
       DEF IInv, LastSendBack, SendBack, StateIsNewest, Newest, Holds, Holding
  <2>3. ChansAreOwned'
    BY <1>t, <1>5 DEF IInv, LastSendBack, SendBack, ChansAreOwned
  <2>4. WaitersAreEmpty'
    BY <1>t, <1>5
       DEF IInv, LastSendBack, SendBack, WaitersAreEmpty, NotifyNeverBlocks,
           TypeOK, Holds
  <2>5. SeenWasPublished'
    BY <1>t, <1>5
       DEF IInv, LastSendBack, Result, SeenWasPublished, StateIsNewest, Newest,
           Holds, Holding
  <2>6. AnswersAreNewer'
    BY <1>t, <1>5 DEF IInv, LastSendBack, SendBack, AnswersAreNewer, Published
  <2>7. BlockedIsEnlisted'
    <3> SUFFICES ASSUME NEW m \in Listeners, (pc[m] = "select" /\ chan[c[m]] = {})'
                 PROVE  WillSignal(c[m])' \/ Enlisted(m)'
      BY DEF BlockedIsEnlisted
    <3>1. (pc[m] = "select" /\ chan[c[m]] = {}) => WillSignal(c[m]) \/ Enlisted(m)
      BY DEF IInv, BlockedIsEnlisted
    <3> QED
      BY <1>t, <1>5, <3>1
         DEF LastSendBack, SendBack, WillSignal, Enlisted, TypeOK, Holds, Holding
  <2> QED
    BY <1>t, <2>1, <2>2, <2>3, <2>4, <2>5, <2>6, <2>7 DEF IInv
<1>6. ASSUME NEW l \in Listeners, AwaitReceive(l) PROVE IInv'
  <2>1. OneState'
    BY <1>t, <1>6 DEF IInv, AwaitReceive, Receive, OneState, TypeOK, Holds, Holding
  <2>2. StateIsNewest'
    BY <1>t, <1>6
       DEF IInv, AwaitReceive, Receive, StateIsNewest, Newest, TypeOK, Holds
  <2>3. ChansAreOwned'
    BY <1>t, <1>6
       DEF IInv, AwaitReceive, Receive, Fresh, ChansAreOwned, OneState, TypeOK,
           Procs, Holds, Holding
  <2>4. WaitersAreEmpty'
    BY <1>t, <1>6
       DEF IInv, AwaitReceive, Receive, WaitersAreEmpty, NotifyNeverBlocks, TypeOK,
           Holds, Holding
  <2>5. SeenWasPublished'
    BY <1>t, <1>6 DEF IInv, AwaitReceive, SeenWasPublished
  <2>6. AnswersAreNewer'
    BY <1>t, <1>6 DEF IInv, AwaitReceive, Receive, AnswersAreNewer, Published
  <2>7. BlockedIsEnlisted'
    <3> SUFFICES ASSUME NEW m \in Listeners, (pc[m] = "select" /\ chan[c[m]] = {})'
                 PROVE  WillSignal(c[m])' \/ Enlisted(m)'
      BY DEF BlockedIsEnlisted
    <3>1. (pc[m] = "select" /\ chan[c[m]] = {}) => WillSignal(c[m]) \/ Enlisted(m)
      BY DEF IInv, BlockedIsEnlisted
    <3> QED
      BY <1>t, <1>6, <3>1
         DEF AwaitReceive, Receive, Fresh, WillSignal, Enlisted, TypeOK, Holds
  <2> QED
    BY <1>t, <2>1, <2>2, <2>3, <2>4, <2>5, <2>6, <2>7 DEF IInv
<1>7. ASSUME NEW l \in Listeners, AwaitSendBack(l) PROVE IInv'
  <2>a. /\ Holds(l) /\ stCh = {} /\ pc[l] = "awaitHold"
        /\ \A q \in Procs : Holds(q) => q = l
        /\ \A q \in Procs : q # l => st[q].wait = {}
    BY <1>7, HolderIsAlone DEF AwaitSendBack, Holds, Holding, Procs
  <2>e. /\ c[l] \in Chans /\ chan[c[l]] = {}
        /\ \A q \in Procs : c[l] \notin st[q].wait
        /\ \A m \in Listeners : m # l => c[m] # c[l]
    BY <1>t, <2>a DEF IInv, TypeOK, ChansAreOwned
  <2>f. Newest(st[l])
    BY <2>a DEF IInv, StateIsNewest
  <2>g. \A p \in Publishers : todo[p] = {} /\ pc[p] # "notify" /\ ~Holds(p)
    BY <1>t, <2>a DEF IInv, WaitersAreEmpty, Procs, Holds, Holding
  <2>b. /\ pc' = [pc EXCEPT ![l] = "select"]
        /\ UNCHANGED <<c, todo, newVal, seen, done, hist>>
        /\ st' = [st EXCEPT ![l] = [st[l] EXCEPT !.wait = {}]]
    BY <1>7 DEF AwaitSendBack, Enlist, AnswerNow, SendBack
  <2>h. \A p \in Procs : ~Holds(p)'
    BY <1>t, <2>a, <2>b DEF Holds, Holding, TypeOK
  <2>c. \/ /\ st[l].seq = seen[l].seq
           /\ chan' = chan
           /\ stCh' = {[st[l] EXCEPT !.wait = @ \cup {c[l]}]}
        \/ /\ st[l].seq # seen[l].seq
           /\ chan' = [chan EXCEPT ![c[l]] = {Result(st[l])}]
           /\ stCh' = {st[l]}
    BY <1>7 DEF AwaitSendBack, Enlist, AnswerNow, SendBack
  <2>d. \A s \in stCh' : s.seq = st[l].seq /\ s.val = st[l].val /\ s.wait \in {st[l].wait, st[l].wait \cup {c[l]}}
    BY <1>t, <2>c DEF TypeOK, State, Procs
  <2>1. OneState'
    BY <2>c, <2>h DEF OneState
  <2>2. StateIsNewest'
    BY <1>t, <2>b, <2>d, <2>f, <2>g, <2>h DEF IInv, StateIsNewest, Newest, Holds
  <2>3. ChansAreOwned'
    BY <1>t, <2>a, <2>b, <2>c DEF IInv, ChansAreOwned, TypeOK
  <2>4. WaitersAreEmpty'
    <3>1. \A p \in Procs : st'[p].wait = {}
      BY <1>t, <2>a, <2>b DEF TypeOK, State
    <3>2. \A ch \in st[l].wait : chan[ch] = {} /\ ch \in Chans /\ ch # c[l]
      BY <1>t, <2>e DEF IInv, WaitersAreEmpty, TypeOK, State, Procs
    <3>3. \A s \in stCh' : \A ch \in s.wait : chan'[ch] = {}
      <4>1. CASE st[l].seq = seen[l].seq
        BY <4>1, <2>c, <2>d, <2>e, <3>2
      <4>2. CASE st[l].seq # seen[l].seq
        BY <1>t, <4>2, <2>c, <3>2 DEF TypeOK
      <4> QED
        BY <4>1, <4>2
    <3> QED
      BY <2>b, <2>g, <3>1, <3>3 DEF WaitersAreEmpty, NotifyNeverBlocks, Procs
  <2>5. SeenWasPublished'
    BY <2>b DEF IInv, SeenWasPublished
  <2>6. AnswersAreNewer'
    <3>1. /\ Published(st[l]) /\ Published(Result(st[l])) /\ Result(st[l]).seq = st[l].seq
          /\ st[l].seq >= seen[l].seq
      BY <1>t, <2>f
         DEF IInv, Published, Newest, Result, SeenWasPublished, StateIsNewest,
         TypeOK, State, Signal, Procs
    <3>2. \A ch \in Chans : \A s \in chan'[ch] : Published(s)'
      BY <1>t, <2>b, <2>c, <2>e, <3>1 DEF IInv, AnswersAreNewer, Published, TypeOK
    <3>3. \A s \in chan'[c[l]] : s.seq >= seen[l].seq
      BY <1>t, <2>c, <2>e, <3>1 DEF TypeOK
    <3>4. /\ st'[l].seq = st[l].seq /\ st'[l].val = st[l].val
          /\ \A m \in Listeners : m # l => st'[m] = st[m] /\ pc'[m] = pc[m]
      BY <1>t, <2>b DEF TypeOK, State, Procs
    <3>5. \A m \in Listeners : m # l /\ pc[m] = "select" => chan'[c[m]] = chan[c[m]]
      BY <1>t, <2>c, <2>e DEF TypeOK
    <3>6. ASSUME NEW m \in Listeners, pc'[m] = "select"
          PROVE  /\ \A s \in chan'[c'[m]] : s.seq >= seen'[m].seq
                 /\ Published(st[m])' /\ st'[m].seq >= seen'[m].seq
      BY <2>b, <3>1, <3>3, <3>4, <3>5, <3>6 DEF IInv, AnswersAreNewer, Published
    <3> QED
      BY <3>2, <3>6 DEF AnswersAreNewer
  <2>7. BlockedIsEnlisted'
    <3> SUFFICES ASSUME NEW m \in Listeners, (pc[m] = "select" /\ chan[c[m]] = {})'
                 PROVE  Enlisted(m)'
      BY DEF BlockedIsEnlisted
    <3>1. CASE m = l
      <4>1. st[l].seq = seen[l].seq
        <5>1. chan'[c[l]] = {} /\ Result(st[l]) \notin {}
          BY <3>1, <2>b
        <5>2. st[l].seq # seen[l].seq => Result(st[l]) \in chan'[c[l]]
          BY <1>t, <2>c, <2>e DEF TypeOK
        <5> QED
          BY <5>1, <5>2
      <4>2. seen[l].seq = Len(hist) - 1 /\ \A s \in stCh' : c[l] \in s.wait
        BY <1>t, <4>1, <2>c, <2>f DEF Newest, TypeOK, State, Procs
      <4> QED
        BY <3>1, <4>2, <2>b, <2>g, <2>h DEF Enlisted, Procs, Holds, Holding
    <3>2. CASE m # l
      <4>1. pc[m] = "select" /\ chan[c[m]] = {}
        BY <1>t, <3>2, <2>b, <2>c, <2>e DEF TypeOK, Procs
      <4>2. Enlisted(m)
        BY <4>1, <2>g DEF IInv, BlockedIsEnlisted, WillSignal
      <4>3. c[m] \in st[l].wait
        BY <4>2, <2>a DEF Enlisted
      <4>4. \A s \in stCh' : c[m] \in s.wait
        BY <2>d, <4>3
      <4> QED
        BY <4>2, <4>4, <2>b, <2>g, <2>h DEF Enlisted, Procs, Holds, Holding
    <3> QED
      BY <3>1, <3>2
  <2> QED
    BY <1>t, <2>1, <2>2, <2>3, <2>4, <2>5, <2>6, <2>7 DEF IInv
<1>8. ASSUME NEW l \in Listeners, AwaitSignal(l) PROVE IInv'
  <2>1. OneState'
    BY <1>t, <1>8 DEF IInv, AwaitSignal, Return, OneState, Holds, Holding
  <2>2. StateIsNewest'
    BY <1>t, <1>8
       DEF IInv, AwaitSignal, Return, StateIsNewest, Newest, Holds, Holding
  <2>3. ChansAreOwned'
    BY <1>t, <1>8 DEF IInv, AwaitSignal, Return, ChansAreOwned, TypeOK
  <2>4. WaitersAreEmpty'
    BY <1>t, <1>8
       DEF IInv, AwaitSignal, Return, WaitersAreEmpty, NotifyNeverBlocks, Holds,
           Holding
  <2>5. SeenWasPublished'
    BY <1>t, <1>8
       DEF IInv, AwaitSignal, Return, SeenWasPublished, AnswersAreNewer, Published,
           TypeOK
  <2>6. AnswersAreNewer'
    BY <1>t, <1>8 DEF IInv, AwaitSignal, Return, AnswersAreNewer, Published, TypeOK
  <2>7. BlockedIsEnlisted'
    <3> SUFFICES ASSUME NEW m \in Listeners, (pc[m] = "select" /\ chan[c[m]] = {})'
                 PROVE  WillSignal(c[m])' \/ Enlisted(m)'
      BY DEF BlockedIsEnlisted
    <3>1. (pc[m] = "select" /\ chan[c[m]] = {}) => WillSignal(c[m]) \/ Enlisted(m)
      BY DEF IInv, BlockedIsEnlisted
    <3> QED
      BY <1>t, <1>8, <3>1
         DEF IInv, AwaitSignal, Return, WillSignal, Enlisted, ChansAreOwned,
             TypeOK, Holds, Holding
  <2> QED
    BY <1>t, <2>1, <2>2, <2>3, <2>4, <2>5, <2>6, <2>7 DEF IInv
<1>9. ASSUME NEW l \in Listeners, AwaitDone(l) PROVE IInv'
  <2>1. OneState'
    BY <1>t, <1>9 DEF IInv, AwaitDone, Return, OneState, Holds, Holding
  <2>2. StateIsNewest'
    BY <1>t, <1>9 DEF IInv, AwaitDone, Return, StateIsNewest, Newest, Holds, Holding
  <2>3. ChansAreOwned'
    BY <1>t, <1>9 DEF IInv, AwaitDone, Return, ChansAreOwned, TypeOK
  <2>4. WaitersAreEmpty'
    BY <1>t, <1>9
       DEF IInv, AwaitDone, Return, WaitersAreEmpty, NotifyNeverBlocks, Holds,
           Holding
  <2>5. SeenWasPublished'
    BY <1>t, <1>9
       DEF IInv, AwaitDone, Return, Result, SeenWasPublished, AnswersAreNewer,
           Published
  <2>6. AnswersAreNewer'
    BY <1>t, <1>9 DEF IInv, AwaitDone, Return, AnswersAreNewer, Published, TypeOK
  <2>7. BlockedIsEnlisted'
    <3> SUFFICES ASSUME NEW m \in Listeners, (pc[m] = "select" /\ chan[c[m]] = {})'
                 PROVE  WillSignal(c[m])' \/ Enlisted(m)'
      BY DEF BlockedIsEnlisted
    <3>1. (pc[m] = "select" /\ chan[c[m]] = {}) => WillSignal(c[m]) \/ Enlisted(m)
      BY DEF IInv, BlockedIsEnlisted
    <3> QED
      BY <1>t, <1>9, <3>1
         DEF AwaitDone, Return, WillSignal, Enlisted, TypeOK, Holds, Holding
  <2> QED
    BY <1>t, <2>1, <2>2, <2>3, <2>4, <2>5, <2>6, <2>7 DEF IInv
<1>10. ASSUME NEW l \in Listeners, Cancel(l) PROVE IInv'
  <2>1. OneState'
    BY <1>t, <1>10 DEF IInv, Cancel, OneState, Holds
  <2>2. StateIsNewest'
    BY <1>t, <1>10 DEF IInv, Cancel, StateIsNewest, Newest, Holds
  <2>3. ChansAreOwned'
    BY <1>t, <1>10 DEF IInv, Cancel, ChansAreOwned
  <2>4. WaitersAreEmpty'
    BY <1>t, <1>10 DEF IInv, Cancel, WaitersAreEmpty, NotifyNeverBlocks, Holds
  <2>5. SeenWasPublished'
    BY <1>t, <1>10 DEF IInv, Cancel, SeenWasPublished
  <2>6. AnswersAreNewer'
    BY <1>t, <1>10 DEF IInv, Cancel, AnswersAreNewer, Published
  <2>7. BlockedIsEnlisted'
    BY <1>t, <1>10
       DEF IInv, Cancel, BlockedIsEnlisted, Enlisted, WillSignal, StateIsNewest,
           Newest, OneState, ChansAreOwned, WaitersAreEmpty, NotifyNeverBlocks,
           TypeOK, State, Signal, Procs, Holds, Holding
  <2> QED
    BY <1>t, <2>1, <2>2, <2>3, <2>4, <2>5, <2>6, <2>7 DEF IInv
<1>11. ASSUME NEW l \in Listeners, ListenerReturn(l) PROVE IInv'
  <2>1. OneState'
    BY <1>t, <1>11 DEF IInv, ListenerReturn, OneState, Holds, Holding
  <2>2. StateIsNewest'
    BY <1>t, <1>11 DEF IInv, ListenerReturn, StateIsNewest, Newest, Holds, Holding
  <2>3. ChansAreOwned'
    BY <1>t, <1>11 DEF IInv, ListenerReturn, ChansAreOwned
  <2>4. WaitersAreEmpty'
    BY <1>t, <1>11
       DEF IInv, ListenerReturn, WaitersAreEmpty, NotifyNeverBlocks, Holds, Holding
  <2>5. SeenWasPublished'
    BY <1>t, <1>11 DEF IInv, ListenerReturn, SeenWasPublished
  <2>6. AnswersAreNewer'
    BY <1>t, <1>11 DEF IInv, ListenerReturn, AnswersAreNewer, Published
  <2>7. BlockedIsEnlisted'
    BY <1>t, <1>11
       DEF IInv, ListenerReturn, BlockedIsEnlisted, Enlisted, WillSignal,
           StateIsNewest, Newest, OneState, ChansAreOwned, WaitersAreEmpty,
           NotifyNeverBlocks, TypeOK, State, Signal, Procs, Holds, Holding
  <2> QED
    BY <1>t, <2>1, <2>2, <2>3, <2>4, <2>5, <2>6, <2>7 DEF IInv
<1>12. CASE UNCHANGED vars
  <2> USE <1>12 DEF vars
  <2>1. OneState' /\ StateIsNewest'
    BY DEF IInv, OneState, StateIsNewest, Newest, Holds
  <2>2. ChansAreOwned' /\ WaitersAreEmpty'
    BY DEF IInv, ChansAreOwned, WaitersAreEmpty, NotifyNeverBlocks, Holds
  <2>3. SeenWasPublished' /\ AnswersAreNewer'
    BY DEF IInv, SeenWasPublished, AnswersAreNewer, Published
  <2>4. BlockedIsEnlisted'
    BY DEF IInv, BlockedIsEnlisted, Enlisted, WillSignal, Holds
  <2> QED
    BY <1>t, <2>1, <2>2, <2>3, <2>4 DEF IInv
<1> QED
  BY <1>1, <1>2, <1>3, <1>4, <1>5, <1>6, <1>7, <1>8, <1>9, <1>10, <1>11, <1>12
     DEF Next, ListenerStep, PublisherStep

\* The invariant holds when NewNotifier has returned.
LEMMA IInvInit == Init => IInv
<1> SUFFICES ASSUME Init PROVE IInv
  OBVIOUS
<1> USE ProcsAssumption, ValuesAssumption, ChansAssumption
<1>1. TypeOK
  BY TypeInit
<1>2. \A p \in Procs : ~Holds(p)
  BY DEF Init, Holds, Holding, Procs
<1>3. Len(hist) = 1 /\ hist[1] = InitialVal
  BY DEF Init
<1>4. OneState /\ StateIsNewest
  <2>1. \A s \in stCh : s.seq = 0 /\ s.val = InitialVal
    BY DEF Init, NewNotifier
  <2>2. OneState
    BY <1>2 DEF Init, NewNotifier, OneState
  <2>3. \A p \in Publishers : pc[p] # "notify"
    BY <1>2 DEF Procs, Holds, Holding
  <2> QED
    BY <1>2, <1>3, <2>1, <2>2, <2>3 DEF StateIsNewest, Newest, Procs
<1>5. ChansAreOwned /\ WaitersAreEmpty
  BY
     DEF Init, NewNotifier, ChansAreOwned, WaitersAreEmpty, NotifyNeverBlocks,
         Procs, Holds, Holding
<1>6. SeenWasPublished /\ AnswersAreNewer /\ BlockedIsEnlisted
  BY <1>3 DEF Init, SeenWasPublished, AnswersAreNewer, BlockedIsEnlisted, Procs
<1> QED
  BY <1>1, <1>4, <1>5, <1>6 DEF IInv

\* The inductive invariant holds in every reachable state.
THEOREM Invariance == Spec => []IInv
<1>1. IInv /\ [Next]_vars => IInv'
  BY IInvStep
<1> QED
  BY IInvInit, <1>1, PTL DEF Spec

\* Every variable of the notifier and its callers keeps its type.
THEOREM TypeCorrect == Spec => []TypeOK
  BY Invariance, PTL DEF IInv

\* The channel n.st is a mutex: NotifyChange, AwaitChange and LastChange
\* neither lose nor duplicate the state, so sending it back never blocks.
THEOREM StateConserved == Spec => []OneState
  BY Invariance, PTL DEF IInv

\* NotifyChange never blocks on a listener: every channel it has still to
\* signal is empty.
THEOREM PublisherNeverBlocks == Spec => []NotifyNeverBlocks
<1>1. IInv => NotifyNeverBlocks
  BY DEF IInv, WaitersAreEmpty
<1> QED
  BY <1>1, Invariance, PTL

\* What AwaitChange and LastChange return was published, the value with its
\* own sequence number.
THEOREM ReturnsPublished == Spec => []SeenWasPublished
  BY Invariance, PTL DEF IInv

\* A listener that blocks in AwaitChange knows the newest version and is
\* enlisted, or a NotifyChange in progress is about to signal it.
THEOREM NoWakeupIsLost == Spec => []NoLostWakeup
<1>1. IInv => NoLostWakeup
  BY DEF IInv, BlockedIsEnlisted, Enlisted, NoLostWakeup
<1> QED
  BY <1>1, Invariance, PTL

\* No step takes the sequence number of a listener back.
LEMMA SeqStep ==
  IInv /\ [Next]_vars => [\A l \in Listeners : seen'[l].seq >= seen[l].seq]_vars
<1> SUFFICES ASSUME IInv, Next, NEW m \in Listeners
             PROVE  seen'[m].seq >= seen[m].seq
  BY DEF vars
<1>t. TypeOK /\ TypeOK'
  BY TypeStep DEF IInv
<1>1. seen' = seen => seen'[m].seq >= seen[m].seq
  BY <1>t DEF TypeOK, Signal
<1>2. ASSUME NEW l \in Listeners, LastSendBack(l) PROVE seen'[m].seq >= seen[m].seq
  <2>1. Newest(st[l]) /\ seen[l].seq < Len(hist) /\ st[l].seq \in Nat /\ seen[l].seq \in Nat
    BY <1>t, <1>2
       DEF IInv, LastSendBack, StateIsNewest, SeenWasPublished, Holds, Holding,
       TypeOK, State, Signal, Procs
  <2>2. st[l].seq >= seen[l].seq /\ Len(hist) \in Nat
    BY <1>t, <2>1 DEF Newest, TypeOK
  <2> QED
    BY <1>t, <1>2, <2>1, <2>2 DEF LastSendBack, Result, TypeOK, Signal
<1>3. ASSUME NEW l \in Listeners, AwaitSignal(l) PROVE seen'[m].seq >= seen[m].seq
  BY <1>t, <1>3 DEF IInv, AwaitSignal, Return, AnswersAreNewer, TypeOK, Signal
<1>4. ASSUME NEW l \in Listeners, AwaitDone(l) PROVE seen'[m].seq >= seen[m].seq
  BY <1>t, <1>4 DEF IInv, AwaitDone, Return, Result, AnswersAreNewer, TypeOK, Signal
<1> QED
  BY <1>1, <1>2, <1>3, <1>4
     DEF Next, ListenerStep, PublisherStep, NotifyReceive, NotifySignal,
     NotifySendBack, LastReceive, AwaitReceive, AwaitSendBack, Cancel, ListenerReturn

\* The sequence numbers that the calls of a listener return never go back,
\* also when ctx.Done() ends a call.
THEOREM SeqMonotone == Spec => SeqNeverGoesBack
<1>1. IInv /\ [Next]_vars => [\A l \in Listeners : seen'[l].seq >= seen[l].seq]_vars
  BY SeqStep
<1> QED
  BY <1>1, Invariance, PTL DEF Spec, SeqNeverGoesBack

\* The initial states of the notifier are initial states of Broadcast.
LEMMA RefinesInit == Init => B!Init
  BY DEF Init, B!Init

\* Every step of the notifier is a step of Broadcast or changes nothing
\* there: NotifyChange publishes when it has received the state, and a call
\* that returns learns.
LEMMA RefinesStep == IInv /\ [Next]_vars => [B!Next]_B!vars
<1> SUFFICES ASSUME IInv, [Next]_vars PROVE [B!Next]_B!vars
  OBVIOUS
<1>t. TypeOK /\ TypeOK'
  BY TypeStep DEF IInv
<1>1. ASSUME NEW p \in Publishers, NotifyReceive(p) PROVE B!Next
  BY <1>1 DEF NotifyReceive, B!Next, B!Publish
<1>2. ASSUME NEW l \in Listeners, NEW r \in Signal, Published(r), r.seq >= seen[l].seq,
             seen' = [seen EXCEPT ![l] = r], UNCHANGED hist
      PROVE  B!Next
  <2>1. r.seq \in B!Versions /\ r = B!Pair(r.seq)
    BY <1>t, <1>2 DEF Published, B!Versions, B!Pair, Signal, TypeOK
  <2>2. B!Learn(l)
    BY <1>2, <2>1 DEF B!Learn
  <2> QED
    BY <2>2 DEF B!Next
<1>3. ASSUME NEW l \in Listeners, LastSendBack(l) PROVE B!Next
  <2>1. Newest(st[l]) /\ seen[l].seq < Len(hist) /\ st[l] \in State /\ seen[l].seq \in Nat
    BY <1>t, <1>3
       DEF IInv, LastSendBack, StateIsNewest, SeenWasPublished, Holds, Holding,
       TypeOK, Signal, Procs
  <2>2. Result(st[l]) \in Signal /\ Published(Result(st[l])) /\ Result(st[l]).seq >= seen[l].seq
    BY <1>t, <2>1 DEF Newest, Published, Result, State, Signal
  <2> QED
    BY <1>2, <1>3, <2>2 DEF LastSendBack
<1>4. ASSUME NEW l \in Listeners, AwaitSignal(l) PROVE B!Next
  <2>1. PICK s \in chan[c[l]] : seen' = [seen EXCEPT ![l] = s]
    BY <1>4 DEF AwaitSignal, Return
  <2>2. s \in Signal /\ Published(s) /\ s.seq >= seen[l].seq /\ UNCHANGED hist
    BY <1>t, <1>4, <2>1 DEF IInv, AwaitSignal, AnswersAreNewer, TypeOK
  <2> QED
    BY <1>2, <2>1, <2>2
<1>5. ASSUME NEW l \in Listeners, AwaitDone(l) PROVE B!Next
  <2>1. Published(st[l]) /\ st[l].seq >= seen[l].seq /\ st[l] \in State
    BY <1>t, <1>5 DEF IInv, AwaitDone, AnswersAreNewer, TypeOK, Procs
  <2>2. Result(st[l]) \in Signal /\ Published(Result(st[l])) /\ Result(st[l]).seq >= seen[l].seq
    BY <2>1 DEF Published, Result, State, Signal
  <2> QED
    BY <1>2, <1>5, <2>2 DEF AwaitDone, Return
<1>6. UNCHANGED <<hist, seen>> => UNCHANGED B!vars
  BY DEF B!vars
<1> QED
  BY <1>1, <1>3, <1>4, <1>5, <1>6
     DEF Next, vars, ListenerStep, PublisherStep, NotifySignal,
     NotifySendBack, LastReceive, AwaitReceive, AwaitSendBack, Cancel, ListenerReturn

\* The notifier implements Broadcast, the specification that the models of
\* its users are built on.
THEOREM ImplementsBroadcast == Spec => BroadcastSpec
<1>1. IInv /\ [Next]_vars => [B!Next]_B!vars
  BY RefinesStep
<1> QED
  BY RefinesInit, <1>1, Invariance, PTL DEF Spec, BroadcastSpec, B!Spec

================================================================================
