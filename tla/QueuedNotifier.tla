----------------------------- MODULE QueuedNotifier -----------------------------
(***************************************************************************)
(* sync.QueuedNotifier[T] (sync/queued_notifier.go) and the queue behind   *)
(* every registration (sync/queue.go).                                     *)
(*                                                                         *)
(* The channel n.st of capacity 1 is the mutex of the map from tokens to   *)
(* queues.  Register, Unregister and the lookup of AwaitChange take it,    *)
(* touch the map and give it back, which nobody can observe in between, so *)
(* each is one step.  NotifyChange keeps it while it puts the value into   *)
(* every queue.                                                            *)
(*                                                                         *)
(* A queue is two channels of capacity 1: items holds a non-empty list or  *)
(* nothing, empty holds a token if the list is empty.  A channel is the    *)
(* set of what is in its buffer.  Whoever takes the list or the token owns *)
(* the queue until it puts one of them back.                               *)
(*                                                                         *)
(* Version n of the value is the n-th that was published.  A listener      *)
(* registers once and then calls AwaitChange again and again; its token    *)
(* may be unregistered by anybody, at any time.                            *)
(***************************************************************************)
EXTENDS Integers, Sequences, FiniteSets

CONSTANTS Listeners,   \* goroutines that register and call AwaitChange
          Publishers,  \* goroutines that call NotifyChange
          NoQueue,     \* a publisher is not busy with a queue
          MaxNotify    \* bound: NotifyChange is called at most this often

ASSUME ProcsAssumption == Listeners \cap Publishers = {}
ASSUME NoQueueAssumption == NoQueue \notin Listeners
ASSUME MaxNotifyAssumption == MaxNotify \in Nat

VARIABLES
    stFree,      \* the map is in n.st
    registered,  \* its keys: the token of listener l is called l
    items,       \* items[l]: the buffer of items of l's queue
    empty,       \* empty[l]: the buffer of empty of l's queue
    pc,          \* pc[p]: where goroutine p is
    held,        \* held[p]: the list p has taken from a queue
    todo,        \* todo[p]: the queues p's NotifyChange has still to do
    cur,         \* cur[p]: the queue p's NotifyChange is putting into
    published,   \* history: the number of values published
    from,        \* history: from[l] values were published when l registered
    upto,        \* history: upto[l] were when it was unregistered
    got,         \* history: the items l got
    done         \* done[l]: the context of l is done

vars == <<stFree, registered, items, empty, pc, held, todo, cur, published, from,
          upto, got, done>>

queueVars == <<items, empty, held>>
historyVars == <<published, from, upto, got>>

Procs == Listeners \cup Publishers

Init ==
    /\ stFree = TRUE
    /\ registered = {}
    /\ items = [l \in Listeners |-> {}]
    /\ empty = [l \in Listeners |-> {}]
    /\ pc = [p \in Procs |-> IF p \in Listeners THEN "start" ELSE "idle"]
    /\ held = [p \in Procs |-> <<>>]
    /\ todo = [p \in Publishers |-> {}]
    /\ cur = [p \in Publishers |-> NoQueue]
    /\ published = 0
    /\ from = [l \in Listeners |-> 0]
    /\ upto = [l \in Listeners |-> 0]
    /\ got = [l \in Listeners |-> <<>>]
    /\ done = [l \in Listeners |-> FALSE]

--------------------------------------------------------------------------------
(* The map of queues.                                                        *)

\* NewQueue: the list is empty.
NewQueue(l) ==
    empty' = [empty EXCEPT ![l] = {TRUE}]

Register(l) ==
    /\ pc[l] = "start"
    /\ stFree
    /\ registered' = registered \cup {l}
    /\ NewQueue(l)
    /\ pc' = [pc EXCEPT ![l] = "ready"]
    /\ from' = [from EXCEPT ![l] = published]
    /\ UNCHANGED <<stFree, items, held, todo, cur, published, upto, got, done>>

Unregister(l) ==
    /\ l \in registered
    /\ stFree
    /\ registered' = registered \ {l}
    /\ upto' = [upto EXCEPT ![l] = published]
    /\ UNCHANGED <<stFree, queueVars, pc, todo, cur, published, from, got, done>>

--------------------------------------------------------------------------------
(* NotifyChange(v)                                                           *)

NotifyBegin(p) ==
    /\ pc[p] = "idle"
    /\ published < MaxNotify
    /\ stFree
    /\ stFree' = FALSE
    /\ published' = published + 1
    /\ todo' = [todo EXCEPT ![p] = registered]
    /\ pc' = [pc EXCEPT ![p] = "notify"]
    /\ UNCHANGED <<registered, queueVars, cur, from, upto, got, done>>

\* The select of Put: the list, or the token if there is none.
PutTake_Forget(p) ==
    /\ pc[p] = "notify"
    /\ \E l \in todo[p] :
          /\ items[l] # {} \/ empty[l] # {}
          /\ items' = [items EXCEPT ![l] = {}]
          /\ empty' = [empty EXCEPT ![l] = {}]
          /\ cur' = [cur EXCEPT ![p] = l]
    /\ pc' = [pc EXCEPT ![p] = "put"]
    /\ UNCHANGED <<stFree, registered, held, todo, historyVars, done>>
PutTake(p) ==
    /\ pc[p] = "notify"
    /\ \E l \in todo[p] :
          /\ \/ \E list \in items[l] :
                   /\ held' = [held EXCEPT ![p] = list]
                   /\ items' = [items EXCEPT ![l] = {}]
                   /\ UNCHANGED empty
             \/ /\ empty[l] # {}
                /\ empty' = [empty EXCEPT ![l] = {}]
                /\ UNCHANGED <<items, held>>
          /\ cur' = [cur EXCEPT ![p] = l]
    /\ pc' = [pc EXCEPT ![p] = "put"]
    /\ UNCHANGED <<stFree, registered, todo, historyVars, done>>

\* Append the value, and put the list back.  n.st is still taken, so the value
\* is the newest one.
PutGive(p) ==
    /\ pc[p] = "put"
    /\ items[cur[p]] = {}
    /\ items' = [items EXCEPT ![cur[p]] = {Append(held[p], published)}]
    /\ held' = [held EXCEPT ![p] = <<>>]
    /\ todo' = [todo EXCEPT ![p] = @ \ {cur[p]}]
    /\ cur' = [cur EXCEPT ![p] = NoQueue]
    /\ pc' = [pc EXCEPT ![p] = "notify"]
    /\ UNCHANGED <<stFree, registered, empty, historyVars, done>>

NotifyEnd_FirstOnly(p) ==
    /\ pc[p] = "notify"
    /\ todo[p] = {} \/ todo[p] # registered
    /\ stFree' = TRUE
    /\ todo' = [todo EXCEPT ![p] = {}]
    /\ pc' = [pc EXCEPT ![p] = "idle"]
    /\ UNCHANGED <<registered, queueVars, cur, historyVars, done>>
NotifyEnd(p) ==
    /\ pc[p] = "notify"
    /\ todo[p] = {}
    /\ stFree' = TRUE
    /\ pc' = [pc EXCEPT ![p] = "idle"]
    /\ UNCHANGED <<registered, queueVars, todo, cur, historyVars, done>>

--------------------------------------------------------------------------------
(* AwaitChange(ctx, t)                                                       *)

\* st[t]: the call returns FALSE if the token is not registered (any more).
AwaitLookup(l) ==
    /\ pc[l] = "ready"
    /\ stFree
    /\ pc' = [pc EXCEPT ![l] = IF l \in registered THEN "get" ELSE "refused"]
    /\ UNCHANGED <<stFree, registered, queueVars, todo, cur, historyVars, done>>

\* Get, case <-ctx.Done(): the zero value is returned, and nothing is taken.
GetDone(l) ==
    /\ pc[l] = "get"
    /\ done[l]
    /\ pc' = [pc EXCEPT ![l] = "ready"]
    /\ UNCHANGED <<stFree, registered, queueVars, todo, cur, historyVars, done>>

\* Get, case items = <-q.items
GetTake(l) ==
    /\ pc[l] = "get"
    /\ \E list \in items[l] : held' = [held EXCEPT ![l] = list]
    /\ items' = [items EXCEPT ![l] = {}]
    /\ pc' = [pc EXCEPT ![l] = "give"]
    /\ UNCHANGED <<stFree, registered, empty, todo, cur, historyVars, done>>

\* Put the rest of the list back, or the token, and return the first item.
GetGive_NoToken(l) ==
    /\ pc[l] = "give"
    /\ items' = [items EXCEPT ![l] = IF Len(held[l]) = 1 THEN {} ELSE {Tail(held[l])}]
    /\ held' = [held EXCEPT ![l] = <<>>]
    /\ got' = [got EXCEPT ![l] = Append(@, Head(held[l]))]
    /\ pc' = [pc EXCEPT ![l] = "ready"]
    /\ UNCHANGED <<stFree, registered, empty, todo, cur, published, from, upto, done>>
GetGive(l) ==
    /\ pc[l] = "give"
    /\ IF Len(held[l]) = 1
       THEN /\ empty[l] = {}
            /\ empty' = [empty EXCEPT ![l] = {TRUE}]
            /\ UNCHANGED items
       ELSE /\ items[l] = {}
            /\ items' = [items EXCEPT ![l] = {Tail(held[l])}]
            /\ UNCHANGED empty
    /\ held' = [held EXCEPT ![l] = <<>>]
    /\ got' = [got EXCEPT ![l] = Append(@, Head(held[l]))]
    /\ pc' = [pc EXCEPT ![l] = "ready"]
    /\ UNCHANGED <<stFree, registered, todo, cur, published, from, upto, done>>

Cancel(l) ==
    /\ ~done[l]
    /\ done' = [done EXCEPT ![l] = TRUE]
    /\ UNCHANGED <<stFree, registered, queueVars, pc, todo, cur, historyVars>>

--------------------------------------------------------------------------------

AwaitStep(l) == AwaitLookup(l) \/ GetDone(l) \/ GetTake(l) \/ GetGive(l)
ListenerStep(l) == Register(l) \/ Unregister(l) \/ AwaitStep(l) \/ Cancel(l)
PutStep(p) == PutTake(p) \/ PutGive(p) \/ NotifyEnd(p)
PublisherStep(p) == NotifyBegin(p) \/ PutStep(p)

Next ==
    \/ \E l \in Listeners : ListenerStep(l)
    \/ \E p \in Publishers : PublisherStep(p)

Spec == Init /\ [][Next]_vars

\* Goroutines run when they can, and those that block on n.st, or on a queue
\* that is taken and given back again and again, are served in order.  A
\* listener goes on listening.  Nobody has to register, to unregister, to
\* publish or to cancel.
Fairness ==
    /\ \A l \in Listeners :
          /\ SF_vars(AwaitLookup(l)) /\ SF_vars(GetTake(l)) /\ WF_vars(GetGive(l))
          /\ WF_vars(GetDone(l))
    /\ \A p \in Publishers :
          SF_vars(PutTake(p)) /\ WF_vars(PutGive(p)) /\ WF_vars(NotifyEnd(p))

FairSpec == Spec /\ Fairness

--------------------------------------------------------------------------------
(* Properties                                                                *)

\* The variables have their types; a list in the channel items is not empty,
\* as Get, which takes items[0], needs it.
TypeOK ==
    /\ stFree \in BOOLEAN
    /\ registered \subseteq Listeners
    /\ items \in [Listeners -> SUBSET (Seq(Nat) \ {<<>>})]
    /\ empty \in [Listeners -> SUBSET {TRUE}]
    /\ pc \in [Procs -> {"start", "ready", "get", "give", "refused",
                         "idle", "notify", "put"}]
    /\ held \in [Procs -> Seq(Nat)]
    /\ todo \in [Publishers -> SUBSET Listeners]
    /\ cur \in [Publishers -> Listeners \cup {NoQueue}]
    /\ published \in Nat
    /\ from \in [Listeners -> Nat] /\ upto \in [Listeners -> Nat]
    /\ got \in [Listeners -> Seq(Nat)]
    /\ done \in [Listeners -> BOOLEAN]

\* The goroutines that have taken l's list or token and not put one back.
Owners(l) ==
    {p \in Publishers : pc[p] = "put" /\ cur[p] = l}
        \cup {m \in {l} : pc[m] = "give"}

\* The two channels of a queue are one mutex: list, token and owner exclude
\* each other, and one of them is there.  So nobody who puts something back
\* into a queue blocks, and no list is ever overwritten by another one.
OneOwner ==
    \A l \in Listeners : pc[l] # "start" =>
        Cardinality(items[l]) + Cardinality(empty[l]) + Cardinality(Owners(l)) = 1

\* What l will get, in this order, if nobody publishes any more.
Waiting(l) ==
    IF items[l] # {} THEN CHOOSE list \in items[l] : TRUE
    ELSE IF Owners(l) # {} THEN held[CHOOSE p \in Owners(l) : TRUE]
    ELSE <<>>

\* How many values have been put into l's queue, or never will be.
Reached(l) ==
    IF pc[l] = "start" THEN 0
    ELSE IF l \notin registered THEN upto[l]
    ELSE IF \E p \in Publishers : l \in todo[p] THEN published - 1
    ELSE published

\* "All listeners are guaranteed to be notified of every change, and once
\* you've registered, you won't miss any changes": what a listener got and
\* what waits for it is exactly what was published while it was registered,
\* in order and once, however it is cancelled, slow or unregistered.
NothingMissed ==
    \A l \in Listeners :
        got[l] \o Waiting(l) = [i \in 1 .. (Reached(l) - from[l]) |-> from[l] + i]

\* "A slow listener will never block the notifier": NotifyChange returns, even
\* while listeners take items out of the queues it puts into.
NotifyReturns == \A p \in Publishers : pc[p] = "notify" ~> pc[p] = "idle"

\* A listener that goes on listening gets every value published while it is
\* registered.
EveryChangeDelivered ==
    \A l \in Listeners : \A n \in 1 .. MaxNotify :
        (l \in registered /\ from[l] < n /\ published >= n) ~>
            (n \in {got[l][i] : i \in 1 .. Len(got[l])} \/ done[l] \/ l \notin registered)

================================================================================
