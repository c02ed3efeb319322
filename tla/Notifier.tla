------------------------------- MODULE Notifier --------------------------------
(***************************************************************************)
(* sync.Notifier[T] (sync/notifier.go): a one-to-many broadcast built from *)
(* channels, with the goroutines that call it.  SimpleNotifier is the same *)
(* object with T = struct{}, that is, with one value.                      *)
(*                                                                         *)
(* A channel of capacity 1 is the set of the items in its buffer: a send   *)
(* needs the empty set, a receive takes the one element.  The buffered     *)
(* channel n.st is the notifier's mutex: the goroutine that received the   *)
(* state owns it until it sends a state back.                              *)
(*                                                                         *)
(* A publisher calls NotifyChange again and again.  A listener behaves as  *)
(* both users of the type do (ServiceManager.Run and ospf Instance.Run):   *)
(* LastChange once, then AwaitChange in a loop, each time with the         *)
(* sequence number it got last, until its context is done.                 *)
(***************************************************************************)
EXTENDS Integers, Sequences, FiniteSets

CONSTANTS Listeners,   \* goroutines that call LastChange and AwaitChange
          Publishers,  \* goroutines that call NotifyChange
          Values,      \* values of type T
          InitialVal,  \* the argument of NewNotifier
          Chans,       \* the signal channels that can exist at one time
          NoChan,      \* the value of a variable that holds no channel
          MaxSeq       \* bound: NotifyChange is called at most this often

ASSUME ProcsAssumption == Listeners \cap Publishers = {}
ASSUME ValuesAssumption == InitialVal \in Values
ASSUME ChansAssumption == NoChan \notin Chans
ASSUME MaxSeqAssumption == MaxSeq \in Nat

VARIABLES
    stCh,    \* the buffer of n.st
    st,      \* st[p]: goroutine p's local copy of the state it received
    pc,      \* pc[p]: where goroutine p is
    chan,    \* chan[c]: the buffer of signal channel c
    c,       \* c[l]: the channel of listener l's current AwaitChange call
    todo,    \* todo[p]: the waiters p's NotifyChange has still to signal
    newVal,  \* newVal[p]: the argument of p's NotifyChange
    seen,    \* seen[l]: the pair the last call of l returned
    done,    \* done[l]: the context of l is done
    hist     \* history: every version whose publication has begun

vars == <<stCh, st, pc, chan, c, todo, newVal, seen, done, hist>>

Procs == Listeners \cup Publishers

Signal == [seq : Nat, val : Values]
State == [seq : Nat, val : Values, wait : SUBSET Chans]

\* The part of a state that AwaitChange and LastChange return.
Result(s) == [seq |-> s.seq, val |-> s.val]

\* Goroutine p has received the state from n.st and not yet sent it back.
Holding == {"lastHold", "awaitHold", "notify"}
Holds(p) == pc[p] \in Holding

--------------------------------------------------------------------------------
(* NewNotifier puts version 0 into n.st.                                     *)

NewNotifier == stCh = {[seq |-> 0, val |-> InitialVal, wait |-> {}]}

Init ==
    /\ NewNotifier
    /\ st = [p \in Procs |-> [seq |-> 0, val |-> InitialVal, wait |-> {}]]
    /\ pc = [p \in Procs |-> IF p \in Listeners THEN "start" ELSE "idle"]
    /\ chan = [ch \in Chans |-> {}]
    /\ c = [l \in Listeners |-> NoChan]
    /\ todo = [p \in Publishers |-> {}]
    /\ newVal = [p \in Publishers |-> InitialVal]
    /\ seen = [l \in Listeners |-> [seq |-> 0, val |-> InitialVal]]
    /\ done = [l \in Listeners |-> FALSE]
    /\ hist = <<InitialVal>>

\* st := <-n.st, after which p is at label to.
Receive_Peek(p, to) ==
    /\ \E s \in stCh : st' = [st EXCEPT ![p] = s]
    /\ UNCHANGED stCh
    /\ pc' = [pc EXCEPT ![p] = to]
Receive(p, to) ==
    /\ \E s \in stCh :
          /\ st' = [st EXCEPT ![p] = s]
          /\ stCh' = stCh \ {s}
    /\ pc' = [pc EXCEPT ![p] = to]

\* n.st <- s, after which p is at label to.  The waiters of p's own copy
\* are not read any more.
SendBack(p, s, to) ==
    /\ stCh = {}
    /\ stCh' = {s}
    /\ st' = [st EXCEPT ![p].wait = {}]
    /\ pc' = [pc EXCEPT ![p] = to]

--------------------------------------------------------------------------------
(* NotifyChange(newVal)                                                      *)

\* The new version exists from here on: signals that carry it may reach a
\* listener before the new state is back in n.st.
NotifyReceive(p) ==
    /\ pc[p] = "idle"
    /\ Len(hist) <= MaxSeq
    /\ Receive(p, "notify")
    /\ todo' = [todo EXCEPT ![p] = st'[p].wait]
    /\ \E v \in Values :
          /\ newVal' = [newVal EXCEPT ![p] = v]
          /\ hist' = Append(hist, v)
    /\ UNCHANGED <<chan, c, seen, done>>

\* c <- signal[T]{st.seq + 1, newVal}: blocks while the buffer is full.
NotifySignal(p) ==
    /\ pc[p] = "notify"
    /\ \E ch \in todo[p] :
          /\ chan[ch] = {}
          /\ chan' = [chan EXCEPT
                 ![ch] = {[seq |-> st[p].seq + 1, val |-> newVal[p]]}]
          /\ todo' = [todo EXCEPT ![p] = @ \ {ch}]
    /\ UNCHANGED <<stCh, st, pc, c, newVal, seen, done, hist>>

\* The state that NotifyChange sends back: the list of waiters is nil.
NextState_KeepWaiters(p) ==
    [seq |-> st[p].seq + 1, val |-> newVal[p], wait |-> st[p].wait]
NextState_SameSeq(p) ==
    [seq |-> st[p].seq, val |-> newVal[p], wait |-> {}]
NextState(p) ==
    [seq |-> st[p].seq + 1, val |-> newVal[p], wait |-> {}]

NotifySendBack(p) ==
    /\ pc[p] = "notify"
    /\ todo[p] = {}
    /\ SendBack(p, NextState(p), "idle")
    /\ UNCHANGED <<chan, c, todo, newVal, seen, done, hist>>

--------------------------------------------------------------------------------
(* LastChange()                                                              *)

LastReceive(l) ==
    /\ pc[l] = "start"
    /\ Receive(l, "lastHold")
    /\ UNCHANGED <<chan, c, todo, newVal, seen, done, hist>>

LastSendBack(l) ==
    /\ pc[l] = "lastHold"
    /\ SendBack(l, st[l], "ready")
    /\ seen' = [seen EXCEPT ![l] = Result(st[l])]
    /\ UNCHANGED <<chan, c, todo, newVal, done, hist>>

--------------------------------------------------------------------------------
(* AwaitChange(ctx, seq), called with the sequence number l got last.        *)

\* No goroutine and no state refers to ch: make may return it.
Fresh(ch) ==
    /\ \A l \in Listeners : c[l] # ch
    /\ \A s \in stCh : ch \notin s.wait
    /\ \A p \in Procs : ch \notin st[p].wait

\* Bound: a call that ctx.Done() ends leaves its channel in the waiters until
\* the next NotifyChange.  A listener whose context is done starts another
\* such call only while there is a channel left for every other listener.
ChansLeft(l) ==
    done[l] => Cardinality({ch \in Chans : Fresh(ch)}) >= Cardinality(Listeners)

AwaitReceive(l) ==
    /\ pc[l] = "ready"
    /\ ChansLeft(l)
    /\ \E ch \in Chans :
          /\ Fresh(ch)
          /\ c' = [c EXCEPT ![l] = ch]
          /\ chan' = [chan EXCEPT ![ch] = {}]
    /\ Receive(l, "awaitHold")
    /\ UNCHANGED <<todo, newVal, seen, done, hist>>

\* The caller is up to date: append its channel to the waiters.
Enlist(l) ==
    /\ SendBack(l, [st[l] EXCEPT !.wait = @ \cup {c[l]}], "select")
    /\ UNCHANGED chan

\* The caller is behind: put the current version into its own channel.
AnswerNow(l) ==
    /\ chan[c[l]] = {}
    /\ chan' = [chan EXCEPT ![c[l]] = {Result(st[l])}]
    /\ SendBack(l, st[l], "select")

AwaitSendBack_AlwaysEnlist(l) ==
    /\ pc[l] = "awaitHold"
    /\ Enlist(l)
    /\ UNCHANGED <<c, todo, newVal, seen, done, hist>>
AwaitSendBack(l) ==
    /\ pc[l] = "awaitHold"
    /\ IF st[l].seq = seen[l].seq THEN Enlist(l) ELSE AnswerNow(l)
    /\ UNCHANGED <<c, todo, newVal, seen, done, hist>>

\* The call returns the pair r.  Its channel is dropped, but a list of
\* waiters may go on referring to it.
Return(l, r) ==
    /\ seen' = [seen EXCEPT ![l] = r]
    /\ c' = [c EXCEPT ![l] = NoChan]
    /\ pc' = [pc EXCEPT ![l] = "ready"]

\* case n := <-c
AwaitSignal(l) ==
    /\ pc[l] = "select"
    /\ \E s \in chan[c[l]] :
          /\ chan' = [chan EXCEPT ![c[l]] = {}]
          /\ Return(l, s)
    /\ UNCHANGED <<stCh, st, todo, newVal, done, hist>>

\* case <-ctx.Done(): the state as it was when the call began.
AwaitDone(l) ==
    /\ pc[l] = "select"
    /\ done[l]
    /\ Return(l, Result(st[l]))
    /\ UNCHANGED <<stCh, st, chan, todo, newVal, done, hist>>

--------------------------------------------------------------------------------
(* The callers.                                                              *)

\* The context of l is cancelled.
Cancel(l) ==
    /\ ~done[l]
    /\ done' = [done EXCEPT ![l] = TRUE]
    /\ UNCHANGED <<stCh, st, pc, chan, c, todo, newVal, seen, hist>>

\* Between two calls the loop of a listener returns if its context is done.
ListenerReturn(l) ==
    /\ pc[l] = "ready"
    /\ done[l]
    /\ pc' = [pc EXCEPT ![l] = "returned"]
    /\ UNCHANGED <<stCh, st, chan, c, todo, newVal, seen, done, hist>>

ListenerStep(l) ==
    \/ LastReceive(l) \/ LastSendBack(l)
    \/ AwaitReceive(l) \/ AwaitSendBack(l) \/ AwaitSignal(l) \/ AwaitDone(l)
    \/ Cancel(l) \/ ListenerReturn(l)

PublisherStep(p) == NotifyReceive(p) \/ NotifySignal(p) \/ NotifySendBack(p)

Next ==
    \/ \E l \in Listeners : ListenerStep(l)
    \/ \E p \in Publishers : PublisherStep(p)

Spec == Init /\ [][Next]_vars

\* Goroutines run when they can.  The receivers that block on n.st queue in
\* order, so one that waits for the state again and again gets it.  Nobody
\* has to publish or to cancel.
Fairness ==
    /\ \A l \in Listeners :
          /\ SF_vars(LastReceive(l)) /\ SF_vars(AwaitReceive(l))
          /\ WF_vars(LastSendBack(l)) /\ WF_vars(AwaitSendBack(l))
          /\ WF_vars(AwaitSignal(l))
    /\ \A p \in Publishers :
          WF_vars(NotifySignal(p)) /\ WF_vars(NotifySendBack(p))

FairSpec == Spec /\ Fairness

--------------------------------------------------------------------------------
(* Properties                                                                *)

TypeOK ==
    /\ stCh \in SUBSET State
    /\ st \in [Procs -> State]
    /\ pc \in [Procs -> {"start", "lastHold", "ready", "awaitHold", "select",
                         "returned", "idle", "notify"}]
    /\ \A p \in Publishers : pc[p] \in {"idle", "notify"}
    /\ \A l \in Listeners : pc[l] \notin {"idle", "notify"}
    /\ chan \in [Chans -> SUBSET Signal]
    /\ c \in [Listeners -> Chans \cup {NoChan}]
    /\ \A l \in Listeners : c[l] # NoChan <=> pc[l] \in {"awaitHold", "select"}
    /\ todo \in [Publishers -> SUBSET Chans]
    /\ newVal \in [Publishers -> Values]
    /\ seen \in [Listeners -> Signal]
    /\ done \in [Listeners -> BOOLEAN]
    /\ hist \in Seq(Values)

\* The state is never lost or duplicated: it is in n.st, or exactly one
\* goroutine owns it, so that goroutine's send back to n.st cannot block.
OneState ==
    /\ \A s, t \in stCh : s = t
    /\ \A p, q \in Procs : Holds(p) /\ Holds(q) => p = q
    /\ stCh = {} <=> \E p \in Procs : Holds(p)

\* NotifyChange never blocks on a slow, cancelled or absent listener while it
\* owns the state: every channel it has still to signal has room.
NotifyNeverBlocks ==
    \A p \in Publishers : \A ch \in todo[p] : chan[ch] = {}

\* Every pair a call returned is a version that was published: values and
\* sequence numbers are not mixed up, whichever branch of select returned it.
SeenWasPublished ==
    \A l \in Listeners :
        /\ seen[l].seq < Len(hist)
        /\ seen[l].val = hist[seen[l].seq + 1]

\* The goroutine p is about to signal channel ch.
WillSignal(ch) == \E p \in Publishers : ch \in todo[p]

\* No lost wake-up: a listener that blocks in AwaitChange with nothing in its
\* channel knows the newest version and is in the list of waiters, or it is
\* one of the waiters a NotifyChange in progress is about to signal.
NoLostWakeup ==
    \A l \in Listeners :
        (pc[l] = "select" /\ chan[c[l]] = {}) =>
            \/ WillSignal(c[l])
            \/ /\ seen[l].seq = Len(hist) - 1
               /\ \A s \in stCh : c[l] \in s.wait

\* A listener's sequence number never goes back, even when its context is
\* done and AwaitChange returns what it read before it waited.
SeqNeverGoesBack ==
    [][\A l \in Listeners : seen'[l].seq >= seen[l].seq]_vars

\* "All listeners are guaranteed to receive a notification": a version whose
\* publication began is learned, or a newer one is, by every listener whose
\* context is not done.
EveryListenerNotified ==
    \A l \in Listeners : \A s \in 1 .. MaxSeq :
        (Len(hist) > s) ~> (seen[l].seq >= s \/ done[l])

--------------------------------------------------------------------------------
\* The notifier implements Broadcast.
B == INSTANCE Broadcast
BroadcastSpec == B!Spec

================================================================================
