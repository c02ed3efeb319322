------------------------------ MODULE NetMonProofs ------------------------------
(***************************************************************************)
(* What the interface monitor guarantees, however often the network        *)
(* changes and whether or not the child process dies.                      *)
(*                                                                         *)
(* That an event accepted and not yet notified is pending is inductive     *)
(* only together with what the batcher knows between a notification and    *)
(* the reset of its batch (ResetForgetsNothing): in that step nobody else  *)
(* can hand it an event.  That the value of a fired timer is only taken on *)
(* the way to a reset (DrainNeverBlocks) is why the batcher never waits    *)
(* for a value that is not there when it is stopped.                       *)
(***************************************************************************)
EXTENDS NetMon, TLAPS

--------------------------------------------------------------------------------
(* The inductive invariant                                                   *)

\* Nobody can accept an event between a notification and the reset of the batch,
\* so the reset forgets none.
ResetForgetsNothing == batcher = "notified" => accepted <= notified

\* The value is taken from the timer's channel only on the way to a reset, which
\* forgets the timer: the batcher never waits for a value that is not there when
\* it is stopped.
DrainNeverBlocks == timer = "taken" => batcher \in {"notify", "notified"}

\* The inductive invariant.
IInv ==
    /\ TypeOK
    /\ lines <= net
    /\ AcceptedIsPending /\ HeardIsSeen
    /\ ResetForgetsNothing /\ DrainNeverBlocks

--------------------------------------------------------------------------------
(* The proofs                                                                *)

\* The goroutines before their first step.
LEMMA IInvInit == Init => IInv
<1> SUFFICES ASSUME Init PROVE IInv
  OBVIOUS
<1>1. 0 \in 0 .. MaxChanges /\ 0 \in 0 .. 0 /\ 0 <= 0 /\ ~(0 > 0)
  BY MaxChangesAssumption
<1>2. TypeOK
  BY <1>1 DEF Init, TypeOK
<1>3. lines <= net /\ AcceptedIsPending /\ HeardIsSeen
  BY DEF Init, AcceptedIsPending, HeardIsSeen
<1>4. ResetForgetsNothing /\ DrainNeverBlocks
  BY DEF Init, ResetForgetsNothing, DrainNeverBlocks
<1> QED
  BY <1>2, <1>3, <1>4 DEF IInv

\* The steps of the environment, of the process, of its reader and its writer.
Surroundings ==
    \/ NetworkChange \/ ScutilExit \/ ScutilCrash \/ Cancel
    \/ WriterStep \/ CmdWait \/ ReaderStep \/ ListenerHears

\* They keep the types.
LEMMA SurroundingsType == IInv /\ Surroundings => TypeOK' /\ (lines <= net)'
<1> SUFFICES ASSUME IInv, Surroundings PROVE TypeOK' /\ (lines <= net)'
  OBVIOUS
<1> USE MaxChangesAssumption
<1>1. CASE NetworkChange
  BY <1>1 DEF NetworkChange, batchVars, listenerVars, groupVars, IInv, TypeOK
<1>2. CASE ScutilExit \/ ScutilCrash \/ Cancel
  <2>1. CASE ScutilExit
    BY <2>1 DEF ScutilExit, batchVars, listenerVars, groupVars, IInv, TypeOK
  <2>2. CASE ScutilCrash
    BY <2>2 DEF ScutilCrash, batchVars, listenerVars, groupVars, IInv, TypeOK
  <2>3. CASE Cancel
    BY <2>3 DEF Cancel, processVars, batchVars, listenerVars, groupVars, IInv, TypeOK
  <2> QED
    BY <1>2, <2>1, <2>2, <2>3
<1>3. CASE WriterStep \/ CmdWait
  BY <1>3 DEF WriterStep, WriterWrite, WriterDone, CmdWait, GroupReturn, processVars,
              batchVars, listenerVars, groupVars, IInv, TypeOK
<1>4. CASE ReaderLine
  BY <1>4 DEF ReaderLine, listenerVars, groupVars, IInv, TypeOK
<1>5. CASE ReaderEOF \/ ReaderError
  BY <1>5 DEF ReaderEOF, ReaderError, GroupReturn, processVars, batchVars, listenerVars,
              groupVars, IInv, TypeOK
<1>6. CASE ListenerHears
  BY <1>6 DEF ListenerHears, processVars, batchVars, groupVars, IInv, TypeOK
<1> QED
  BY <1>1, <1>2, <1>3, <1>4, <1>5, <1>6 DEF Surroundings, ReaderStep

\* So do the steps of the batcher and of its timer.
LEMMA BatcherType == IInv /\ (TimerFires \/ BatcherStep) => TypeOK' /\ (lines <= net)'
<1> SUFFICES ASSUME IInv, TimerFires \/ BatcherStep PROVE TypeOK' /\ (lines <= net)'
  OBVIOUS
<1> USE DEF BatcherUnchanged, processVars, listenerVars, groupVars, IInv, TypeOK
<1>1. CASE TimerFires
  BY <1>1 DEF TimerFires
<1>2. CASE BatcherPark \/ BatcherTimer \/ BatcherDone
  BY <1>2 DEF BatcherPark, BatcherTimer, BatcherDone
<1>3. CASE BatcherEvent
  BY <1>3 DEF BatcherEvent
<1>4. CASE BatcherNotify
  BY <1>4 DEF BatcherNotify, NotifyChange
<1>5. CASE BatcherReset \/ BatcherStopTimer
  BY <1>5 DEF BatcherReset, BatcherStopTimer
<1>6. CASE BatcherFlush
  BY <1>6 DEF BatcherFlush, NotifyChange
<1> QED
  BY <1>1, <1>2, <1>3, <1>4, <1>5, <1>6 DEF BatcherStep

\* What the goroutines around the batcher may change of the batch: only the
\* reader touches it, by waking a batcher that is parked.
LEMMA SurroundingsStep == IInv /\ Surroundings => IInv'
<1> SUFFICES ASSUME IInv, Surroundings PROVE IInv'
  OBVIOUS
<1>t. TypeOK /\ TypeOK' /\ (lines <= net)'
  BY SurroundingsType DEF IInv
<1>1. CASE ReaderLine
  <2>1. /\ timer' = timer /\ pending' = pending /\ seq' = seq /\ notified' = notified
        /\ known' = known /\ heard' = heard
        /\ \/ batcher = "parked" /\ batcher' = "event"
           \/ batcher' = batcher /\ accepted' = accepted
    BY <1>1 DEF ReaderLine, Parked, listenerVars
  <2>2. AcceptedIsPending'
    BY <2>1 DEF IInv, AcceptedIsPending
  <2>3. HeardIsSeen' /\ ResetForgetsNothing' /\ DrainNeverBlocks'
    BY <2>1 DEF IInv, HeardIsSeen, ResetForgetsNothing, DrainNeverBlocks
  <2> QED
    BY <1>t, <2>2, <2>3 DEF IInv
<1>2. CASE ListenerHears
  BY <1>t, <1>2
     DEF ListenerHears, batchVars, IInv, TypeOK, AcceptedIsPending, HeardIsSeen,
         ResetForgetsNothing, DrainNeverBlocks
<1>3. CASE ~ReaderLine /\ ~ListenerHears
  <2>1. UNCHANGED <<batchVars, listenerVars>>
    BY <1>3 DEF Surroundings, NetworkChange, ScutilExit, ScutilCrash, Cancel, WriterStep,
         WriterWrite, WriterDone, CmdWait, ReaderStep, ReaderEOF, ReaderError
  <2> QED
    BY <1>t, <2>1
       DEF batchVars, listenerVars, IInv, AcceptedIsPending, HeardIsSeen,
           ResetForgetsNothing, DrainNeverBlocks
<1> QED
  BY <1>1, <1>2, <1>3

\* What the batcher does with a batch.
LEMMA BatcherKeeps == IInv /\ (TimerFires \/ BatcherStep) => IInv'
<1> SUFFICES ASSUME IInv, TimerFires \/ BatcherStep PROVE IInv'
  OBVIOUS
<1>t. TypeOK /\ TypeOK' /\ (lines <= net)'
  BY BatcherType DEF IInv
<1>u. net' = net /\ known' = known /\ heard' = heard /\ accepted' = accepted
  BY DEF TimerFires, BatcherStep, BatcherPark, BatcherEvent, BatcherTimer, BatcherNotify,
         BatcherReset, BatcherDone, BatcherStopTimer, BatcherFlush, BatcherUnchanged,
         processVars, listenerVars
<1>1. AcceptedIsPending'
  <2> USE <1>u DEF IInv, AcceptedIsPending
  <2>1. CASE TimerFires \/ BatcherPark \/ BatcherDone
    BY <2>1 DEF TimerFires, BatcherPark, BatcherDone
  <2>2. CASE BatcherEvent
    BY <2>2 DEF BatcherEvent
  <2>3. CASE BatcherTimer
    BY <2>3 DEF BatcherTimer
  <2>4. CASE BatcherNotify
    BY <1>t, <2>4 DEF BatcherNotify, NotifyChange, TypeOK
  <2>5. CASE BatcherReset
    BY <1>t, <2>5 DEF BatcherReset, ResetForgetsNothing, TypeOK
  <2>6. CASE BatcherStopTimer
    BY <2>6 DEF BatcherStopTimer
  <2>7. CASE BatcherFlush
    BY <1>t, <2>7 DEF BatcherFlush, NotifyChange, TypeOK
  <2> QED
    BY <2>1, <2>2, <2>3, <2>4, <2>5, <2>6, <2>7 DEF BatcherStep
<1>2. HeardIsSeen'
  <2>1. CASE seq' = seq /\ notified' = notified
    BY <1>u, <2>1 DEF IInv, HeardIsSeen
  <2>2. CASE seq' = seq + 1
    BY <1>t, <1>u, <2>2 DEF TypeOK, HeardIsSeen
  <2> QED
    BY <2>1, <2>2
       DEF TimerFires, BatcherStep, BatcherPark, BatcherEvent, BatcherTimer, BatcherNotify,
           BatcherReset, BatcherDone, BatcherStopTimer, BatcherFlush, NotifyChange
<1>3. ResetForgetsNothing'
  BY <1>t, <1>u
     DEF IInv, ResetForgetsNothing, TypeOK, TimerFires, BatcherStep, BatcherPark,
         BatcherEvent, BatcherTimer, BatcherNotify, BatcherReset, BatcherDone,
         BatcherStopTimer, BatcherFlush, NotifyChange
<1>4. DrainNeverBlocks'
  BY <1>t
     DEF IInv, DrainNeverBlocks, TypeOK, TimerFires, BatcherStep, BatcherPark,
         BatcherEvent, BatcherTimer, BatcherNotify, BatcherReset, BatcherDone,
         BatcherStopTimer, BatcherFlush
<1> QED
  BY <1>t, <1>1, <1>2, <1>3, <1>4 DEF IInv

--------------------------------------------------------------------------------
(* The theorems                                                              *)

\* The invariant holds in every state of every execution.
THEOREM MonitorInvariance == Spec => []IInv
<1>1. IInv /\ [Next]_vars => IInv'
  <2> SUFFICES ASSUME IInv, [Next]_vars PROVE IInv'
    OBVIOUS
  <2>1. CASE Next
    BY <2>1, SurroundingsStep, BatcherKeeps DEF Next, Surroundings
  <2>2. CASE UNCHANGED vars
    BY <2>2 DEF vars, IInv, TypeOK, AcceptedIsPending, HeardIsSeen, ResetForgetsNothing,
         DrainNeverBlocks
  <2> QED
    BY <2>1, <2>2
<1> QED
  BY IInvInit, <1>1, PTL DEF Spec

\* The batcher forgets no event it took, however its timer, a notification and
\* the end of its context race.
THEOREM NoEventIsForgotten == Spec => []AcceptedIsPending
  BY MonitorInvariance, PTL DEF IInv

\* Who has heard the last notification has seen the network as of then.
THEOREM ListenerIsUpToDate == Spec => []HeardIsSeen
  BY MonitorInvariance, PTL DEF IInv

\* A batcher that is stopped does not wait for a value that its timer does not
\* have, and so the monitor can return.
THEOREM StopIsNotBlocked == Spec => [](batcher = "stop" => timer # "taken")
<1>1. IInv => (batcher = "stop" => timer # "taken")
  BY DEF IInv, DrainNeverBlocks
<1> QED
  BY MonitorInvariance, <1>1, PTL

================================================================================
