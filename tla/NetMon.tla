--------------------------------- MODULE NetMon ---------------------------------
(***************************************************************************)
(* The interface monitor (net/netmon): the four goroutines of              *)
(* macosMonitor.run, the scutil process they talk to, and a listener that  *)
(* follows the monitor's SimpleNotifier as an OSPF instance does.          *)
(*                                                                         *)
(* The network changes; net counts the changes.  scutil, once it watches,  *)
(* writes a line for each.  The reader hands every line to the batcher     *)
(* with a non-blocking send on the unbuffered channel events, so the line  *)
(* is dropped unless the batcher is parked in its select.  The batcher     *)
(* notifies the listeners when its timer has fired.                        *)
(*                                                                         *)
(* scutil, the pipes and cmd.Run belong to the operating system and to     *)
(* os/exec: they are modelled as the code uses them.  Wait, which cmd.Run  *)
(* calls, closes our end of stdout as soon as the process has exited.      *)
(***************************************************************************)
EXTENDS Integers

CONSTANTS MaxChanges,  \* bound: how often the network changes
          MayCrash     \* scutil may exit with an error

ASSUME MaxChangesAssumption == MaxChanges \in Nat
ASSUME MayCrashAssumption == MayCrash \in BOOLEAN

VARIABLES
    net,      \* how often the network has changed
    scutil,   \* the process: "running", "exited" or "crashed"
    lines,    \* lines it has written and nobody has read
    stdout,   \* our end of its stdout is open
    writer,   \* the goroutine that writes the commands to stdin
    reader,   \* the goroutine that reads stdout
    batcher,  \* where the batching goroutine is
    waiter,   \* the goroutine that calls cmd.Run
    timer,    \* notifyTimer: "none", "armed", "fired" (a value is in C), "taken"
    pending,  \* the batcher's variable pending
    seq,      \* the sequence number of the notifier
    ctxDone,  \* the errgroup's context is done
    failed,   \* a goroutine of the errgroup returned an error
    known,    \* the listener has seen the network as of this change
    heard,    \* the sequence number the listener got last
    accepted, \* history: the change as of which the batcher took an event last
    notified  \* history: the change as of which it notified last

vars == <<net, scutil, lines, stdout, writer, reader, batcher, waiter, timer,
          pending, seq, ctxDone, failed, known, heard, accepted, notified>>

processVars == <<net, scutil, lines, stdout>>
batchVars == <<batcher, timer, pending, seq, accepted, notified>>
listenerVars == <<known, heard>>
groupVars == <<ctxDone, failed>>

Init ==
    /\ net = 0 /\ scutil = "running" /\ lines = 0 /\ stdout = TRUE
    /\ writer = "write" /\ reader = "read" /\ batcher = "loop" /\ waiter = "wait"
    /\ timer = "none" /\ pending = FALSE /\ seq = 0
    /\ ctxDone = FALSE /\ failed = FALSE
    /\ known = 0 /\ heard = 0 /\ accepted = 0 /\ notified = 0

\* The errgroup cancels its context when a goroutine returns an error.
GroupReturn(err) ==
    /\ ctxDone' = (ctxDone \/ err)
    /\ failed' = (failed \/ err)

--------------------------------------------------------------------------------
(* The environment.                                                          *)

\* scutil reports a change once it has got its commands.
NetworkChange ==
    /\ net < MaxChanges
    /\ net' = net + 1
    /\ lines' = IF writer # "write" /\ scutil = "running" THEN lines + 1 ELSE lines
    /\ UNCHANGED <<scutil, stdout, writer, reader, waiter, batchVars, listenerVars,
                   groupVars>>

\* scutil exits when its stdin is closed, which the writer does when it returns.
ScutilExit ==
    /\ scutil = "running"
    /\ writer = "returned"
    /\ scutil' = "exited"
    /\ UNCHANGED <<net, lines, stdout, writer, reader, waiter, batchVars,
                   listenerVars, groupVars>>

ScutilCrash ==
    /\ MayCrash
    /\ scutil = "running"
    /\ scutil' = "crashed"
    /\ UNCHANGED <<net, lines, stdout, writer, reader, waiter, batchVars,
                   listenerVars, groupVars>>

\* The caller of Run cancels its context.
Cancel ==
    /\ ~ctxDone
    /\ ctxDone' = TRUE
    /\ UNCHANGED <<processVars, writer, reader, waiter, batchVars, listenerVars, failed>>

--------------------------------------------------------------------------------
(* The writer and cmd.Run.                                                   *)

\* Writing fails when nobody can read the commands any more.
WriterWrite ==
    /\ writer = "write"
    /\ LET broken == scutil # "running"
       IN  /\ writer' = IF broken THEN "returned" ELSE "watch"
           /\ GroupReturn(broken)
    /\ UNCHANGED <<processVars, reader, waiter, batchVars, listenerVars>>

WriterDone ==
    /\ writer = "watch"
    /\ ctxDone
    /\ writer' = "returned"
    /\ UNCHANGED <<processVars, reader, waiter, batchVars, listenerVars, groupVars>>

\* cmd.Run returns the process's verdict.
CmdWait ==
    /\ waiter = "wait"
    /\ scutil # "running"
    /\ stdout' = FALSE
    /\ waiter' = "returned"
    /\ GroupReturn(scutil = "crashed")
    /\ UNCHANGED <<net, scutil, lines, writer, reader, batchVars, listenerVars>>

--------------------------------------------------------------------------------
(* The reader.                                                               *)

\* The batcher is parked in its select and nothing has woken it.
Parked == batcher = "parked" /\ timer # "fired" /\ ~ctxDone

\* A line is read, and the batcher is told if it is parked.  A line that is in
\* the bufio.Reader can be read after the pipe was closed.
ReaderLine ==
    /\ reader = "read"
    /\ lines > 0
    /\ lines' = lines - 1
    /\ IF Parked
       THEN batcher' = "event" /\ accepted' = net
       ELSE UNCHANGED <<batcher, accepted>>
    /\ UNCHANGED <<net, scutil, stdout, writer, reader, waiter, timer, pending, seq,
                   notified, listenerVars, groupVars>>

ReaderEOF ==
    /\ reader = "read"
    /\ stdout
    /\ lines = 0
    /\ scutil # "running"
    /\ reader' = "returned"
    /\ UNCHANGED <<processVars, writer, waiter, batchVars, listenerVars, groupVars>>

\* The read fails because our end of the pipe is closed.
ReaderError ==
    /\ reader = "read"
    /\ ~stdout
    /\ reader' = "returned"
    /\ GroupReturn(TRUE)
    /\ UNCHANGED <<processVars, writer, waiter, batchVars, listenerVars>>

--------------------------------------------------------------------------------
(* The batcher.                                                              *)

NotifyChange_SameSeq ==
    /\ notified' = net
    /\ UNCHANGED seq
NotifyChange ==
    /\ seq' = seq + 1
    /\ notified' = net

BatcherUnchanged ==
    UNCHANGED <<processVars, writer, reader, waiter, listenerVars, groupVars>>

TimerFires ==
    /\ timer = "armed"
    /\ timer' = "fired"
    /\ UNCHANGED <<batcher, pending, seq, accepted, notified>>
    /\ BatcherUnchanged

BatcherPark ==
    /\ batcher = "loop"
    /\ timer # "fired" /\ ~ctxDone
    /\ batcher' = "parked"
    /\ UNCHANGED <<timer, pending, seq, accepted, notified>>
    /\ BatcherUnchanged

\* case <-events
BatcherEvent ==
    /\ batcher = "event"
    /\ pending' = TRUE
    /\ timer' = IF timer = "none" THEN "armed" ELSE timer
    /\ batcher' = "loop"
    /\ UNCHANGED <<seq, accepted, notified>>
    /\ BatcherUnchanged

\* case <-notifyCh: the timer's channel is empty now.
BatcherTimer ==
    /\ batcher \in {"loop", "parked"}
    /\ timer = "fired"
    /\ timer' = "taken"
    /\ batcher' = "notify"
    /\ UNCHANGED <<pending, seq, accepted, notified>>
    /\ BatcherUnchanged

BatcherNotify ==
    /\ batcher = "notify"
    /\ NotifyChange
    /\ batcher' = "notified"
    /\ UNCHANGED <<timer, pending, accepted>>
    /\ BatcherUnchanged

BatcherReset_KeepTimer ==
    /\ batcher = "notified"
    /\ pending' = FALSE
    /\ batcher' = "loop"
    /\ UNCHANGED <<timer, seq, accepted, notified>>
    /\ BatcherUnchanged
BatcherReset ==
    /\ batcher = "notified"
    /\ pending' = FALSE
    /\ timer' = "none"
    /\ batcher' = "loop"
    /\ UNCHANGED <<seq, accepted, notified>>
    /\ BatcherUnchanged

\* case <-ctx.Done()
BatcherDone ==
    /\ batcher \in {"loop", "parked"}
    /\ ctxDone
    /\ batcher' = "stop"
    /\ UNCHANGED <<timer, pending, seq, accepted, notified>>
    /\ BatcherUnchanged

\* Stop the timer.  If it has fired, take the value from its channel, which
\* blocks when there is none.
BatcherStopTimer ==
    /\ batcher = "stop"
    /\ timer # "taken"
    /\ timer' = "none"
    /\ batcher' = "flush"
    /\ UNCHANGED <<pending, seq, accepted, notified>>
    /\ BatcherUnchanged

BatcherFlush_Drop ==
    /\ batcher = "flush"
    /\ batcher' = "returned"
    /\ UNCHANGED <<timer, pending, seq, accepted, notified>>
    /\ BatcherUnchanged
BatcherFlush ==
    /\ batcher = "flush"
    /\ IF pending THEN NotifyChange ELSE UNCHANGED <<seq, notified>>
    /\ batcher' = "returned"
    /\ UNCHANGED <<timer, pending, accepted>>
    /\ BatcherUnchanged

--------------------------------------------------------------------------------
(* The listener: AwaitChange returns, and it looks at the network.           *)

ListenerHears ==
    /\ heard # seq
    /\ heard' = seq
    /\ known' = net
    /\ UNCHANGED <<processVars, writer, reader, waiter, batchVars, groupVars>>

--------------------------------------------------------------------------------

WriterStep == WriterWrite \/ WriterDone
ReaderStep == ReaderLine \/ ReaderEOF \/ ReaderError
BatcherStep ==
    \/ BatcherPark \/ BatcherEvent \/ BatcherTimer \/ BatcherNotify \/ BatcherReset
    \/ BatcherDone \/ BatcherStopTimer \/ BatcherFlush

Next ==
    \/ NetworkChange \/ ScutilExit \/ ScutilCrash \/ Cancel
    \/ WriterStep \/ CmdWait \/ ReaderStep \/ TimerFires \/ BatcherStep
    \/ ListenerHears

Spec == Init /\ [][Next]_vars

\* Goroutines run when they can, the timer fires, scutil exits when its stdin
\* is closed, and AwaitChange returns (EveryListenerNotified of Notifier).
\* The network need not change and nobody has to cancel.
Fairness ==
    /\ WF_vars(WriterStep) /\ WF_vars(CmdWait) /\ WF_vars(ReaderStep)
    /\ WF_vars(BatcherStep) /\ WF_vars(TimerFires)
    /\ WF_vars(ScutilExit) /\ WF_vars(ListenerHears)

FairSpec == Spec /\ Fairness

--------------------------------------------------------------------------------
(* Properties                                                                *)

TypeOK ==
    /\ net \in 0 .. MaxChanges
    /\ scutil \in {"running", "exited", "crashed"}
    /\ lines \in 0 .. MaxChanges
    /\ stdout \in BOOLEAN
    /\ writer \in {"write", "watch", "returned"}
    /\ reader \in {"read", "returned"}
    /\ batcher \in {"loop", "parked", "event", "notify", "notified", "stop",
                    "flush", "returned"}
    /\ waiter \in {"wait", "returned"}
    /\ timer \in {"none", "armed", "fired", "taken"}
    /\ pending \in BOOLEAN
    /\ seq \in Nat
    /\ ctxDone \in BOOLEAN /\ failed \in BOOLEAN
    /\ known \in 0 .. net /\ heard \in 0 .. seq
    /\ accepted \in 0 .. net /\ notified \in 0 .. net

\* An event the batcher took is never forgotten: until the listeners have been
\* notified of it, it is pending, a timer is running to flush the batch, and
\* the batcher does not return, even if its context is done in the meantime.
AcceptedIsPending ==
    accepted > notified =>
        /\ batcher # "returned"
        /\ pending \/ batcher = "event"
        /\ timer # "none" \/ batcher \in {"event", "flush"}

\* A listener that has heard the last notification has looked at the network as
\* of that notification or later: together with AcceptedIsPending, it has seen
\* every event that was accepted, or the batcher has still to notify it.
HeardIsSeen == heard = seq => known >= notified

\* An event that was accepted is heard: the listener looks at the network as of
\* that event or later, also when the monitor is stopped before the batch is
\* complete.
AcceptedIsHeard ==
    \A n \in 1 .. MaxChanges : accepted >= n ~> known >= n

AllReturned ==
    /\ writer = "returned" /\ reader = "returned"
    /\ batcher = "returned" /\ waiter = "returned"

\* A monitor whose context is done returns, whatever the process and the timer
\* are doing.
MonitorStops == ctxDone ~> AllReturned

\* "OSPF depends on InterfaceMonitor to hear about changes to network interface
\* state": once the monitor has delivered a first change, every change that
\* scutil reports is heard.
ChangeIsHeard ==
    \A n \in 1 .. MaxChanges :
        (known > 0 /\ net >= n /\ lines > 0) ~> (known >= n \/ ctxDone)

================================================================================
