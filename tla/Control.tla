------------------------------- MODULE Control -------------------------------
(***************************************************************************)
(* The control path of io-reactor: threads holding a Controller send       *)
(* commands and shutdown requests over the crossbeam channel `ctl` and     *)
(* then signal the waker; the reactor thread resets the waker and then     *)
(* drains the channel.  The reactor thread is kept abstract here: it may   *)
(* notice a signalled waker at any time.  Reactor.tla embeds these actions *)
(* in the real event loop, and implements ControlSpec.                     *)
(***************************************************************************)
EXTENDS Naturals, Sequences

CONSTANTS
  Controllers,  \* the Controller handles, each used by a thread of its own
  MaxCmds,      \* bound: commands sent through one handle
  WakeMayFail   \* may WakerSend::wake return an error?

ASSUME ControlAssumption == MaxCmds \in Nat /\ WakeMayFail \in BOOLEAN

VARIABLES
  launch,   \* the Reactor handle: see Launches
  caller,   \* the call each handle is in: see Calls
  sent,     \* number of commands each handle got into the channel
  ctl,      \* content of the unbounded channel, oldest first
  waker,    \* is the waker's file descriptor readable?
  awoken,   \* run(): this iteration saw the waker and has to drain the channel
  status,   \* the loop is "running", left on "shutdown" or "panicked"; "gone":
            \* the Runtime, and with it the receiving end, is dropped
  handled,  \* history: number of the last command of each handle the service got
  shut,     \* history: some Shutdown has entered the channel,
  cut       \* history: and `sent` at the moment the first one did

controlVars ==
  <<launch, caller, sent, ctl, waker, awoken, status, handled, shut, cut>>

Cmd(c, n)   == [kind |-> "cmd", from |-> c, n |-> n]
Shutdown(c) == [kind |-> "shutdown", from |-> c, n |-> 0]

Msg == [kind : {"cmd", "shutdown"}, from : Controllers, n : Nat]

\* "spawned": Reactor::with has started the thread; "ready": it has returned, or
\* "failed"; "joining" and "joined": join() has been called, has returned.
Launches == {"spawned", "ready", "failed", "joining", "joined"}

\* Controllers exist once with() has returned, and clones of them outlive join().
Launched == launch \in {"ready", "joining", "joined"}

(***************************************************************************)
(* "idle": no call; "cmd": cmd() has sent and will wake; "shutdown" and    *)
(* "orphan": shutdown() will wake, its send having succeeded or failed;    *)
(* "consumed": shutdown(self) returned Ok and the handle no longer exists. *)
(***************************************************************************)
Calls == {"idle", "cmd", "shutdown", "orphan", "consumed"}

ControlTypeOK ==
  /\ launch \in Launches
  /\ caller \in [Controllers -> Calls]
  /\ sent \in [Controllers -> Nat]
  /\ ctl \in Seq(Msg)
  /\ status = "gone" => ctl = <<>>
  /\ waker \in BOOLEAN
  /\ awoken \in BOOLEAN
  /\ status \in {"running", "shutdown", "panicked", "gone"}
  /\ handled \in [Controllers -> Nat]
  /\ shut \in BOOLEAN
  /\ cut \in [Controllers -> Nat]

ControlInit ==
  /\ launch = "spawned"
  /\ caller = [c \in Controllers |-> "idle"]
  /\ sent = [c \in Controllers |-> 0]
  /\ ctl = <<>>
  /\ waker = FALSE
  /\ awoken = FALSE
  /\ status = "running"
  /\ handled = [c \in Controllers |-> 0]
  /\ shut = FALSE
  /\ cut = [c \in Controllers |-> 0]

-----------------------------------------------------------------------------
(* The callers' side.                                                      *)

\* The last step of Reactor::with, in the creating thread: wake the reactor so
\* that it collects the actions the service had ready at launch.
LaunchNoWake ==  \* mutant: with() does not wake
  /\ launch = "spawned"
  /\ launch' = "ready"
  /\ UNCHANGED <<caller, sent, ctl, waker, awoken, status, handled, shut, cut>>

LaunchWake ==
  /\ launch = "spawned"
  /\ launch' = "ready"
  /\ waker' = TRUE
  /\ UNCHANGED <<caller, sent, ctl, awoken, status, handled, shut, cut>>

\* The same call failing: with() returns the error and no handle; the spawned
\* thread stays behind.
LaunchFails ==
  /\ WakeMayFail
  /\ launch = "spawned"
  /\ launch' = "failed"
  /\ UNCHANGED <<caller, sent, ctl, waker, awoken, status, handled, shut, cut>>

\* Reactor::join: blocks until the thread has ended, dropping the Runtime.
Join ==
  /\ launch = "ready"
  /\ launch' = "joining"
  /\ UNCHANGED <<caller, sent, ctl, waker, awoken, status, handled, shut, cut>>

JoinReturns ==
  /\ launch = "joining"
  /\ status = "gone"
  /\ launch' = "joined"
  /\ UNCHANGED <<caller, sent, ctl, waker, awoken, status, handled, shut, cut>>

Launch == LaunchWake \/ LaunchFails \/ Join \/ JoinReturns

\* Sender::send on the unbounded channel.
Enqueue(queue, msg) == Append(queue, msg)

\* Controller::cmd, first half.  Once the receiver is dropped the call returns
\* BrokenPipe and changes nothing, which is a stuttering step.
CmdSend(c) ==
  /\ Launched
  /\ caller[c] = "idle"
  /\ status # "gone"
  /\ sent[c] < MaxCmds
  /\ ctl' = Enqueue(ctl, Cmd(c, sent[c] + 1))
  /\ sent' = [sent EXCEPT ![c] = @ + 1]
  /\ caller' = [caller EXCEPT ![c] = "cmd"]
  /\ UNCHANGED <<launch, waker, awoken, status, handled, shut, cut>>

\* Controller::shutdown, first half: the result of the send is kept, not returned.
ShutdownSend(c) ==
  /\ Launched
  /\ caller[c] = "idle"
  /\ status # "gone"
  /\ ctl' = Enqueue(ctl, Shutdown(c))
  /\ caller' = [caller EXCEPT ![c] = "shutdown"]
  /\ shut' = TRUE
  /\ cut' = IF shut THEN cut ELSE sent
  /\ UNCHANGED <<launch, sent, waker, awoken, status, handled>>

ShutdownOrphan(c) ==
  /\ Launched
  /\ caller[c] = "idle"
  /\ status = "gone"
  /\ caller' = [caller EXCEPT ![c] = "orphan"]
  /\ UNCHANGED <<launch, sent, ctl, waker, awoken, status, handled, shut, cut>>

\* What a call returns to, given whether its wake succeeded: `self.wake()?` in
\* cmd(), `res1.or(res2)` in shutdown().
Returned(call, woken) ==
  IF call = "shutdown" \/ (call = "orphan" /\ woken) THEN "consumed" ELSE "idle"

\* Second half of either call.
Wake(c) ==
  /\ caller[c] \in {"cmd", "shutdown", "orphan"}
  /\ waker' = TRUE
  /\ caller' = [caller EXCEPT ![c] = Returned(@, TRUE)]
  /\ UNCHANGED <<launch, sent, ctl, awoken, status, handled, shut, cut>>

WakeFails(c) ==
  /\ WakeMayFail
  /\ caller[c] \in {"cmd", "shutdown", "orphan"}
  /\ caller' = [caller EXCEPT ![c] = Returned(@, FALSE)]
  /\ UNCHANGED <<launch, sent, ctl, waker, awoken, status, handled, shut, cut>>

-----------------------------------------------------------------------------
(* The reactor thread's side.                                              *)

\* handle_events, waker branch.
ResetWaker ==
  /\ status = "running"
  /\ waker
  /\ ~awoken
  /\ waker' = FALSE
  /\ awoken' = TRUE
  /\ UNCHANGED <<launch, caller, sent, ctl, status, handled, shut, cut>>

\* The drain loop of run(): one try_recv per step.
Draining == status = "running" /\ awoken

RecvCmdLost ==  \* mutant: a wake during the drain restarts it, the command is gone
  /\ Draining
  /\ ctl # <<>>
  /\ Head(ctl).kind = "cmd"
  /\ ctl' = Tail(ctl)
  /\ handled' = IF waker THEN handled ELSE [handled EXCEPT ![Head(ctl).from] = Head(ctl).n]
  /\ UNCHANGED <<launch, caller, sent, waker, awoken, status, shut, cut>>

RecvOneCmd ==  \* mutant: one command per wake-up
  /\ Draining
  /\ ctl # <<>>
  /\ Head(ctl).kind = "cmd"
  /\ ctl' = Tail(ctl)
  /\ handled' = [handled EXCEPT ![Head(ctl).from] = Head(ctl).n]
  /\ awoken' = FALSE
  /\ UNCHANGED <<launch, caller, sent, waker, status, shut, cut>>

RecvCmd ==
  /\ Draining
  /\ ctl # <<>>
  /\ Head(ctl).kind = "cmd"
  /\ ctl' = Tail(ctl)
  /\ handled' = [handled EXCEPT ![Head(ctl).from] = Head(ctl).n]
  /\ UNCHANGED <<launch, caller, sent, waker, awoken, status, shut, cut>>

RecvShutdownEarly ==  \* mutant: a Shutdown overtakes the commands before it
  /\ Draining
  /\ \E i \in 1..Len(ctl) : ctl[i].kind = "shutdown"
  /\ status' = "shutdown"
  /\ UNCHANGED <<launch, caller, sent, ctl, waker, awoken, handled, shut, cut>>

RecvShutdownBreaks ==  \* mutant: `break` for `return`
  /\ Draining
  /\ ctl # <<>>
  /\ Head(ctl).kind = "shutdown"
  /\ ctl' = Tail(ctl)
  /\ awoken' = FALSE
  /\ UNCHANGED <<launch, caller, sent, waker, status, handled, shut, cut>>

RecvShutdown ==
  /\ Draining
  /\ ctl # <<>>
  /\ Head(ctl).kind = "shutdown"
  /\ ctl' = Tail(ctl)
  /\ status' = "shutdown"
  /\ UNCHANGED <<launch, caller, sent, waker, awoken, handled, shut, cut>>

RecvEmpty ==
  /\ Draining
  /\ ctl = <<>>
  /\ awoken' = FALSE
  /\ UNCHANGED <<launch, caller, sent, ctl, waker, status, handled, shut, cut>>

\* The reactor thread unwinds: one of the runtime's own panics, or a panic in
\* a callback of the service.
Panic ==
  /\ status = "running"
  /\ status' = "panicked"
  /\ UNCHANGED <<launch, caller, sent, ctl, waker, awoken, handled, shut, cut>>

\* The Runtime is dropped after run() returned or unwound; until then senders
\* still find the channel connected.  Messages left in the channel are lost.
DropKeepsChannel ==  \* mutant: the queued messages survive the receiver
  /\ status \in {"shutdown", "panicked"}
  /\ status' = "gone"
  /\ UNCHANGED <<launch, caller, sent, ctl, waker, awoken, handled, shut, cut>>

DropReceiver ==
  /\ status \in {"shutdown", "panicked"}
  /\ status' = "gone"
  /\ ctl' = <<>>
  /\ UNCHANGED <<launch, caller, sent, waker, awoken, handled, shut, cut>>

-----------------------------------------------------------------------------
CallerNext(c) ==
  \/ CmdSend(c)
  \/ ShutdownSend(c)
  \/ ShutdownOrphan(c)
  \/ Wake(c)
  \/ WakeFails(c)

Drain == RecvCmd \/ RecvShutdown \/ RecvEmpty

ControlNext ==
  \/ Launch
  \/ \E c \in Controllers : CallerNext(c)
  \/ ResetWaker
  \/ Drain
  \/ Panic
  \/ DropReceiver

\* A started call returns, join() included once the thread has ended, the
\* creating thread finishes with(), and the reactor thread is scheduled.  Nobody is
\* obliged to start a call or to panic.
ControlFairness ==
  /\ WF_controlVars(LaunchWake)
  /\ WF_controlVars(JoinReturns)
  /\ \A c \in Controllers : WF_controlVars(Wake(c))
  /\ WF_controlVars(ResetWaker)
  /\ WF_controlVars(Drain)
  /\ WF_controlVars(DropReceiver)

ControlSafety == ControlInit /\ [][ControlNext]_controlVars

ControlSpec == ControlSafety /\ ControlFairness

-----------------------------------------------------------------------------
(* Properties.                                                             *)

\* No lost wake-up: while the loop runs, a message never sits in the channel
\* unless the waker is still readable, the current iteration will drain, or
\* the call that sent a message has yet to signal.  It depends on cmd() sending
\* before waking and on run() resetting before draining.
NoLostWakeup ==
  ~WakeMayFail =>
    (status = "running" /\ ctl # <<>> =>
       \/ waker
       \/ awoken
       \/ \E c \in Controllers : caller[c] \in {"cmd", "shutdown"})

\* The service gets the commands of one handle in the order they were sent,
\* each exactly once, none skipped, whatever the other handles do.
CommandsInOrder ==
  [][\A c \in Controllers :
       handled'[c] # handled[c] => handled'[c] = handled[c] + 1]_controlVars

\* Shutdown is a barrier: when run() returns because of it, the service has
\* got exactly the commands that were in the channel before the first Shutdown.
ShutdownIsBarrier == status = "shutdown" => shut /\ handled = cut

\* Positions of the commands of one handle in the channel.
Queued(c) == {i \in 1..Len(ctl) : ctl[i].kind = "cmd" /\ ctl[i].from = c}

\* What makes CommandsInOrder hold: the commands of a handle that the channel
\* has accepted and the service has not got are in the channel, increasing.
InOrder(c) ==
  /\ handled[c] <= sent[c]
  /\ \A i \in Queued(c) : ctl[i].n > handled[c] /\ ctl[i].n <= sent[c]
  /\ \A i, j \in Queued(c) : i < j => ctl[i].n < ctl[j].n
  /\ status # "gone" =>
       \A n \in (handled[c] + 1)..sent[c] : \E i \in Queued(c) : ctl[i].n = n

QueueInOrder == \A c \in Controllers : InOrder(c)

\* Position p holds the first Shutdown, and parts the commands sent before it
\* from those sent after.
CutAt(p) ==
  /\ ctl[p].kind = "shutdown"
  /\ \A i \in 1..(p - 1) : ctl[i].kind = "cmd" /\ ctl[i].n <= cut[ctl[i].from]
  /\ \A i \in (p + 1)..Len(ctl) : ctl[i].kind = "cmd" => ctl[i].n > cut[ctl[i].from]

\* What makes ShutdownIsBarrier hold: from the first Shutdown to its receipt the
\* channel is parted by it, and the service is not past the cut.
QueueIsCut ==
  /\ \A c \in Controllers : cut[c] <= sent[c]
  /\ ~shut => \A i \in 1..Len(ctl) : ctl[i].kind = "cmd"
  /\ status = "running" /\ shut =>
       /\ \E p \in 1..Len(ctl) : CutAt(p)
       /\ \A c \in Controllers : handled[c] <= cut[c]

\* Every command accepted by the channel reaches the service, unless the loop
\* ends first.
EveryCommandHandled ==
  \A c \in Controllers : \A n \in 1..MaxCmds :
    (sent[c] >= n) ~> (handled[c] >= n \/ status # "running")

\* A failed wake delays what it was for but loses nothing: as soon as the waker
\* is readable for whatever reason, everything in the channel is handled.
StrandedRecovered ==
  \A c \in Controllers : \A n \in 1..MaxCmds :
    (waker /\ sent[c] >= n) ~> (handled[c] >= n \/ status # "running")

\* Mailbox is what the Controllers are promised: everything accepted before the
\* first shutdown request is delivered, once and in its turn, unless the loop
\* panics.  Without failing wakes, that it happens at last too.
M == INSTANCE Mailbox WITH Senders <- Controllers, accepted <- sent,
                           delivered <- handled, phase <- status

MailboxKept == M!Spec

\* "Shutdown the reactor": once shutdown() has returned Ok the runtime is
\* eventually dropped, and a join() that waits for it returns.
ShutdownTakesEffect ==
  \A c \in Controllers : (caller[c] = "consumed") ~> (status = "gone" /\ launch # "joining")
=============================================================================
