---------------------------- MODULE ControlProofs ----------------------------
(***************************************************************************)
(* Theorems about the control path, for any number of handles and any      *)
(* number of commands.  They need no fairness: ControlSpec implies          *)
(* ControlSafety, and so does the Spec of Reactor (see ReactorProofs).     *)
(***************************************************************************)
EXTENDS Control, SequenceTheorems, TLAPS

\* The step relation preserves the types of all variables.
LEMMA ControlTypeStep ==
  ASSUME ControlTypeOK, [ControlNext]_controlVars
  PROVE  ControlTypeOK'
<1>. USE DEF ControlTypeOK, Launches, Calls, Msg
<1>1. CASE LaunchWake
  BY <1>1 DEF LaunchWake
<1>2. CASE LaunchFails \/ Join \/ JoinReturns
  BY <1>2 DEF LaunchFails, Join, JoinReturns
<1>3. ASSUME NEW c \in Controllers, CmdSend(c)
      PROVE  ControlTypeOK'
  <2>1. Cmd(c, sent[c] + 1) \in Msg
    BY DEF Cmd
  <2>2. ctl' \in Seq(Msg)
    BY <1>3, <2>1 DEF CmdSend, Enqueue
  <2>. QED
    BY <1>3, <2>2 DEF CmdSend
<1>4. ASSUME NEW c \in Controllers, ShutdownSend(c)
      PROVE  ControlTypeOK'
  <2>1. Shutdown(c) \in Msg
    BY DEF Shutdown
  <2>2. ctl' \in Seq(Msg)
    BY <1>4, <2>1 DEF ShutdownSend, Enqueue
  <2>. QED
    BY <1>4, <2>2 DEF ShutdownSend
<1>5. ASSUME NEW c \in Controllers, ShutdownOrphan(c)
      PROVE  ControlTypeOK'
  BY <1>5 DEF ShutdownOrphan
<1>6. ASSUME NEW c \in Controllers, Wake(c)
      PROVE  ControlTypeOK'
  BY <1>6 DEF Wake, Returned
<1>7. ASSUME NEW c \in Controllers, WakeFails(c)
      PROVE  ControlTypeOK'
  BY <1>7 DEF WakeFails, Returned
<1>8. CASE ResetWaker
  BY <1>8 DEF ResetWaker
<1>9. CASE RecvCmd
  <2>1. Head(ctl) \in Msg /\ Tail(ctl) \in Seq(Msg)
    <3>. ctl \in Seq(Msg) /\ ctl # <<>>
      BY <1>9 DEF RecvCmd
    <3>. HIDE DEF Msg
    <3>. QED
      BY HeadTailProperties
  <2>. QED
    BY <1>9, <2>1 DEF RecvCmd, Draining
<1>10. CASE RecvShutdown
  <2>1. Tail(ctl) \in Seq(Msg)
    BY <1>10 DEF RecvShutdown
  <2>. QED
    BY <1>10, <2>1 DEF RecvShutdown, Draining
<1>11. CASE RecvEmpty
  BY <1>11 DEF RecvEmpty, Draining
<1>12. CASE Panic
  BY <1>12 DEF Panic
<1>13. CASE DropReceiver
  BY <1>13 DEF DropReceiver
<1>14. CASE UNCHANGED controlVars
  BY <1>14 DEF controlVars
<1>. QED
  BY <1>1, <1>2, <1>3, <1>4, <1>5, <1>6, <1>7, <1>8, <1>9, <1>10, <1>11,
     <1>12, <1>13, <1>14 DEF ControlNext, Launch, CallerNext, Drain

LEMMA ControlTypeInit == ControlInit => ControlTypeOK
<1>. SUFFICES ASSUME ControlInit PROVE ControlTypeOK
  OBVIOUS
<1>1. ctl \in Seq(Msg)
  BY DEF ControlInit
<1>. QED
  BY <1>1 DEF ControlInit, ControlTypeOK, Calls, Launches

\* The variables of the control path keep their types: in particular nothing
\* is left in the channel once its receiver is gone.
THEOREM ControlTypeCorrect == ControlSafety => []ControlTypeOK
  BY ControlTypeInit, ControlTypeStep, PTL DEF ControlSafety

-----------------------------------------------------------------------------
(* No wake-up is lost.                                                     *)

LEMMA WakeupStep ==
  ASSUME ControlTypeOK, NoLostWakeup, [ControlNext]_controlVars
  PROVE  NoLostWakeup'
<1>. USE DEF NoLostWakeup
<1>1. CASE LaunchWake
  BY <1>1 DEF LaunchWake
<1>2. CASE LaunchFails \/ Join \/ JoinReturns
  BY <1>2 DEF LaunchFails, Join, JoinReturns
<1>3. ASSUME NEW c \in Controllers, CmdSend(c)
      PROVE  NoLostWakeup'
  BY <1>3 DEF CmdSend, ControlTypeOK
<1>4. ASSUME NEW c \in Controllers, ShutdownSend(c)
      PROVE  NoLostWakeup'
  BY <1>4 DEF ShutdownSend, ControlTypeOK
<1>5. ASSUME NEW c \in Controllers, ShutdownOrphan(c)
      PROVE  NoLostWakeup'
  BY <1>5 DEF ShutdownOrphan
<1>6. ASSUME NEW c \in Controllers, Wake(c)
      PROVE  NoLostWakeup'
  BY <1>6 DEF Wake
<1>7. ASSUME NEW c \in Controllers, WakeFails(c)
      PROVE  NoLostWakeup'
  BY <1>7 DEF WakeFails
<1>8. CASE ResetWaker
  BY <1>8 DEF ResetWaker
<1>9. CASE RecvCmd
  BY <1>9 DEF RecvCmd, Draining
<1>10. CASE RecvShutdown
  BY <1>10 DEF RecvShutdown
<1>11. CASE RecvEmpty
  BY <1>11 DEF RecvEmpty
<1>12. CASE Panic
  BY <1>12 DEF Panic
<1>13. CASE DropReceiver
  BY <1>13 DEF DropReceiver
<1>14. CASE UNCHANGED controlVars
  BY <1>14 DEF controlVars
<1>. QED
  BY <1>1, <1>2, <1>3, <1>4, <1>5, <1>6, <1>7, <1>8, <1>9, <1>10, <1>11,
     <1>12, <1>13, <1>14 DEF ControlNext, Launch, CallerNext, Drain

\* While the loop runs and wake() does not fail, a message in the channel is
\* always announced: by the waker, by the iteration that is about to drain, or
\* by the call that is still to signal.
THEOREM WakeupNeverLost == ControlSafety => []NoLostWakeup
<1>1. ControlInit => NoLostWakeup
  BY DEF ControlInit, NoLostWakeup
<1>. QED
  BY <1>1, ControlTypeCorrect, WakeupStep, PTL DEF ControlSafety

-----------------------------------------------------------------------------
(* Commands arrive in order.                                               *)

\* A step that touches the channel or its counters is one of five; any other
\* leaves them alone and does not drop the Runtime.
LEMMA ChannelSteps ==
  ASSUME [ControlNext]_controlVars
  PROVE  \/ /\ UNCHANGED <<ctl, sent, handled, shut, cut>>
            /\ status' = status \/ (status = "running" /\ status' = "panicked")
         \/ \E c \in Controllers : CmdSend(c) \/ ShutdownSend(c)
         \/ RecvCmd
         \/ RecvShutdown
         \/ DropReceiver
<1>1. CASE Launch
  BY <1>1 DEF Launch, LaunchWake, LaunchFails, Join, JoinReturns
<1>2. ASSUME NEW c \in Controllers, ShutdownOrphan(c) \/ Wake(c) \/ WakeFails(c)
      PROVE  UNCHANGED <<ctl, sent, handled, shut, cut, status>>
  BY <1>2 DEF ShutdownOrphan, Wake, WakeFails
<1>3. CASE ResetWaker \/ RecvEmpty \/ Panic
  BY <1>3 DEF ResetWaker, RecvEmpty, Panic
<1>4. CASE UNCHANGED controlVars
  BY <1>4 DEF controlVars
<1>. QED
  BY <1>1, <1>2, <1>3, <1>4 DEF ControlNext, CallerNext, Drain

\* What a send does to the positions of the channel.
LEMMA AppendedQueue ==
  ASSUME ctl \in Seq(Msg), NEW m \in Msg, ctl' = Append(ctl, m)
  PROVE  /\ Len(ctl) \in Nat
         /\ Len(ctl') = Len(ctl) + 1
         /\ \A i \in 1..Len(ctl) : ctl[i] \in Msg /\ ctl'[i] = ctl[i]
         /\ ctl'[Len(ctl) + 1] = m
<1>. HIDE DEF Msg
<1>. QED
  BY AppendProperties, LenProperties, ElementOfSeq

\* What a receive does to them.
LEMMA ReceivedQueue ==
  ASSUME ctl \in Seq(Msg), ctl # <<>>, ctl' = Tail(ctl)
  PROVE  /\ Len(ctl) \in Nat \ {0}
         /\ Len(ctl') = Len(ctl) - 1
         /\ \A i \in 1..Len(ctl) : ctl[i] \in Msg
         /\ \A i \in 1..Len(ctl') : i + 1 \in 1..Len(ctl) /\ ctl'[i] = ctl[i + 1]
         /\ Head(ctl) = ctl[1]
<1>. HIDE DEF Msg
<1>1. Len(ctl) \in Nat \ {0}
  BY EmptySeq, LenProperties
<1>2. Len(ctl') = Len(ctl) - 1 /\ \A i \in 1..Len(ctl') : ctl'[i] = ctl[i + 1]
  BY HeadTailProperties
<1>3. \A i \in 1..Len(ctl) : ctl[i] \in Msg
  BY ElementOfSeq
<1>4. Head(ctl) = ctl[1]
  OBVIOUS
<1>. QED
  BY <1>1, <1>2, <1>3, <1>4

LEMMA InOrderStep ==
  ASSUME ControlTypeOK, QueueInOrder, [ControlNext]_controlVars
  PROVE  QueueInOrder'
<1>. SUFFICES ASSUME NEW d \in Controllers
              PROVE  InOrder(d)'
  BY DEF QueueInOrder
<1>0. /\ InOrder(d)
      /\ ctl \in Seq(Msg)
      /\ sent \in [Controllers -> Nat] /\ handled \in [Controllers -> Nat]
  BY DEF QueueInOrder, ControlTypeOK
<1>. USE DEF InOrder
<1>7. /\ sent[d] \in Nat /\ handled[d] \in Nat
      /\ \A i \in Queued(d) : i \in 1..Len(ctl) /\ ctl[i].n \in Nat /\ i \in Nat
  <2>. \A i \in 1..Len(ctl) : ctl[i] \in Msg /\ i \in Nat
    <3>. HIDE DEF Msg
    <3>. QED
      BY <1>0, ElementOfSeq
  <2>. QED
    BY <1>0 DEF Queued, Msg
<1>1. CASE /\ UNCHANGED <<ctl, sent, handled, shut, cut>>
           /\ status' = status \/ (status = "running" /\ status' = "panicked")
  BY <1>0, <1>1 DEF Queued
<1>2. ASSUME NEW c \in Controllers, CmdSend(c)
      PROVE  InOrder(d)'
  <2>. DEFINE m == Cmd(c, sent[c] + 1)
  <2>1. /\ m \in Msg /\ m.kind = "cmd" /\ m.from = c /\ m.n = sent[c] + 1
        /\ ctl' = Append(ctl, m)
    BY <1>0, <1>2 DEF Cmd, Msg, CmdSend, Enqueue
  <2>. HIDE DEF m
  <2>2. /\ Len(ctl) \in Nat
        /\ Len(ctl') = Len(ctl) + 1
        /\ \A i \in 1..Len(ctl) : ctl[i] \in Msg /\ ctl'[i] = ctl[i]
        /\ ctl'[Len(ctl) + 1] = m
    BY <1>0, <2>1, AppendedQueue
  <2>3. sent' = [sent EXCEPT ![c] = @ + 1] /\ UNCHANGED <<handled, status>>
    BY <1>2 DEF CmdSend
  <2>4. CASE d = c
    <3>1. Queued(d)' = Queued(d) \cup {Len(ctl) + 1}
      BY <2>1, <2>2, <2>4 DEF Queued
    <3>2. sent'[d] = sent[d] + 1 /\ handled'[d] = handled[d]
      BY <1>0, <2>3, <2>4
    <3>3. \A i \in Queued(d) : ctl'[i] = ctl[i] /\ i < Len(ctl) + 1
      BY <1>7, <2>2
    <3>4. handled'[d] <= sent'[d]
      BY <1>0, <1>7, <3>2
    <3>5. \A i \in Queued(d)' : ctl'[i].n > handled'[d] /\ ctl'[i].n <= sent'[d]
      BY <1>0, <1>7, <2>1, <2>2, <2>4, <3>1, <3>2, <3>3
    <3>6. \A i, j \in Queued(d)' : i < j => ctl'[i].n < ctl'[j].n
      BY <1>0, <1>7, <2>1, <2>2, <2>4, <3>1, <3>3
    <3>7. ASSUME status' # "gone", NEW n \in (handled'[d] + 1)..sent'[d]
          PROVE  \E i \in Queued(d)' : ctl'[i].n = n
      <4>1. CASE n = sent[d] + 1
        BY <2>1, <2>2, <2>4, <3>1, <4>1
      <4>2. CASE n # sent[d] + 1
        <5>1. status # "gone" /\ n \in (handled[d] + 1)..sent[d]
          BY <1>7, <2>3, <3>2, <3>7, <4>2
        <5>2. PICK i \in Queued(d) : ctl[i].n = n
          BY <1>0, <5>1
        <5>. QED
          BY <3>1, <3>3, <5>2
      <4>. QED
        BY <4>1, <4>2
    <3>. QED
      BY <3>4, <3>5, <3>6, <3>7
  <2>5. CASE d # c
    <3>1. Queued(d)' = Queued(d)
      BY <2>1, <2>2, <2>5 DEF Queued
    <3>2. sent'[d] = sent[d] /\ handled'[d] = handled[d]
      BY <1>0, <2>3, <2>5
    <3>3. \A i \in Queued(d) : ctl'[i] = ctl[i]
      BY <1>7, <2>2
    <3>. QED
      BY <1>0, <2>3, <3>1, <3>2, <3>3
  <2>. QED
    BY <2>4, <2>5
<1>3. ASSUME NEW c \in Controllers, ShutdownSend(c)
      PROVE  InOrder(d)'
  <2>. DEFINE m == Shutdown(c)
  <2>1. m \in Msg /\ m.kind = "shutdown" /\ ctl' = Append(ctl, m)
    BY <1>0, <1>3 DEF Shutdown, Msg, ShutdownSend, Enqueue
  <2>. HIDE DEF m
  <2>2. /\ Len(ctl) \in Nat
        /\ Len(ctl') = Len(ctl) + 1
        /\ \A i \in 1..Len(ctl) : ctl[i] \in Msg /\ ctl'[i] = ctl[i]
        /\ ctl'[Len(ctl) + 1] = m
    BY <1>0, <2>1, AppendedQueue
  <2>3. Queued(d)' = Queued(d) /\ \A i \in Queued(d) : ctl'[i] = ctl[i]
    BY <1>7, <2>1, <2>2 DEF Queued
  <2>4. UNCHANGED <<sent, handled, status>>
    BY <1>3 DEF ShutdownSend
  <2>. QED
    BY <1>0, <2>3, <2>4
<1>4. CASE RecvCmd
  <2>1. /\ ctl # <<>> /\ ctl' = Tail(ctl) /\ Head(ctl).kind = "cmd"
        /\ handled' = [handled EXCEPT ![Head(ctl).from] = Head(ctl).n]
        /\ UNCHANGED <<sent, status>> /\ status # "gone"
    BY <1>4 DEF RecvCmd, Draining
  <2>2. /\ Len(ctl) \in Nat \ {0}
        /\ Len(ctl') = Len(ctl) - 1
        /\ \A i \in 1..Len(ctl) : ctl[i] \in Msg
        /\ \A i \in 1..Len(ctl') : i + 1 \in 1..Len(ctl) /\ ctl'[i] = ctl[i + 1]
        /\ Head(ctl) = ctl[1]
    BY <1>0, <2>1, ReceivedQueue
  <2>3. \A i \in Queued(d)' : i + 1 \in Queued(d) /\ ctl'[i] = ctl[i + 1] /\ i \in Nat \ {0}
    BY <2>2 DEF Queued
  <2>4. \A i \in Queued(d) : i # 1 => i - 1 \in Queued(d)' /\ ctl'[i - 1] = ctl[i]
    BY <2>2 DEF Queued
  <2>6. CASE d = ctl[1].from
    <3>1. 1 \in Queued(d) /\ handled'[d] = ctl[1].n
      BY <1>0, <2>1, <2>2, <2>6 DEF Queued
    <3>2. handled'[d] \in Nat /\ handled'[d] > handled[d] /\ handled'[d] <= sent[d]
      BY <1>0, <1>7, <3>1
    <3>3. \A i \in Queued(d)' : ctl'[i].n > handled'[d] /\ ctl'[i].n <= sent'[d]
      <4>1. ASSUME NEW i \in Queued(d)'
            PROVE  ctl'[i].n > handled'[d] /\ ctl'[i].n <= sent'[d]
        <5>1. i + 1 \in Queued(d) /\ 1 < i + 1 /\ ctl'[i] = ctl[i + 1]
          BY <1>7, <2>3
        <5>2. ctl[1].n < ctl[i + 1].n /\ ctl[i + 1].n <= sent[d]
          BY <1>0, <3>1, <5>1
        <5>. QED
          BY <1>7, <2>1, <3>1, <5>1, <5>2
      <4>. QED
        BY <4>1
    <3>4. \A i, j \in Queued(d)' : i < j => ctl'[i].n < ctl'[j].n
      <4>1. ASSUME NEW i \in Queued(d)', NEW j \in Queued(d)', i < j
            PROVE  ctl'[i].n < ctl'[j].n
        <5>1. i + 1 \in Queued(d) /\ j + 1 \in Queued(d) /\ i + 1 < j + 1
          BY <2>3, <4>1
        <5>. QED
          BY <1>0, <2>3, <5>1
      <4>. QED
        BY <4>1
    <3>5. ASSUME NEW n \in (handled'[d] + 1)..sent'[d]
          PROVE  \E i \in Queued(d)' : ctl'[i].n = n
      <4>1. n \in (handled[d] + 1)..sent[d] /\ n # ctl[1].n
        BY <1>0, <2>1, <3>1, <3>2
      <4>2. PICK i \in Queued(d) : ctl[i].n = n
        BY <1>0, <2>1, <4>1
      <4>3. i # 1
        BY <4>1, <4>2
      <4>. QED
        BY <2>4, <4>2, <4>3
    <3>. QED
      BY <2>1, <3>2, <3>3, <3>4, <3>5
  <2>7. CASE d # ctl[1].from
    <3>1. handled'[d] = handled[d] /\ 1 \notin Queued(d)
      BY <1>0, <2>1, <2>2, <2>7 DEF Queued
    <3>2. \A i, j \in Queued(d)' : i < j => ctl'[i].n < ctl'[j].n
      <4>1. ASSUME NEW i \in Queued(d)', NEW j \in Queued(d)', i < j
            PROVE  ctl'[i].n < ctl'[j].n
        <5>1. i + 1 \in Queued(d) /\ j + 1 \in Queued(d) /\ i + 1 < j + 1
          BY <2>3, <4>1
        <5>. QED
          BY <1>0, <2>3, <5>1
      <4>. QED
        BY <4>1
    <3>3. ASSUME NEW n \in (handled'[d] + 1)..sent'[d]
          PROVE  \E i \in Queued(d)' : ctl'[i].n = n
      <4>1. PICK i \in Queued(d) : ctl[i].n = n
        BY <1>0, <2>1, <3>1
      <4>. QED
        BY <2>4, <3>1, <4>1
    <3>4. \A i \in Queued(d)' : ctl'[i].n > handled'[d] /\ ctl'[i].n <= sent'[d]
      BY <1>0, <2>1, <2>3, <3>1
    <3>. QED
      BY <1>0, <2>1, <3>1, <3>2, <3>3, <3>4
  <2>. QED
    BY <2>6, <2>7
<1>5. CASE RecvShutdown
  <2>1. /\ ctl # <<>> /\ ctl' = Tail(ctl) /\ Head(ctl).kind = "shutdown"
        /\ UNCHANGED <<sent, handled>> /\ status # "gone" /\ status' # "gone"
    BY <1>5 DEF RecvShutdown, Draining
  <2>2. /\ Len(ctl) \in Nat \ {0}
        /\ Len(ctl') = Len(ctl) - 1
        /\ \A i \in 1..Len(ctl) : ctl[i] \in Msg
        /\ \A i \in 1..Len(ctl') : i + 1 \in 1..Len(ctl) /\ ctl'[i] = ctl[i + 1]
        /\ Head(ctl) = ctl[1]
    BY <1>0, <2>1, ReceivedQueue
  <2>3. \A i \in Queued(d)' : i + 1 \in Queued(d) /\ ctl'[i] = ctl[i + 1] /\ i \in Nat \ {0}
    BY <2>2 DEF Queued
  <2>4. \A i \in Queued(d) : i - 1 \in Queued(d)' /\ ctl'[i - 1] = ctl[i]
    BY <2>1, <2>2 DEF Queued
  <2>5. \A i, j \in Queued(d)' : i < j => ctl'[i].n < ctl'[j].n
    <3>1. ASSUME NEW i \in Queued(d)', NEW j \in Queued(d)', i < j
          PROVE  ctl'[i].n < ctl'[j].n
      <4>1. i + 1 \in Queued(d) /\ j + 1 \in Queued(d) /\ i + 1 < j + 1
        BY <2>3, <3>1
      <4>. QED
        BY <1>0, <2>3, <4>1
    <3>. QED
      BY <3>1
  <2>6. ASSUME NEW n \in (handled'[d] + 1)..sent'[d]
        PROVE  \E i \in Queued(d)' : ctl'[i].n = n
    <3>1. PICK i \in Queued(d) : ctl[i].n = n
      BY <1>0, <2>1
    <3>. QED
      BY <2>4, <3>1
  <2>7. \A i \in Queued(d)' : ctl'[i].n > handled'[d] /\ ctl'[i].n <= sent'[d]
    BY <1>0, <2>1, <2>3
  <2>. QED
    BY <1>0, <2>1, <2>5, <2>6, <2>7
<1>6. CASE DropReceiver
  <2>1. /\ ctl' = <<>> /\ status' = "gone" /\ UNCHANGED <<sent, handled>>
    BY <1>6 DEF DropReceiver
  <2>2. Queued(d)' = {}
    BY <2>1 DEF Queued
  <2>. QED
    BY <1>0, <2>1, <2>2
<1>. QED
  BY <1>1, <1>2, <1>3, <1>4, <1>5, <1>6, ChannelSteps

LEMMA InOrderInit == ControlInit => QueueInOrder
<1>. SUFFICES ASSUME ControlInit, NEW c \in Controllers
              PROVE  InOrder(c)
  BY DEF QueueInOrder
<1>1. handled[c] = 0 /\ sent[c] = 0 /\ Queued(c) = {}
  BY DEF ControlInit, Queued
<1>. QED
  BY <1>1 DEF InOrder

\* The unhandled commands of each handle wait in the channel, in order.
THEOREM QueueStaysInOrder == ControlSafety => []QueueInOrder
  BY InOrderInit, ControlTypeCorrect, InOrderStep, PTL DEF ControlSafety

LEMMA HandledStep ==
  ASSUME ControlTypeOK, QueueInOrder, [ControlNext]_controlVars,
         NEW d \in Controllers, handled'[d] # handled[d]
  PROVE  handled'[d] = handled[d] + 1
<1>1. RecvCmd
  BY ChannelSteps DEF CmdSend, ShutdownSend, RecvShutdown, DropReceiver
<1>2. /\ InOrder(d) /\ ctl \in Seq(Msg)
      /\ sent \in [Controllers -> Nat] /\ handled \in [Controllers -> Nat]
  BY DEF QueueInOrder, ControlTypeOK
<1>3. /\ ctl # <<>> /\ ctl' = Tail(ctl) /\ Head(ctl).kind = "cmd" /\ status # "gone"
      /\ handled' = [handled EXCEPT ![Head(ctl).from] = Head(ctl).n]
  BY <1>1 DEF RecvCmd, Draining
<1>4. /\ Len(ctl) \in Nat \ {0} /\ Head(ctl) = ctl[1]
      /\ \A i \in 1..Len(ctl) : ctl[i] \in Msg /\ i \in Nat \ {0}
  BY <1>2, <1>3, ReceivedQueue
<1>5. \A i \in Queued(d) : ctl[i].n \in Nat /\ i \in Nat \ {0}
  BY <1>4 DEF Queued, Msg
<1>6. 1 \in Queued(d) /\ handled'[d] = ctl[1].n
  BY <1>2, <1>3, <1>4 DEF Queued
<1>7. /\ handled[d] \in Nat /\ sent[d] \in Nat
      /\ ctl[1].n \in Nat /\ ctl[1].n > handled[d] /\ ctl[1].n <= sent[d]
  BY <1>2, <1>5, <1>6 DEF InOrder
<1>8. PICK i \in Queued(d) : ctl[i].n = handled[d] + 1
  <2>. handled[d] + 1 \in (handled[d] + 1)..sent[d]
    BY <1>7
  <2>. QED
    BY <1>2, <1>3 DEF InOrder
<1>9. i = 1 \/ ctl[1].n < ctl[i].n
  BY <1>2, <1>5, <1>6 DEF InOrder
<1>. QED
  BY <1>6, <1>7, <1>8, <1>9

\* Each command a handle has sent reaches the service once and in its turn.
THEOREM CommandsArriveInOrder == ControlSafety => CommandsInOrder
<1>1. ControlTypeOK /\ QueueInOrder /\ [ControlNext]_controlVars
      => [\A c \in Controllers :
            handled'[c] # handled[c] => handled'[c] = handled[c] + 1]_controlVars
  BY HandledStep
<1>. QED
  BY <1>1, ControlTypeCorrect, QueueStaysInOrder, PTL DEF ControlSafety, CommandsInOrder

-----------------------------------------------------------------------------
(* Shutdown is a barrier.                                                  *)

LEMMA CutStep ==
  ASSUME ControlTypeOK, QueueInOrder, QueueIsCut, [ControlNext]_controlVars
  PROVE  QueueIsCut'
<1>0. /\ ctl \in Seq(Msg) /\ shut \in BOOLEAN
      /\ sent \in [Controllers -> Nat] /\ handled \in [Controllers -> Nat]
      /\ cut \in [Controllers -> Nat]
      /\ \A c \in Controllers : handled[c] <= sent[c]
  BY DEF ControlTypeOK, QueueInOrder, InOrder
<1>. USE DEF QueueIsCut, CutAt
<1>1. CASE /\ UNCHANGED <<ctl, sent, handled, shut, cut>>
           /\ status' = status \/ (status = "running" /\ status' = "panicked")
  BY <1>1
<1>2. ASSUME NEW c \in Controllers, CmdSend(c)
      PROVE  QueueIsCut'
  <2>. DEFINE m == Cmd(c, sent[c] + 1)
  <2>1. /\ m \in Msg /\ m.kind = "cmd" /\ m.from = c /\ m.n = sent[c] + 1
        /\ ctl' = Append(ctl, m)
    BY <1>0, <1>2 DEF Cmd, Msg, CmdSend, Enqueue
  <2>. HIDE DEF m
  <2>2. /\ Len(ctl) \in Nat
        /\ Len(ctl') = Len(ctl) + 1
        /\ \A i \in 1..Len(ctl) : ctl[i] \in Msg /\ ctl'[i] = ctl[i]
        /\ ctl'[Len(ctl) + 1] = m
    BY <1>0, <2>1, AppendedQueue
  <2>3. sent' = [sent EXCEPT ![c] = @ + 1] /\ UNCHANGED <<handled, status, shut, cut>>
    BY <1>2 DEF CmdSend
  <2>4. \A d \in Controllers : cut'[d] <= sent'[d]
    BY <1>0, <2>3
  <2>5. ~shut' => \A i \in 1..Len(ctl') : ctl'[i].kind = "cmd"
    BY <2>1, <2>2, <2>3
  <2>6. ASSUME NEW p \in 1..Len(ctl), CutAt(p)
        PROVE  CutAt(p)'
    <3>1. cut[c] \in Nat /\ sent[c] \in Nat /\ m.n > cut[c]
      BY <1>0, <2>1
    <3>. QED
      BY <2>1, <2>2, <2>3, <2>6, <3>1
  <2>. QED
    BY <2>2, <2>3, <2>4, <2>5, <2>6
<1>3. ASSUME NEW c \in Controllers, ShutdownSend(c)
      PROVE  QueueIsCut'
  <2>. DEFINE m == Shutdown(c)
  <2>1. m \in Msg /\ m.kind = "shutdown" /\ ctl' = Append(ctl, m)
    BY <1>0, <1>3 DEF Shutdown, Msg, ShutdownSend, Enqueue
  <2>. HIDE DEF m
  <2>2. /\ Len(ctl) \in Nat
        /\ Len(ctl') = Len(ctl) + 1
        /\ \A i \in 1..Len(ctl) : ctl[i] \in Msg /\ ctl'[i] = ctl[i]
        /\ ctl'[Len(ctl) + 1] = m
    BY <1>0, <2>1, AppendedQueue
  <2>3. /\ shut' = TRUE /\ cut' = IF shut THEN cut ELSE sent
        /\ UNCHANGED <<sent, handled, status>> /\ status # "gone"
    BY <1>3 DEF ShutdownSend
  <2>4. CASE shut
    <3>1. ASSUME NEW p \in 1..Len(ctl), CutAt(p)
          PROVE  CutAt(p)'
      BY <2>1, <2>2, <2>3, <2>4, <3>1
    <3>. QED
      BY <2>2, <2>3, <2>4, <3>1
  <2>5. CASE ~shut
    <3>1. ASSUME NEW i \in 1..Len(ctl)
          PROVE  ctl[i].kind = "cmd" /\ ctl[i].n <= sent[ctl[i].from]
      <4>1. ctl[i].kind = "cmd" /\ ctl[i] \in Msg
        BY <2>2, <2>5
      <4>. QED
        BY <4>1 DEF QueueInOrder, InOrder, Queued, Msg
    <3>2. PICK p \in 1..Len(ctl') : p = Len(ctl) + 1
      BY <2>2
    <3>3. \A i \in 1..(p - 1) : ctl'[i].kind = "cmd" /\ ctl'[i].n <= cut'[ctl'[i].from]
      BY <2>2, <2>3, <2>5, <3>1, <3>2
    <3>4. ctl'[p].kind = "shutdown" /\ \A i \in (p + 1)..Len(ctl') : FALSE
      BY <2>1, <2>2, <3>2
    <3>5. CutAt(p)'
      BY <3>3, <3>4
    <3>6. \A d \in Controllers : cut'[d] <= sent'[d] /\ handled'[d] <= cut'[d]
      BY <1>0, <2>3, <2>5
    <3>. QED
      BY <2>3, <3>5, <3>6
  <2>. QED
    BY <1>0, <2>4, <2>5
<1>4. CASE RecvCmd
  <2>1. /\ ctl # <<>> /\ ctl' = Tail(ctl) /\ Head(ctl).kind = "cmd"
        /\ handled' = [handled EXCEPT ![Head(ctl).from] = Head(ctl).n]
        /\ UNCHANGED <<sent, status, shut, cut>>
    BY <1>4 DEF RecvCmd
  <2>2. /\ Len(ctl) \in Nat \ {0}
        /\ Len(ctl') = Len(ctl) - 1
        /\ \A i \in 1..Len(ctl) : ctl[i] \in Msg
        /\ \A i \in 1..Len(ctl') : i + 1 \in 1..Len(ctl) /\ ctl'[i] = ctl[i + 1]
        /\ Head(ctl) = ctl[1]
    BY <1>0, <2>1, ReceivedQueue
  <2>3. ~shut' => \A i \in 1..Len(ctl') : ctl'[i].kind = "cmd"
    BY <2>1, <2>2
  <2>4. ASSUME NEW p \in 1..Len(ctl), CutAt(p)
        PROVE  /\ p - 1 \in 1..Len(ctl') /\ CutAt(p - 1)'
               /\ ctl[1].n <= cut[ctl[1].from]
    <3>1. p # 1 /\ p \in Nat
      BY <2>1, <2>2, <2>4
    <3>2. ctl[1].n <= cut[ctl[1].from]
      BY <2>2, <2>4, <3>1
    <3>3. ctl'[p - 1] = ctl[p] /\ p - 1 \in 1..Len(ctl')
      BY <2>2, <3>1
    <3>4. \A i \in 1..(p - 2) : i + 1 \in 1..(p - 1) /\ ctl'[i] = ctl[i + 1]
      BY <2>2, <3>1
    <3>5. \A i \in p..Len(ctl') : i + 1 \in (p + 1)..Len(ctl) /\ ctl'[i] = ctl[i + 1]
      BY <2>2, <3>1
    <3>6. \A i \in 1..((p - 1) - 1) : i \in 1..(p - 2)
      BY <3>1
    <3>7. \A i \in ((p - 1) + 1)..Len(ctl') : i \in p..Len(ctl')
      BY <3>1
    <3>8. \A i \in 1..((p - 1) - 1) : ctl'[i].kind = "cmd" /\ ctl'[i].n <= cut'[ctl'[i].from]
      BY <2>1, <2>4, <3>4, <3>6
    <3>9. \A i \in ((p - 1) + 1)..Len(ctl') :
            ctl'[i].kind = "cmd" => ctl'[i].n > cut'[ctl'[i].from]
      BY <2>1, <2>4, <3>5, <3>7
    <3>. QED
      BY <2>4, <3>2, <3>3, <3>8, <3>9
  <2>. QED
    BY <1>0, <2>1, <2>2, <2>3, <2>4
<1>5. CASE RecvShutdown
  <2>1. /\ ctl # <<>> /\ ctl' = Tail(ctl) /\ Head(ctl).kind = "shutdown"
        /\ UNCHANGED <<sent, shut, cut>> /\ status' = "shutdown"
    BY <1>5 DEF RecvShutdown
  <2>2. \A i \in 1..Len(ctl') : i + 1 \in 1..Len(ctl) /\ ctl'[i] = ctl[i + 1]
    BY <1>0, <2>1, ReceivedQueue
  <2>. QED
    BY <2>1, <2>2
<1>6. CASE DropReceiver
  BY <1>6 DEF DropReceiver
<1>. QED
  BY <1>1, <1>2, <1>3, <1>4, <1>5, <1>6, ChannelSteps

LEMMA BarrierStep ==
  ASSUME ControlTypeOK, QueueInOrder, QueueIsCut, ShutdownIsBarrier,
         [ControlNext]_controlVars
  PROVE  ShutdownIsBarrier'
<1>. USE DEF ShutdownIsBarrier
<1>1. CASE /\ UNCHANGED <<ctl, sent, handled, shut, cut>>
           /\ status' = status \/ (status = "running" /\ status' = "panicked")
  BY <1>1
<1>2. ASSUME NEW c \in Controllers, CmdSend(c) \/ ShutdownSend(c)
      PROVE  ShutdownIsBarrier'
  BY <1>2 DEF CmdSend, ShutdownSend
<1>3. CASE RecvCmd
  BY <1>3 DEF RecvCmd, Draining
<1>4. CASE RecvShutdown
  <2>1. /\ ctl \in Seq(Msg) /\ ctl # <<>> /\ ctl' = Tail(ctl)
        /\ Head(ctl).kind = "shutdown" /\ status = "running"
        /\ UNCHANGED <<handled, shut, cut>>
    BY <1>4 DEF RecvShutdown, Draining, ControlTypeOK
  <2>2. /\ Len(ctl) \in Nat \ {0} /\ Head(ctl) = ctl[1]
        /\ \A i \in 1..Len(ctl) : ctl[i] \in Msg /\ i \in Nat
    BY <2>1, ReceivedQueue
  <2>3. shut
    BY <2>1, <2>2 DEF QueueIsCut
  <2>4. PICK p \in 1..Len(ctl) : CutAt(p)
    BY <2>1, <2>3 DEF QueueIsCut
  <2>5. p = 1
    BY <2>1, <2>2, <2>4 DEF CutAt
  <2>6. ASSUME NEW d \in Controllers
        PROVE  handled[d] = cut[d]
    <3>1. /\ handled[d] \in Nat /\ cut[d] \in Nat /\ sent[d] \in Nat
          /\ handled[d] <= cut[d] /\ cut[d] <= sent[d]
      BY <2>1, <2>3 DEF QueueIsCut, ControlTypeOK
    <3>2. SUFFICES ASSUME handled[d] < cut[d] PROVE FALSE
      BY <3>1
    <3>3. cut[d] \in (handled[d] + 1)..sent[d]
      BY <3>1, <3>2
    <3>4. PICK i \in Queued(d) : ctl[i].n = cut[d]
      BY <2>1, <3>3 DEF QueueInOrder, InOrder
    <3>5. i \in (p + 1)..Len(ctl) /\ ctl[i].kind = "cmd" /\ ctl[i].from = d
      BY <2>1, <2>2, <2>5 DEF Queued
    <3>. QED
      BY <2>4, <3>1, <3>4, <3>5 DEF CutAt
  <2>7. handled = cut
    BY <2>6 DEF ControlTypeOK
  <2>. QED
    BY <2>1, <2>3, <2>7
<1>5. CASE DropReceiver
  BY <1>5 DEF DropReceiver
<1>. QED
  BY <1>1, <1>2, <1>3, <1>4, <1>5, ChannelSteps

LEMMA BarrierInit == ControlInit => QueueIsCut /\ ShutdownIsBarrier
  BY DEF ControlInit, QueueIsCut, ShutdownIsBarrier

\* The first Shutdown parts the channel until it is received.
THEOREM QueueStaysCut == ControlSafety => []QueueIsCut
  BY BarrierInit, ControlTypeCorrect, QueueStaysInOrder, CutStep, PTL DEF ControlSafety

\* When run() returns because of a Shutdown, the service has got exactly the
\* commands that entered the channel before the first one.
THEOREM ShutdownParts == ControlSafety => []ShutdownIsBarrier
  BY BarrierInit, ControlTypeCorrect, QueueStaysInOrder, QueueStaysCut, BarrierStep,
     PTL DEF ControlSafety

-----------------------------------------------------------------------------
(* The control path keeps what Mailbox promises.                           *)

\* A command received is a delivery: the next of its sender, and none behind the
\* line, because the queue is in order and parted after the step too.
LEMMA ReceiptDelivers ==
  ASSUME ControlTypeOK, QueueInOrder, RecvCmd, QueueInOrder', QueueIsCut'
  PROVE  \E c \in Controllers : M!Deliver(c)
<1>1. /\ ctl \in Seq(Msg) /\ ctl # <<>> /\ status = "running"
      /\ handled' = [handled EXCEPT ![Head(ctl).from] = Head(ctl).n]
      /\ UNCHANGED <<sent, status, shut, cut>>
      /\ handled \in [Controllers -> Nat] /\ sent \in [Controllers -> Nat]
      /\ cut \in [Controllers -> Nat]
  BY DEF RecvCmd, Draining, ControlTypeOK
<1>2. PICK c \in Controllers : c = Head(ctl).from
  BY <1>1, ReceivedQueue DEF RecvCmd, Msg
<1>3. Head(ctl).n = handled[c] + 1
  <2>1. /\ 1 \in Queued(c) /\ ctl[1] = Head(ctl) /\ ctl[1] \in Msg
        /\ \A i \in Queued(c) : i \in Nat \ {0} /\ ctl[i] \in Msg
    BY <1>1, <1>2, ReceivedQueue DEF RecvCmd, Queued
  <2>2. handled'[c] # handled[c]
    BY <1>1, <1>2, <2>1 DEF QueueInOrder, InOrder, Msg
  <2>3. handled'[c] = handled[c] + 1
    BY <2>2, HandledStep DEF ControlNext, Drain
  <2>. QED
    BY <1>1, <1>2, <2>3
<1>4. handled' = [handled EXCEPT ![c] = @ + 1]
  BY <1>1, <1>2, <1>3
<1>5. handled[c] < (IF shut THEN cut ELSE sent)[c]
  <2>1. handled'[c] = handled[c] + 1 /\ handled[c] \in Nat
    BY <1>1, <1>4
  <2>2. handled'[c] <= sent'[c] /\ (shut' => handled'[c] <= cut'[c])
    BY <1>1 DEF QueueInOrder, InOrder, QueueIsCut
  <2>3. CASE shut
    BY <1>1, <2>1, <2>2, <2>3
  <2>4. CASE ~shut
    BY <1>1, <2>1, <2>2, <2>4
  <2>. QED
    BY <2>3, <2>4
<1>. QED
  BY <1>1, <1>4, <1>5, Zenon DEF M!Deliver

LEMMA MailboxStep ==
  ASSUME ControlTypeOK, QueueInOrder, [ControlNext]_controlVars,
         QueueInOrder', QueueIsCut', ShutdownIsBarrier'
  PROVE  [M!Next]_(M!mailVars)
<1>1. CASE /\ UNCHANGED <<ctl, sent, handled, shut, cut>>
           /\ status' = status \/ (status = "running" /\ status' = "panicked")
  <2>1. CASE status' = status
    BY <1>1, <2>1, Zenon DEF M!mailVars
  <2>2. CASE status' # status
    BY <1>1, <2>2, Zenon DEF M!Next, M!Fail
  <2>. QED
    BY <2>1, <2>2
<1>2. ASSUME NEW c \in Controllers, CmdSend(c)
      PROVE  M!Accept(c)
  BY <1>2, Zenon DEF CmdSend, M!Accept
<1>3. ASSUME NEW c \in Controllers, ShutdownSend(c)
      PROVE  [M!Next]_(M!mailVars)
  <2>1. CASE shut
    <3>1. shut' = shut /\ cut' = cut
      BY <1>3, <2>1 DEF ShutdownSend, ControlTypeOK
    <3>. QED
      BY <1>3, <3>1, Zenon DEF ShutdownSend, M!mailVars
  <2>2. CASE ~shut
    <3>1. cut' = sent
      BY <1>3, <2>2, Zenon DEF ShutdownSend
    <3>. QED
      BY <1>3, <2>2, <3>1, Zenon DEF ShutdownSend, M!Next, M!Close
  <2>. QED
    BY <2>1, <2>2
<1>4. CASE RecvCmd
  BY <1>4, ReceiptDelivers, Zenon DEF M!Next
<1>5. CASE RecvShutdown
  <2>1. shut /\ handled = cut
    BY <1>5 DEF RecvShutdown, ShutdownIsBarrier
  <2>. QED
    BY <1>5, <2>1, Zenon DEF RecvShutdown, Draining, M!Next, M!Finish
<1>6. CASE DropReceiver
  BY <1>6, Zenon DEF DropReceiver, M!Next, M!Leave
<1>. QED
  BY <1>1, <1>2, <1>3, <1>4, <1>5, <1>6, ChannelSteps, Zenon DEF M!Next

\* The channel, the waker and the drain loop together keep the promise to the
\* Controllers (its safety part).
THEOREM ControlImplementsMailbox == ControlSafety => M!Safety
<1>1. ControlInit => M!Init
  BY Zenon DEF ControlInit, M!Init
<1>. QED
  BY <1>1, ControlTypeCorrect, QueueStaysInOrder, QueueStaysCut, ShutdownParts, MailboxStep,
     PTL DEF ControlSafety, M!Safety

=============================================================================
