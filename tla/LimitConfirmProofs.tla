-------------------------- MODULE LimitConfirmProofs --------------------------
(***************************************************************************)
(* Proofs about LimitConfirm for every set of workers, every configuration, *)
(* every loss and every number of retries, refreshes and reboots.           *)
(***************************************************************************)
EXTENDS LimitConfirm, SequenceTheorems, TLAPS

\* A worker about to transmit has a transmission left.
SendRoom == \A w \in Workers : /\ pc[w] \in {"begin", "done"} => sends[w] = 0
                               /\ pc[w] = "send" => sends[w] < MaxSends

Typed == TypeOK /\ SendRoom

-----------------------------------------------------------------------------
(* Type correctness *)

LEMMA SetFrameTyped ==
  ASSUME NEW w \in Workers, NEW l \in Lims, NEW s \in Nat \cup {NoSeq}
  PROVE  SetFrame(w, l, s) \in Frame
BY LimitsAssumption DEF SetFrame, Frame, Limits

LEMMA CarriedTyped ==
  ASSUME NEW S, NEW q \in Seq(S), NEW f \in S, NEW r \in Carried(q, f)
  PROVE  r \in Seq(S)
BY DEF Carried

LEMMA OrderTyped == Order[1] \in Lims /\ Order[2] \in Lims
BY DEF Order, Lims

LEMMA SetLimitTyped ==
  ASSUME NEW l \in Limits, NEW which \in Lims, NEW x \in Int
  PROVE  SetLimit(l, which, x) \in Limits
BY LimitsAssumption DEF SetLimit, Limits, Lims, Constrain

LEMMA TypedInit == Init => Typed
<1> SUFFICES ASSUME Init PROVE Typed OBVIOUS
<1>1. DefaultLimits \in Limits
  BY LimitsAssumption DEF DefaultLimits, Limits, Lims
<1>2. node \in [Slots -> Limits] BY <1>1, LimitsAssumption DEF Init
<1> QED BY <1>2, OrderTyped, LimitsAssumption DEF Init, Typed, TypeOK, SendRoom

LEMMA TypedBegin ==
  ASSUME Typed, NEW w \in Workers, Begin(w)
  PROVE  Typed'
<1>1. CtrlOf[w] \in Controllers BY DEF Controllers
<1>2. next[CtrlOf[w]] + 1 \in Nat BY <1>1 DEF Typed, TypeOK
<1>3. SendRoom' BY LimitsAssumption DEF Begin, Typed, TypeOK, SendRoom
<1> QED BY <1>1, <1>2, <1>3
        DEF Begin, Typed, TypeOK, NextSeq, linkVars, boundVars

LEMMA TypedSend ==
  ASSUME Typed, NEW w \in Workers, Send(w)
  PROVE  Typed'
<1>1. toNode' \in Seq(Frame)
  BY SetFrameTyped, CarriedTyped DEF Send, Typed, TypeOK
<1>2. sends[w] < MaxSends /\ sends[w] \in 0..MaxSends
  BY DEF Send, Typed, TypeOK, SendRoom
<1>3. sends' \in [Workers -> 0..MaxSends]
  BY <1>2, LimitsAssumption DEF Send, Typed, TypeOK
<1>4. SendRoom' BY DEF Send, Typed, TypeOK, SendRoom
<1> QED BY <1>1, <1>3, <1>4 DEF Send, Typed, TypeOK, boundVars

LEMMA TypedConclude ==
  ASSUME Typed, NEW w \in Workers, NEW ok \in BOOLEAN, Conclude(w, ok)
  PROVE  Typed'
<1>1. SendRoom' BY LimitsAssumption DEF Conclude, Typed, TypeOK, SendRoom
<1>2. result' \in [Workers -> SUBSET Lims] BY DEF Conclude, Typed, TypeOK
<1>3. sends' \in [Workers -> 0..MaxSends] BY LimitsAssumption DEF Conclude, Typed, TypeOK
<1> QED BY <1>1, <1>2, <1>3, OrderTyped
        DEF Conclude, Typed, TypeOK, linkVars, boundVars

LEMMA TypedResend ==
  ASSUME Typed, NEW w \in Workers, Resend(w)
  PROVE  Typed'
BY DEF Resend, MayResend, Typed, TypeOK, SendRoom, linkVars, boundVars

LEMMA TypedPush ==
  ASSUME Typed, NEW w \in Workers, PushFirst(w) \/ PushSecond(w)
  PROVE  Typed'
<1>1. /\ SetFrame(w, Order[1], NoSeq) \in Frame
      /\ SetFrame(w, Order[2], NoSeq) \in Frame
  BY SetFrameTyped, OrderTyped
<1>2. toNode' \in Seq(Frame)
  BY <1>1, CarriedTyped DEF PushFirst, PushSecond, Typed, TypeOK
<1>3. owed' \subseteq Workers /\ pushes' \in 0..MaxPushes
  BY SMTT(20), LimitsAssumption DEF PushFirst, PushSecond, Typed, TypeOK
<1> QED BY <1>2, <1>3 DEF PushFirst, PushSecond, Typed, TypeOK, SendRoom, confirmVars

LEMMA TypedPcReceive ==
  ASSUME Typed, PcReceive
  PROVE  Typed'
<1>1. toPc' \in Seq(Ack) BY DEF PcReceive, Typed, TypeOK
<1>2. event' \in [Workers -> {"none", "ok", "nack"}]
  BY DEF PcReceive, Typed, TypeOK
<1> QED BY <1>1, <1>2 DEF PcReceive, Typed, TypeOK, SendRoom, boundVars

LEMMA TypedNodeReceive ==
  ASSUME Typed, NodeReceive
  PROVE  Typed'
<1> DEFINE f == Head(toNode)
<1>1. f \in Frame /\ toNode' \in Seq(Frame) BY DEF NodeReceive, Typed, TypeOK
<1>2. /\ f.lim \in Lims /\ f.val \in Int /\ f.by \in Workers
      /\ f.seq \in Nat \cup {NoSeq}
  BY <1>1 DEF Frame
<1>3. node' \in [Slots -> Limits]
  BY <1>2, SetLimitTyped DEF NodeReceive, Typed, TypeOK
<1>4. toPc' \in Seq(Ack)
  <2>1. CASE f.seq = NoSeq BY <2>1 DEF NodeReceive, Typed, TypeOK
  <2>2. CASE f.seq # NoSeq
    <3>1. [seq |-> f.seq, ok |-> Good(f)] \in Ack BY <1>2, <2>2 DEF Ack, Good
    <3> QED BY <2>2, <3>1, CarriedTyped DEF NodeReceive, Typed, TypeOK
  <2> QED BY <2>1, <2>2
<1>5. applied' \subseteq Tags BY <1>2 DEF NodeReceive, Typed, TypeOK, Tags
<1> QED BY <1>1, <1>3, <1>4, <1>5
        DEF NodeReceive, Typed, TypeOK, SendRoom, confirmVars, boundVars

LEMMA TypedReboot ==
  ASSUME Typed, Reboot
  PROVE  Typed'
<1>1. DefaultLimits \in Limits
  BY LimitsAssumption DEF DefaultLimits, Limits, Lims
<1>2. node' \in [Slots -> Limits] /\ reboots' \in 0..MaxReboots
  BY <1>1, LimitsAssumption DEF Reboot, Typed, TypeOK
<1> QED BY <1>2 DEF Reboot, Typed, TypeOK, SendRoom, confirmVars, linkVars

LEMMA TypedNext ==
  ASSUME Typed, [Next]_vars
  PROVE  Typed'
<1>1. ASSUME NEW w \in Workers, Worker(w) PROVE Typed'
  <2>1. Answered(w) \/ GiveUp(w) => \E ok \in BOOLEAN : Conclude(w, ok)
    BY DEF Answered, GiveUp
  <2> QED BY <1>1, <2>1, TypedBegin, TypedSend, TypedConclude, TypedResend
          DEF Worker
<1>2. ASSUME NEW w \in Workers, PushFirst(w) \/ PushSecond(w) PROVE Typed'
  BY <1>2, TypedPush
<1>3. CASE PcReceive BY <1>3, TypedPcReceive
<1>4. CASE NodeReceive BY <1>4, TypedNodeReceive
<1>5. CASE Reboot BY <1>5, TypedReboot
<1>6. CASE UNCHANGED vars
  BY <1>6 DEF vars, confirmVars, linkVars, boundVars, Typed, TypeOK, SendRoom
<1> QED BY <1>1, <1>2, <1>3, <1>4, <1>5, <1>6 DEF Next

\* No program counter, sequence number, retry count or frame leaves its type,
\* and no worker transmits more than MaxSends times.
THEOREM TypeCorrect == Spec => []TypeOK
<1>1. Typed => TypeOK BY DEF Typed
<1> QED BY <1>1, TypedInit, TypedNext, PTL DEF Spec

-----------------------------------------------------------------------------
(* The clamps keep the limits sane *)

LEMMA SaneSet ==
  ASSUME NEW l \in Limits, Sane(l), NEW which \in Lims, NEW x \in Int
  PROVE  Sane(SetLimit(l, which, x))
<1>1. l.max \in Int /\ l.min \in Int BY DEF Limits, Lims
<1>2. CASE which = "max"
  <2>1. SetLimit(l, which, x).max = Constrain(x, l.min + Eps, HardMax)
        /\ SetLimit(l, which, x).min = l.min
    BY <1>2 DEF SetLimit, Limits, Lims
  <2> QED BY <1>1, <2>1, LimitsAssumption DEF Sane, Constrain
<1>3. CASE which = "min"
  <2>1. SetLimit(l, which, x).min = Constrain(x, HardMin, l.max - Eps)
        /\ SetLimit(l, which, x).max = l.max
    BY <1>3 DEF SetLimit, Limits, Lims
  <2> QED BY <1>1, <2>1, LimitsAssumption DEF Sane, Constrain
<1> QED BY <1>2, <1>3 DEF Lims

LEMMA SaneNext ==
  ASSUME Typed, LimitsSane, [Next]_vars
  PROVE  LimitsSane'
<1>1. CASE NodeReceive
  <2> DEFINE f == Head(toNode)
  <2>1. f \in Frame BY <1>1 DEF NodeReceive, Typed, TypeOK
  <2>2. f.lim \in Lims /\ f.val \in Int BY <2>1 DEF Frame
  <2>3. ASSUME NEW c \in Slots PROVE Sane(node'[c])
    <3>1. node[c] \in Limits /\ Sane(node[c])
      BY <2>3 DEF Typed, TypeOK, LimitsSane
    <3>2. node'[c] = node[c] \/ node'[c] = SetLimit(node[c], f.lim, f.val)
      BY <1>1, <2>3 DEF NodeReceive, Typed, TypeOK
    <3> QED BY <2>2, <3>1, <3>2, SaneSet
  <2> QED BY <2>3 DEF LimitsSane
<1>2. CASE Reboot BY <1>2, LimitsAssumption DEF Reboot, LimitsSane
<1>3. CASE UNCHANGED node BY <1>3 DEF LimitsSane
<1>4. (\E w \in Workers : Worker(w) \/ PushFirst(w) \/ PushSecond(w)) \/ PcReceive
        \/ UNCHANGED vars => UNCHANGED node
  BY DEF Worker, Begin, Send, Answered, Conclude, Resend, GiveUp, PushFirst,
         PushSecond, PcReceive, vars
<1> QED BY <1>1, <1>2, <1>3, <1>4 DEF Next

\* Whatever is pushed, in whatever order, over whatever an earlier owner left,
\* no chamber's limits cross or leave the hard limits (commands.h, the
\* constrain of CMD_SET_MAX and CMD_SET_MIN).
THEOREM SaneCorrect == Spec => []LimitsSane
<1>1. Init => LimitsSane BY LimitsAssumption DEF Init, LimitsSane
<1>2. Typed /\ LimitsSane /\ [Next]_vars => Typed' /\ LimitsSane'
  BY TypedNext, SaneNext
<1> QED BY <1>1, <1>2, TypedInit, PTL DEF Spec

-----------------------------------------------------------------------------
(* With one confirmer for the node, an ack means applied *)

OneConfirmer == \A v, w \in Workers : CtrlOf[v] = CtrlOf[w]

OnLink(q) == {q[i] : i \in 1..Len(q)}
Active(w) == pc[w] \in {"send", "wait"}

\* A sequence number in use, here or on the link, was allocated; while a
\* confirmation is active its number belongs to it alone.
Allocated ==
  \A w \in Workers : /\ seq[w] <= next[CtrlOf[w]]
                     /\ \A f \in OnLink(toNode) : f.seq <= next[CtrlOf[w]]
                     /\ \A a \in OnLink(toPc) : a.seq <= next[CtrlOf[w]]
Distinct ==
  \A v, w \in Workers : Active(v) /\ Active(w) /\ v # w => seq[v] # seq[w]
FramesOwned ==
  \A w \in Workers : Active(w) =>
    \A f \in OnLink(toNode) : f.seq = seq[w] => f.by = w /\ f.lim = lim[w]
AcksTrue ==
  \A w \in Workers : Active(w) =>
    \A a \in OnLink(toPc) :
      a.seq = seq[w] /\ a.ok => [by |-> w, lim |-> lim[w]] \in applied
Quiet == \A w \in Workers : ~Active(w) => event[w] = "none"

SeqOwned == Allocated /\ Distinct /\ FramesOwned /\ AcksTrue /\ Quiet
AckInv == SeqOwned /\ AckMeansApplied

LEMMA OnLinkIn ==
  ASSUME NEW S, NEW q \in Seq(S)
  PROVE  OnLink(q) \subseteq S
BY DEF OnLink

LEMMA OnLinkCarried ==
  ASSUME NEW S, NEW q \in Seq(S), NEW f \in S, NEW r \in Carried(q, f)
  PROVE  OnLink(r) \subseteq OnLink(q) \cup {f}
<1>1. CASE r = q BY <1>1
<1>2. CASE r = Append(q, f)
  <2>1. Len(r) = Len(q) + 1 /\ Len(q) \in Nat BY <1>2
  <2>2. ASSUME NEW i \in 1..Len(r) PROVE r[i] \in OnLink(q) \cup {f}
    BY <1>2, <2>1, <2>2 DEF OnLink
  <2> QED BY <2>2 DEF OnLink
<1> QED BY <1>1, <1>2 DEF Carried

LEMMA OnLinkTail ==
  ASSUME NEW S, NEW q \in Seq(S), q # <<>>
  PROVE  OnLink(Tail(q)) \subseteq OnLink(q) /\ Head(q) \in OnLink(q)
<1>1. Len(q) \in Nat \ {0} /\ Len(Tail(q)) = Len(q) - 1 /\ Head(q) = q[1] OBVIOUS
<1>2. ASSUME NEW i \in 1..Len(Tail(q)) PROVE Tail(q)[i] = q[i + 1] /\ i + 1 \in 1..Len(q)
  BY <1>1
<1> QED BY <1>1, <1>2 DEF OnLink

LEMMA AckInit == Init => AckInv
<1> SUFFICES ASSUME Init PROVE AckInv OBVIOUS
<1>1. OnLink(toNode) = {} /\ OnLink(toPc) = {} BY DEF Init, OnLink
<1>2. \A w \in Workers : CtrlOf[w] \in Controllers BY DEF Controllers
<1> QED BY <1>1, <1>2 DEF Init, AckInv, SeqOwned, Allocated, Distinct, FramesOwned,
           AcksTrue, Quiet, Active, AckMeansApplied

\* A new number is above every number ever sent, so it is the worker's own.
LEMMA AckBegin ==
  ASSUME OneConfirmer, Typed, AckInv, NEW w \in Workers, Begin(w)
  PROVE  AckInv'
<1> DEFINE s == next[CtrlOf[w]] + 1
<1>1. \A v \in Workers : CtrlOf[v] = CtrlOf[w] /\ CtrlOf[v] \in Controllers
  BY DEF OneConfirmer, Controllers
<1>2. next[CtrlOf[w]] \in Nat BY <1>1 DEF Typed, TypeOK
<1>3. /\ \A v \in Workers : next'[CtrlOf[v]] = s
      /\ seq' = [seq EXCEPT ![w] = s] /\ pc' = [pc EXCEPT ![w] = "send"]
      /\ UNCHANGED <<lim, event, toNode, toPc, applied>>
  BY <1>1 DEF Begin, NextSeq, linkVars, Typed, TypeOK
<1>0. OnLink(toNode) \subseteq Frame /\ OnLink(toPc) \subseteq Ack
  BY OnLinkIn DEF Typed, TypeOK
<1>4. /\ \A f \in OnLink(toNode) : f.seq <= next[CtrlOf[w]] /\ f.seq \in Int
      /\ \A a \in OnLink(toPc) : a.seq <= next[CtrlOf[w]] /\ a.seq \in Int
      /\ \A v \in Workers : seq[v] <= next[CtrlOf[w]] /\ seq[v] \in Int
  <2>1. \A f \in Frame : f.seq \in Int BY DEF Frame, NoSeq
  <2>2. \A a \in Ack : a.seq \in Int BY DEF Ack
  <2>3. \A v \in Workers : seq[v] \in Int BY DEF Typed, TypeOK
  <2>4. Allocated BY DEF AckInv, SeqOwned
  <2> QED BY <1>0, <1>1, <2>1, <2>2, <2>3, <2>4 DEF Allocated
<1>5. /\ \A f \in OnLink(toNode) : f.seq <= s /\ f.seq # s
      /\ \A a \in OnLink(toPc) : a.seq <= s /\ a.seq # s
      /\ \A v \in Workers : seq[v] <= s /\ seq[v] # s
  BY <1>2, <1>4
<1>6. /\ OnLink(toNode)' = OnLink(toNode) /\ OnLink(toPc)' = OnLink(toPc)
  BY <1>3 DEF OnLink
<1>7. /\ seq'[w] = s /\ \A v \in Workers \ {w} : seq'[v] = seq[v]
      /\ \A v \in Workers \ {w} : Active(v)' = Active(v)
      /\ Active(w)' /\ ~Active(w)
  BY <1>3 DEF Typed, TypeOK, Active, Begin
<1>8. SeqOwned'
  <2>1. Allocated' BY <1>2, <1>3, <1>5, <1>6, <1>7 DEF AckInv, SeqOwned, Allocated
  <2>2. Distinct' BY <1>2, <1>3, <1>5, <1>6, <1>7 DEF AckInv, SeqOwned, Distinct
  <2>3. FramesOwned' BY <1>2, <1>3, <1>5, <1>6, <1>7 DEF AckInv, SeqOwned, FramesOwned
  <2>4. AcksTrue' BY <1>2, <1>3, <1>5, <1>6, <1>7 DEF AckInv, SeqOwned, AcksTrue
  <2>5. Quiet' BY <1>2, <1>3, <1>5, <1>6, <1>7 DEF AckInv, SeqOwned, Quiet
  <2> QED BY <2>1, <2>2, <2>3, <2>4, <2>5 DEF SeqOwned
<1>9. AckMeansApplied'
  BY <1>3, <1>7 DEF AckInv, SeqOwned, Quiet, AckMeansApplied, Active
<1> QED BY <1>8, <1>9 DEF AckInv

LEMMA AckSend ==
  ASSUME OneConfirmer, Typed, AckInv, NEW w \in Workers, Send(w)
  PROVE  AckInv'
<1> DEFINE f == SetFrame(w, lim[w], seq[w])
<1>1. f \in Frame BY SetFrameTyped DEF Typed, TypeOK
<1>2. OnLink(toNode') \subseteq OnLink(toNode) \cup {f}
  BY <1>1, OnLinkCarried DEF Send, Typed, TypeOK
<1>3. f.by = w /\ f.lim = lim[w] /\ f.seq = seq[w] BY DEF SetFrame
<1>4. /\ Active(w) /\ \A v \in Workers : Active(v)' = Active(v)
      /\ UNCHANGED <<lim, seq, event, next, toPc, applied>>
  BY DEF Send, Active, Typed, TypeOK
<1>5. \A v \in Workers : CtrlOf[v] = CtrlOf[w] BY DEF OneConfirmer
<1>6. SeqOwned'
  <2>1. Allocated' BY <1>2, <1>3, <1>4, <1>5 DEF AckInv, SeqOwned, Allocated
  <2>2. Distinct' BY <1>2, <1>3, <1>4, <1>5 DEF AckInv, SeqOwned, Distinct
  <2>3. FramesOwned' BY <1>2, <1>3, <1>4, <1>5 DEF AckInv, SeqOwned, Distinct, FramesOwned
  <2>4. AcksTrue' BY <1>2, <1>3, <1>4, <1>5 DEF AckInv, SeqOwned, AcksTrue
  <2>5. Quiet' BY <1>2, <1>3, <1>4, <1>5 DEF AckInv, SeqOwned, Quiet
  <2> QED BY <2>1, <2>2, <2>3, <2>4, <2>5 DEF SeqOwned
<1>7. AckMeansApplied' BY <1>4 DEF AckInv, AckMeansApplied, Active
<1> QED BY <1>6, <1>7 DEF AckInv

LEMMA AckConclude ==
  ASSUME Typed, AckInv, NEW w \in Workers, NEW ok \in BOOLEAN, pc[w] = "wait",
         Conclude(w, ok)
  PROVE  AckInv'
<1>1. /\ ~Active(w)' /\ event'[w] = "none"
      /\ \A v \in Workers \ {w} : /\ Active(v)' = Active(v)
                                   /\ event'[v] = event[v] /\ lim'[v] = lim[v]
                                   /\ pc'[v] = pc[v]
      /\ UNCHANGED <<seq, next, toNode, toPc, applied>>
  BY DEF Conclude, linkVars, Typed, TypeOK, Active
<1>2. SeqOwned'
  <2>1. Allocated' BY <1>1 DEF AckInv, SeqOwned, Allocated
  <2>2. Distinct' BY <1>1 DEF AckInv, SeqOwned, Distinct
  <2>3. FramesOwned' BY <1>1 DEF AckInv, SeqOwned, FramesOwned
  <2>4. AcksTrue' BY <1>1 DEF AckInv, SeqOwned, AcksTrue
  <2>5. Quiet' BY <1>1 DEF AckInv, SeqOwned, Quiet
  <2> QED BY <2>1, <2>2, <2>3, <2>4, <2>5 DEF SeqOwned
<1>3. AckMeansApplied' BY <1>1 DEF AckInv, AckMeansApplied, Active
<1> QED BY <1>2, <1>3 DEF AckInv

LEMMA AckResend ==
  ASSUME Typed, AckInv, NEW w \in Workers, Resend(w)
  PROVE  AckInv'
<1>1. /\ \A v \in Workers : Active(v)' = Active(v)
      /\ UNCHANGED <<lim, seq, event, next, toNode, toPc, applied>>
  BY DEF Resend, linkVars, Typed, TypeOK, Active
<1>2. SeqOwned'
  <2>1. Allocated' BY <1>1 DEF AckInv, SeqOwned, Allocated
  <2>2. Distinct' BY <1>1 DEF AckInv, SeqOwned, Distinct
  <2>3. FramesOwned' BY <1>1 DEF AckInv, SeqOwned, FramesOwned
  <2>4. AcksTrue' BY <1>1 DEF AckInv, SeqOwned, AcksTrue
  <2>5. Quiet' BY <1>1 DEF AckInv, SeqOwned, Quiet
  <2> QED BY <2>1, <2>2, <2>3, <2>4, <2>5 DEF SeqOwned
<1>3. AckMeansApplied' BY <1>1 DEF AckInv, AckMeansApplied, Active
<1> QED BY <1>2, <1>3 DEF AckInv

LEMMA AckPush ==
  ASSUME Typed, AckInv, NEW w \in Workers, PushFirst(w) \/ PushSecond(w)
  PROVE  AckInv'
<1>1. PICK l \in Lims : toNode' \in Carried(toNode, SetFrame(w, l, NoSeq))
  BY OrderTyped DEF PushFirst, PushSecond
<1> DEFINE f == SetFrame(w, l, NoSeq)
<1>2. f \in Frame /\ f.seq = NoSeq BY SetFrameTyped DEF SetFrame
<1>3. OnLink(toNode') \subseteq OnLink(toNode) \cup {f}
  BY <1>1, <1>2, OnLinkCarried DEF Typed, TypeOK
<1>4. \A v \in Workers : /\ seq[v] \in Nat /\ next[CtrlOf[v]] \in Nat
                         /\ NoSeq # seq[v] /\ NoSeq <= next[CtrlOf[v]]
  BY DEF Typed, TypeOK, NoSeq, Controllers
<1>5. UNCHANGED <<pc, lim, seq, event, next, toPc, applied>>
  BY DEF PushFirst, PushSecond, confirmVars
<1>6. SeqOwned'
  <2>1. Allocated' BY <1>2, <1>3, <1>4, <1>5 DEF AckInv, SeqOwned, Allocated, Active
  <2>2. Distinct' BY <1>2, <1>3, <1>4, <1>5 DEF AckInv, SeqOwned, Distinct, Active
  <2>3. FramesOwned' BY <1>2, <1>3, <1>4, <1>5 DEF AckInv, SeqOwned, FramesOwned, Active
  <2>4. AcksTrue' BY <1>2, <1>3, <1>4, <1>5 DEF AckInv, SeqOwned, AcksTrue, Active
  <2>5. Quiet' BY <1>2, <1>3, <1>4, <1>5 DEF AckInv, SeqOwned, Quiet, Active
  <2> QED BY <2>1, <2>2, <2>3, <2>4, <2>5 DEF SeqOwned
<1>7. AckMeansApplied' BY <1>5 DEF AckInv, AckMeansApplied
<1> QED BY <1>6, <1>7 DEF AckInv

LEMMA AckPcReceive ==
  ASSUME Typed, AckInv, PcReceive
  PROVE  AckInv'
<1> DEFINE a == Head(toPc)
<1>1. OnLink(toPc') \subseteq OnLink(toPc) /\ a \in OnLink(toPc)
  BY OnLinkTail DEF PcReceive, Typed, TypeOK
<1>2. /\ \A v \in Workers :
           event'[v] = IF Matches(v, a) THEN (IF a.ok THEN "ok" ELSE "nack") ELSE event[v]
      /\ UNCHANGED <<pc, lim, seq, next, toNode, applied>>
  BY DEF PcReceive
<1>3. SeqOwned'
  <2>1. Allocated' BY <1>1, <1>2 DEF AckInv, SeqOwned, Allocated, Active, Matches
  <2>2. Distinct' BY <1>1, <1>2 DEF AckInv, SeqOwned, Distinct, Active, Matches
  <2>3. FramesOwned' BY <1>1, <1>2 DEF AckInv, SeqOwned, FramesOwned, Active, Matches
  <2>4. AcksTrue' BY <1>1, <1>2 DEF AckInv, SeqOwned, AcksTrue, Active, Matches
  <2>5. Quiet' BY <1>1, <1>2 DEF AckInv, SeqOwned, Quiet, Active, Matches
  <2> QED BY <2>1, <2>2, <2>3, <2>4, <2>5 DEF SeqOwned
<1>4. ASSUME NEW v \in Workers, Active(v), event'[v] = "ok"
      PROVE  [by |-> v, lim |-> lim[v]] \in applied
  <2>1. CASE Matches(v, a)
    <3>1. a.seq = seq[v] /\ a.ok BY <1>2, <1>4, <2>1 DEF Matches
    <3> QED BY <1>1, <1>4, <3>1 DEF AckInv, SeqOwned, AcksTrue
  <2>2. CASE ~Matches(v, a)
    BY <1>2, <1>4, <2>2 DEF AckInv, AckMeansApplied, Active
  <2> QED BY <2>1, <2>2
<1>5. AckMeansApplied' BY <1>2, <1>4 DEF AckMeansApplied, Active
<1> QED BY <1>3, <1>5 DEF AckInv

\* The ack the node sends carries the number of a frame it has just applied.
LEMMA AckNodeReceive ==
  ASSUME Typed, AckInv, NodeReceive
  PROVE  AckInv'
<1> DEFINE f == Head(toNode)
           a == [seq |-> f.seq, ok |-> Good(f)]
<1>1. /\ OnLink(toNode') \subseteq OnLink(toNode) /\ f \in OnLink(toNode)
      /\ f \in Frame
  BY OnLinkTail DEF NodeReceive, Typed, TypeOK
<1>2. /\ applied \subseteq applied'
      /\ f.seq # NoSeq /\ Good(f) => [by |-> f.by, lim |-> f.lim] \in applied'
      /\ UNCHANGED <<pc, lim, seq, event, next>>
  BY DEF NodeReceive, confirmVars, Good
<1>3. OnLink(toPc') \subseteq OnLink(toPc) \cup {x \in {a} : f.seq # NoSeq}
  <2>1. CASE f.seq = NoSeq BY <2>1 DEF NodeReceive
  <2>2. CASE f.seq # NoSeq
    <3>1. a \in Ack BY <1>1, <2>2 DEF Frame, Ack, Good
    <3> QED BY <2>2, <3>1, OnLinkCarried DEF NodeReceive, Typed, TypeOK
  <2> QED BY <2>1, <2>2
<1>4. SeqOwned'
  <2>1. Allocated' BY <1>1, <1>2, <1>3 DEF AckInv, SeqOwned, Allocated, Active
  <2>2. Distinct' BY <1>1, <1>2, <1>3 DEF AckInv, SeqOwned, Distinct, Active
  <2>3. FramesOwned' BY <1>1, <1>2, <1>3 DEF AckInv, SeqOwned, FramesOwned, Active
  <2>4. ASSUME NEW w \in Workers, Active(w), NEW x \in OnLink(toPc'), x.seq = seq[w], x.ok
        PROVE  [by |-> w, lim |-> lim[w]] \in applied'
    <3>1. CASE x \in OnLink(toPc)
      BY <1>2, <2>4, <3>1 DEF AckInv, SeqOwned, AcksTrue
    <3>2. CASE x = a /\ f.seq # NoSeq
      <4>1. f.seq = seq[w] /\ Good(f) BY <2>4, <3>2
      <4>2. f.by = w /\ f.lim = lim[w]
        BY <1>1, <2>4, <4>1 DEF AckInv, SeqOwned, FramesOwned
      <4> QED BY <1>2, <3>2, <4>1, <4>2
    <3> QED BY <1>3, <2>4, <3>1, <3>2
  <2>5. AcksTrue' BY <1>2, <2>4 DEF AcksTrue, Active
  <2>6. Quiet' BY <1>1, <1>2, <1>3 DEF AckInv, SeqOwned, Quiet, Active
  <2> QED BY <2>1, <2>2, <2>3, <2>5, <2>6 DEF SeqOwned
<1>5. AckMeansApplied' BY <1>2 DEF AckInv, AckMeansApplied
<1> QED BY <1>4, <1>5 DEF AckInv

LEMMA AckNext ==
  ASSUME OneConfirmer, Typed, AckInv, [Next]_vars
  PROVE  AckInv'
<1>1. ASSUME NEW w \in Workers, Worker(w) PROVE AckInv'
  <2>1. Answered(w) \/ GiveUp(w)
          => pc[w] = "wait" /\ \E ok \in BOOLEAN : Conclude(w, ok)
    BY DEF Answered, GiveUp
  <2> QED BY <1>1, <2>1, AckBegin, AckSend, AckConclude, AckResend DEF Worker
<1>2. ASSUME NEW w \in Workers, PushFirst(w) \/ PushSecond(w) PROVE AckInv'
  BY <1>2, AckPush
<1>3. CASE PcReceive BY <1>3, AckPcReceive
<1>4. CASE NodeReceive BY <1>4, AckNodeReceive
<1>5. CASE Reboot \/ UNCHANGED vars
  <2>1. UNCHANGED <<confirmVars, linkVars, applied>> BY <1>5 DEF Reboot, vars
  <2> QED BY <2>1 DEF confirmVars, linkVars, AckInv, SeqOwned, Allocated,
                      Distinct, FramesOwned, AcksTrue, Quiet, Active, AckMeansApplied
<1> QED BY <1>1, <1>2, <1>3, <1>4, <1>5 DEF Next

\* As long as a node has one confirmer, a positive ack a worker holds means the
\* node applied the limit that worker sent: a late or repeated ack of an
\* earlier confirmation is never taken for it (command_confirmer.py:11).
THEOREM AckCorrect ==
  ASSUME OneConfirmer
  PROVE  Spec => []AckMeansApplied
<1>1. Init => Typed /\ AckInv BY TypedInit, AckInit
<1>2. Typed /\ AckInv /\ [Next]_vars => Typed' /\ AckInv'
  BY OneConfirmer, TypedNext, AckNext
<1>3. AckInv => AckMeansApplied BY DEF AckInv
<1> QED BY <1>1, <1>2, <1>3, PTL DEF Spec

-----------------------------------------------------------------------------
(* Confirmed limits are the limits in force *)

\* Two workers of one chamber serve the same skin configuration, and that
\* configuration can be set: it is sane, and its max clears every min the node
\* may start from (SetLimit would clamp the max against that min).
SameWish == \A v, w \in Workers : ChamberOf[v] = ChamberOf[w] => Wanted[v] = Wanted[w]
Clears(l, w) == l.min + Eps <= Wanted[w].max
Reachable == \A w \in Workers : /\ Sane(Wanted[w])
                                /\ \A l \in LeftOver \cup {DefaultLimits} : Clears(l, w)

OnNode(w) == ChamberOf[w] \in Slots
Applied(w, l) == [by |-> w, lim |-> l] \in applied
ToMin(w, f) == f.by = w /\ f.lim = "min" /\ f.seq # NoSeq

\* Frames carry what the configuration wants of the chamber.
FramesWanted ==
  \A f \in OnLink(toNode) : f.ch = ChamberOf[f.by] /\ f.val = Wanted[f.by][f.lim]
RoomBelow == \A w \in Workers : OnNode(w) => Clears(node[ChamberOf[w]], w)
\* Min is confirmed after max.
MaxFirst ==
  \A w \in Workers : lim[w] = "max" =>
    ~Applied(w, "min") /\ \A f \in OnLink(toNode) : ~ToMin(w, f)
ResultApplied ==
  \A w \in Workers : /\ \A l \in result[w] : Applied(w, l)
                     /\ \A l \in Lims : Applied(w, l) => OnNode(w)
MaxInForce ==
  \A w \in Workers : Applied(w, "max") /\ reboots = 0
                       => node[ChamberOf[w]].max = Wanted[w].max
\* Once max is in force, a min frame sets exactly what it carries.
MinInForce ==
  \A w \in Workers : Applied(w, "min") /\ "max" \in result[w] /\ reboots = 0
                       => node[ChamberOf[w]].min = Wanted[w].min

ForceInv == /\ FramesWanted /\ RoomBelow /\ MaxFirst
            /\ ResultApplied /\ MaxInForce /\ MinInForce

LEMMA SetMaxExact ==
  ASSUME NEW l \in Limits, NEW w \in Workers, Sane(Wanted[w]), Clears(l, w)
  PROVE  /\ SetLimit(l, "max", Wanted[w].max).max = Wanted[w].max
         /\ SetLimit(l, "max", Wanted[w].max).min = l.min
<1>1. Wanted[w] \in Limits BY LimitsAssumption
<1> QED BY <1>1, LimitsAssumption DEF SetLimit, Constrain, Sane, Clears, Limits, Lims

LEMMA SetMinBelow ==
  ASSUME NEW l \in Limits, Sane(l), NEW w \in Workers, Sane(Wanted[w])
  PROVE  LET m == SetLimit(l, "min", Wanted[w].min)
         IN  /\ m.max = l.max
             /\ m.min <= Wanted[w].min
             /\ l.max = Wanted[w].max => m.min = Wanted[w].min
<1>1. Wanted[w] \in Limits BY LimitsAssumption
<1> QED BY <1>1, LimitsAssumption DEF SetLimit, Constrain, Sane, Limits, Lims

LEMMA ForceInit ==
  ASSUME Reachable, Init
  PROVE  ForceInv
<1>1. OnLink(toNode) = {} BY DEF Init, OnLink
<1>2. RoomBelow BY DEF Init, RoomBelow, Reachable, OnNode
<1> QED BY <1>1, <1>2 DEF Init, ForceInv, FramesWanted, MaxFirst, ResultApplied,
                          MaxInForce, MinInForce, Applied

\* A step that adds at most one frame, of the worker's own current limit or an
\* unconfirmed one, and applies nothing.
LEMMA ForceTransmit ==
  ASSUME Typed, ForceInv, NEW w \in Workers, NEW l \in Lims, NEW s \in Nat \cup {NoSeq},
         s = NoSeq \/ l = lim[w], toNode' \in Carried(toNode, SetFrame(w, l, s)),
         UNCHANGED <<lim, result, reboots, node, applied>>
  PROVE  ForceInv'
<1> DEFINE f == SetFrame(w, l, s)
<1>1. f \in Frame BY SetFrameTyped
<1>2. OnLink(toNode') \subseteq OnLink(toNode) \cup {f}
  BY <1>1, OnLinkCarried DEF Typed, TypeOK
<1>3. /\ f.by = w /\ f.lim = l /\ f.seq = s /\ f.ch = ChamberOf[w]
      /\ f.val = Wanted[w][l]
  BY DEF SetFrame
<1>4. FramesWanted' BY <1>2, <1>3 DEF ForceInv, FramesWanted
<1>5. MaxFirst' BY <1>2, <1>3 DEF ForceInv, MaxFirst, ToMin, Applied
<1> QED BY <1>4, <1>5 DEF ForceInv, RoomBelow, ResultApplied, MaxInForce, MinInForce,
                          Applied, OnNode

LEMMA ForceConclude ==
  ASSUME Typed, AckInv, ForceInv, NEW w \in Workers, Answered(w) \/ GiveUp(w)
  PROVE  ForceInv'
<1>1. PICK ok \in BOOLEAN : Conclude(w, ok) /\ (ok => event[w] = "ok") /\ pc[w] = "wait"
  BY DEF Answered, GiveUp
<1>2. /\ lim' = [lim EXCEPT ![w] = "min"] /\ UNCHANGED <<toNode, reboots, node, applied>>
      /\ result' = [result EXCEPT ![w] = IF ok THEN @ \cup {lim[w]} ELSE @]
  BY <1>1 DEF Conclude, Order, linkVars, boundVars
<1>3. \A v \in Workers : /\ v # w => lim'[v] = lim[v] /\ result'[v] = result[v]
                         /\ lim'[w] = "min"
  BY <1>2 DEF Typed, TypeOK
<1>4. \A l \in result'[w] : l \in result[w] \/ (l = lim[w] /\ ok)
  BY <1>2 DEF Typed, TypeOK
<1>5. ok => Applied(w, lim[w])
  BY <1>1 DEF AckInv, AckMeansApplied, Applied
<1>6. MaxFirst' BY <1>2, <1>3 DEF ForceInv, MaxFirst, Applied
<1>7. ResultApplied'
  <2>1. \A v \in Workers : \A l \in result'[v] : Applied(v, l)
    BY <1>3, <1>4, <1>5 DEF ForceInv, ResultApplied
  <2> QED BY <1>2, <2>1 DEF ForceInv, ResultApplied, Applied, OnNode
<1>8. MinInForce'
  <2>1. ASSUME NEW v \in Workers, Applied(v, "min"), "max" \in result'[v], reboots = 0
        PROVE  node[ChamberOf[v]].min = Wanted[v].min
    <3>1. CASE "max" \in result[v] BY <2>1, <3>1 DEF ForceInv, MinInForce
    <3>2. CASE "max" \notin result[v]
      <4>1. v = w /\ lim[w] = "max" BY <1>3, <1>4, <2>1, <3>2
      <4> QED BY <2>1, <4>1 DEF ForceInv, MaxFirst
    <3> QED BY <3>1, <3>2
  <2> QED BY <1>2, <2>1 DEF MinInForce, Applied
<1> QED BY <1>2, <1>6, <1>7, <1>8
        DEF ForceInv, FramesWanted, RoomBelow, MaxInForce, Applied, OnNode

\* A step that touches neither the link to the node nor what was confirmed.
LEMMA ForceAside ==
  ASSUME ForceInv, UNCHANGED <<lim, result, reboots, toNode, node, applied>>
  PROVE  ForceInv'
BY DEF ForceInv, FramesWanted, RoomBelow, MaxFirst, ResultApplied, MaxInForce,
       MinInForce, Applied, OnNode

LEMMA ForceNodeReceive ==
  ASSUME SameWish, Reachable, Typed, LimitsSane, ForceInv, NodeReceive
  PROVE  ForceInv'
<1> DEFINE f == Head(toNode)
           hit == f.seq # NoSeq /\ f.ch \in Slots
<1>1. /\ OnLink(toNode') \subseteq OnLink(toNode) /\ f \in OnLink(toNode)
      /\ f \in Frame
  BY OnLinkTail DEF NodeReceive, Typed, TypeOK
<1>2. /\ f.lim \in Lims /\ f.by \in Workers
      /\ f.ch = ChamberOf[f.by] /\ f.val = Wanted[f.by][f.lim]
  BY <1>1 DEF Frame, ForceInv, FramesWanted
<1>3. /\ node' = IF f.ch \in Slots
                   THEN [node EXCEPT ![f.ch] = SetLimit(@, f.lim, f.val)] ELSE node
      /\ applied' = IF hit THEN applied \cup {[by |-> f.by, lim |-> f.lim]} ELSE applied
      /\ UNCHANGED <<lim, result, reboots>>
  BY DEF NodeReceive, confirmVars, boundVars
<1>4. ASSUME NEW w \in Workers, NEW l \in Lims
      PROVE  Applied(w, l)' <=> Applied(w, l) \/ (hit /\ f.by = w /\ f.lim = l)
  BY <1>3 DEF Applied
<1>5. ASSUME NEW w \in Workers, ChamberOf[w] \in Slots
      PROVE  LET old == node[ChamberOf[w]]
                 new == node'[ChamberOf[w]]
             IN  /\ Clears(new, w)
                 /\ old.max = Wanted[w].max => new.max = Wanted[w].max
                 /\ f.ch = ChamberOf[w] /\ f.lim = "max" => new.max = Wanted[w].max
                 /\ old.max = Wanted[w].max /\ old.min = Wanted[w].min
                      => new.min = Wanted[w].min
                 /\ f.ch = ChamberOf[w] /\ f.lim = "min" /\ old.max = Wanted[w].max
                      => new.min = Wanted[w].min
  <2> DEFINE old == node[ChamberOf[w]]
             new == node'[ChamberOf[w]]
  <2>1. /\ old \in Limits /\ Sane(old) /\ Sane(Wanted[w]) /\ Clears(old, w)
        /\ Wanted[w] \in Limits
    BY <1>5, LimitsAssumption
       DEF Typed, TypeOK, LimitsSane, Reachable, ForceInv, RoomBelow, OnNode
  <2>2. CASE f.ch # ChamberOf[w]
    <3>1. new = old BY <1>3, <2>2 DEF Typed, TypeOK
    <3> QED BY <2>1, <2>2, <3>1
  <2>3. CASE f.ch = ChamberOf[w]
    <3>1. Wanted[f.by] = Wanted[w] BY <1>2, <2>3 DEF SameWish
    <3>2. new = SetLimit(old, f.lim, Wanted[w][f.lim])
      BY <1>2, <1>3, <1>5, <2>3, <3>1 DEF Typed, TypeOK
    <3>3. CASE f.lim = "max"
      <4>1. new = SetLimit(old, "max", Wanted[w].max) BY <3>2, <3>3
      <4>2. new.max = Wanted[w].max /\ new.min = old.min BY <2>1, <4>1, SetMaxExact
      <4> QED BY <2>1, <3>3, <4>2 DEF Clears
    <3>4. CASE f.lim = "min"
      <4>1. new = SetLimit(old, "min", Wanted[w].min) BY <3>2, <3>4
      <4>2. /\ new.max = old.max /\ new.min <= Wanted[w].min
            /\ old.max = Wanted[w].max => new.min = Wanted[w].min
        BY <2>1, <4>1, SetMinBelow
      <4>3. new \in Limits
        <5>1. "min" \in Lims BY DEF Lims
        <5>2. Wanted[w].min \in Int BY <2>1, <5>1 DEF Limits
        <5> QED BY <2>1, <4>1, <5>1, <5>2, SetLimitTyped
      <4>4. new.min \in Int /\ Wanted[w].min \in Int /\ Wanted[w].max \in Int
        BY <2>1, <4>3 DEF Limits, Lims
      <4>5. Clears(new, w)
        BY <2>1, <4>2, <4>4, LimitsAssumption DEF Clears, Sane
      <4> QED BY <3>4, <4>2, <4>5
    <3> QED BY <1>2, <3>3, <3>4 DEF Lims
  <2> QED BY <2>2, <2>3
<1>6. FramesWanted' BY <1>1 DEF ForceInv, FramesWanted
<1>7. RoomBelow' BY <1>5 DEF RoomBelow, OnNode
<1>8. MaxFirst'
  <2>1. ASSUME NEW w \in Workers, lim[w] = "max" PROVE ~Applied(w, "min")'
    <3>1. ~(hit /\ f.by = w /\ f.lim = "min")
      BY <1>1, <2>1 DEF ForceInv, MaxFirst, ToMin
    <3>2. ~Applied(w, "min") BY <2>1 DEF ForceInv, MaxFirst
    <3> QED BY <1>4, <3>1, <3>2 DEF Lims
  <2> QED BY <1>1, <1>3, <2>1 DEF ForceInv, MaxFirst
<1>9. ResultApplied'
  <2>1. \A w \in Workers : result[w] \subseteq Lims BY DEF Typed, TypeOK
  <2> QED BY <1>2, <1>3, <1>4, <2>1 DEF ForceInv, ResultApplied, OnNode
<1>10. MaxInForce'
  <2>1. ASSUME NEW w \in Workers, Applied(w, "max")', reboots = 0
        PROVE  node'[ChamberOf[w]].max = Wanted[w].max
    <3>1. CASE Applied(w, "max")
      <4>1. ChamberOf[w] \in Slots
        BY <3>1 DEF ForceInv, ResultApplied, OnNode, Lims
      <4>2. node[ChamberOf[w]].max = Wanted[w].max
        BY <2>1, <3>1 DEF ForceInv, MaxInForce
      <4> QED BY <1>5, <4>1, <4>2
    <3>2. CASE hit /\ f.by = w /\ f.lim = "max" BY <1>2, <1>5, <3>2
    <3> QED BY <1>4, <2>1, <3>1, <3>2 DEF Lims
  <2> QED BY <1>3, <2>1 DEF MaxInForce
<1>11. MinInForce'
  <2>1. ASSUME NEW w \in Workers, Applied(w, "min")', "max" \in result[w], reboots = 0
        PROVE  node'[ChamberOf[w]].min = Wanted[w].min
    <3>1. Applied(w, "max") /\ ChamberOf[w] \in Slots
      BY <2>1 DEF ForceInv, ResultApplied, OnNode, Lims
    <3>2. node[ChamberOf[w]].max = Wanted[w].max
      BY <2>1, <3>1 DEF ForceInv, MaxInForce
    <3>3. CASE Applied(w, "min")
      <4>1. node[ChamberOf[w]].min = Wanted[w].min
        BY <2>1, <3>3 DEF ForceInv, MinInForce
      <4> QED BY <1>5, <3>1, <3>2, <4>1
    <3>4. CASE hit /\ f.by = w /\ f.lim = "min" BY <1>2, <1>5, <3>1, <3>2, <3>4
    <3> QED BY <1>4, <2>1, <3>3, <3>4 DEF Lims
  <2> QED BY <1>3, <2>1 DEF MinInForce
<1> QED BY <1>6, <1>7, <1>8, <1>9, <1>10, <1>11 DEF ForceInv

LEMMA ForceReboot ==
  ASSUME Reachable, Typed, ForceInv, Reboot
  PROVE  ForceInv'
<1>1. reboots' # 0 /\ UNCHANGED <<lim, result, toNode, applied>>
  BY DEF Reboot, Typed, TypeOK, confirmVars, linkVars
<1>2. RoomBelow' BY DEF Reboot, RoomBelow, Reachable, OnNode
<1> QED BY <1>1, <1>2 DEF ForceInv, FramesWanted, MaxFirst, ResultApplied, MaxInForce,
                          MinInForce, Applied, OnNode

LEMMA ForceNext ==
  ASSUME SameWish, Reachable, Typed, LimitsSane, AckInv, ForceInv, [Next]_vars
  PROVE  ForceInv'
<1>1. ASSUME NEW w \in Workers, Worker(w) PROVE ForceInv'
  <2>1. CASE Begin(w) \/ Resend(w)
    BY <2>1, ForceAside DEF Begin, Resend, linkVars, boundVars
  <2>2. CASE Send(w)
    <3>1. lim[w] \in Lims /\ seq[w] \in Nat BY DEF Typed, TypeOK
    <3> QED BY <2>2, <3>1, ForceTransmit DEF Send, boundVars
  <2> QED BY <1>1, <2>1, <2>2, ForceConclude DEF Worker
<1>2. ASSUME NEW w \in Workers, PushFirst(w) \/ PushSecond(w) PROVE ForceInv'
  BY <1>2, ForceTransmit, OrderTyped DEF PushFirst, PushSecond, confirmVars
<1>3. CASE PcReceive BY <1>3, ForceAside DEF PcReceive, boundVars
<1>4. CASE NodeReceive BY <1>4, ForceNodeReceive
<1>5. CASE Reboot BY <1>5, ForceReboot
<1>6. CASE UNCHANGED vars
  BY <1>6, ForceAside DEF vars, confirmVars, linkVars, boundVars
<1> QED BY <1>1, <1>2, <1>3, <1>4, <1>5, <1>6 DEF Next

LEMMA ForceImplies ==
  ASSUME Typed, ForceInv
  PROVE  ConfirmedInForce
<1> SUFFICES ASSUME NEW w \in Workers, result[w] = Lims, reboots = 0
             PROVE  node[ChamberOf[w]] = Wanted[w]
  BY DEF ConfirmedInForce
<1>1. /\ Applied(w, "max") /\ Applied(w, "min") /\ ChamberOf[w] \in Slots
  BY DEF ForceInv, ResultApplied, OnNode, Lims
<1>2. /\ node[ChamberOf[w]].max = Wanted[w].max
      /\ node[ChamberOf[w]].min = Wanted[w].min
  BY <1>1 DEF ForceInv, MaxInForce, MinInForce, Lims
<1>3. node[ChamberOf[w]] \in Limits /\ Wanted[w] \in Limits
  BY <1>1, LimitsAssumption DEF Typed, TypeOK
<1> QED BY <1>2, <1>3 DEF Limits, Lims

\* With one confirmer per node, workers of a chamber that agree, and a wanted
\* max above every min the node can start from: once confirm_limits reports both
\* limits of a chamber confirmed and the node has not rebooted, the limits in
\* force are the configured ones, whatever was lost, resent or refreshed
\* (esp32_controller.py confirm_limits: max first, then min).
THEOREM ConfirmedCorrect ==
  ASSUME OneConfirmer, SameWish, Reachable
  PROVE  Spec => []ConfirmedInForce
<1> DEFINE Inv == Typed /\ LimitsSane /\ AckInv /\ ForceInv
<1>1. Init => Inv
  <2>1. Init => LimitsSane BY LimitsAssumption DEF Init, LimitsSane
  <2> QED BY <2>1, Reachable, TypedInit, AckInit, ForceInit
<1>2. Inv /\ [Next]_vars => Inv'
  BY OneConfirmer, SameWish, Reachable, TypedNext, SaneNext, AckNext, ForceNext
<1>3. Inv => ConfirmedInForce BY ForceImplies
<1> QED BY <1>1, <1>2, <1>3, PTL DEF Spec
=============================================================================
