--------------------------- MODULE HoldLinkProofs ---------------------------
(***************************************************************************)
(* HoldKeeper's promises, for any number of chambers, of GUI operations, of *)
(* power cycles and of frames in flight.                                   *)
(***************************************************************************)
EXTENDS HoldLink, FiniteSetTheorems, TLAPS

\* Every hold the keeper has was last heard of on the wire as alive.
ToldAlive == \A c \in Chambers : holds[c] # "none" => told[c] \in {"start", "ka"}

KeeperTypes ==
  /\ holds \in Owners /\ bench \in BOOLEAN
  /\ loop \in {"none", "asleep", "ticking"}
  /\ told \in [Chambers -> {"none", "start", "ka", "off"}]

\* The inductive invariant.
KeeperInv == KeeperTypes /\ KeptAlive /\ BenchExclusive /\ ToldAlive

\* All the invariant looks at.
watched == <<holds, bench, loop, told>>

LEMMA KeeperInit == Init => KeeperInv
  BY DEF Init, KeeperInv, KeeperTypes, KeptAlive, BenchExclusive, ToldAlive, Owners, Nothing, Held

LEMMA KeeperUnwatched == KeeperInv /\ UNCHANGED watched => KeeperInv'
  BY DEF KeeperInv, KeeperTypes, KeptAlive, BenchExclusive, ToldAlive, Owners, Held, watched

-----------------------------------------------------------------------------
(* The sections that touch the keeper *)

USE DEF KeeperInv, KeeperTypes, KeptAlive, BenchExclusive, ToldAlive, Owners, Held

LEMMA StartHoldKeeps ==
  ASSUME KeeperInv, NEW t \in Threads, NEW who \in {"app", "bench"}, StartHold(t, who)
  PROVE  KeeperInv'
<1>1. CASE Refused(who)
  BY <1>1 DEF StartHold, keeperVars
<1>2. CASE ~Refused(who)
  <2>1. holds' = [holds EXCEPT ![Arg(t)] = who] /\ told' = [told EXCEPT ![Arg(t)] = "start"]
    BY <1>2 DEF StartHold
  <2>2. loop' = Ensured /\ UNCHANGED bench
    BY <1>2 DEF StartHold
  <2>3. bench => who = "bench"
    BY <1>2 DEF Refused
  <2>4. loop' \in {"asleep", "ticking"}
    BY <2>2 DEF Ensured
  <2> QED
    BY <2>1, <2>2, <2>3, <2>4
<1> QED
  BY <1>1, <1>2

LEMMA StopHoldKeeps ==
  ASSUME KeeperInv, NEW t \in Threads, StopHold(t)
  PROVE  KeeperInv'
<1> DEFINE S == IF Arg(t) = All THEN Chambers ELSE {Arg(t)}
<1>1. holds' = [c \in Chambers |-> IF c \in S THEN "none" ELSE holds[c]]
  BY DEF StopHold, Popped
<1>2. told' = told \/ told' = [c \in Chambers |-> IF c \in S THEN "off" ELSE told[c]]
  BY DEF StopHold, Ended
<1>3. UNCHANGED <<bench, loop>>
  BY DEF StopHold
<1> QED
  BY <1>1, <1>2, <1>3

LEMMA DropAllKeeps ==
  ASSUME KeeperInv, NEW t \in Threads, DropAll(t)
  PROVE  KeeperInv'
  BY DEF DropAll, Nothing, Ended

LEMMA ClaimBenchKeeps ==
  ASSUME KeeperInv, NEW t \in Threads, ClaimBench(t)
  PROVE  KeeperInv'
  BY DEF ClaimBench, AppDropped, Nothing, Ended

LEMMA UnclaimBenchKeeps ==
  ASSUME KeeperInv, NEW t \in Threads, UnclaimBench(t)
  PROVE  KeeperInv'
  BY DEF UnclaimBench

LEMMA TickKeeps == KeeperInv /\ Tick => KeeperInv'
<1> SUFFICES ASSUME KeeperInv, Tick PROVE KeeperInv'
  OBVIOUS
<1>1. CASE Keep
  <2>1. told' = [c \in Chambers |-> IF c \in Held THEN "ka" ELSE told[c]]
    BY <1>1 DEF Tick
  <2>2. loop' = "asleep" /\ UNCHANGED <<holds, bench>>
    BY <1>1 DEF Tick
  <2> QED
    BY <2>1, <2>2
<1>2. CASE ~Keep
  <2>1. holds' = Nothing /\ loop' = "none" /\ UNCHANGED bench
    BY <1>2 DEF Tick
  <2>2. told' = [c \in Chambers |-> IF c \in Held THEN "off" ELSE told[c]]
    BY <1>2 DEF Tick, Ended
  <2> QED
    BY <2>1, <2>2 DEF Nothing
<1> QED
  BY <1>1, <1>2

LEMMA WakeKeeps == KeeperInv /\ Wake => KeeperInv'
  BY DEF Wake

-----------------------------------------------------------------------------
(* Every other action leaves the keeper and its history alone *)

LEMMA SkinUnwatched ==
  ASSUME NEW t \in Threads,
         \/ Notify(t) \/ ReleaseAuto(t) \/ ReleaseAll(t) \/ Aim(t) \/ Settle(t) \/ Record(t)
         \/ Command(t) \/ Report(t)
  PROVE  UNCHANGED watched
  BY DEF Notify, ReleaseAuto, ReleaseAll, Aim, Settle, Record, Command, Report,
         keeperVars, watched

LEMMA GuiUnwatched == Gui => UNCHANGED watched
<1> SUFFICES ASSUME Gui PROVE UNCHANGED watched
  OBVIOUS
<1>1. \E o, steps : Begin(o, steps)
  BY DEF Gui, Actuate, Deflate, EmergencyStop, Rearm, Shutdown, Claim, BenchHold,
         BenchRelease, BenchMove, Close, LeaveRunning
<1> QED
  BY <1>1 DEF Begin, keeperVars, watched

LEMMA NodeUnwatched ==
  Node \/ PowerOff \/ PowerOn \/ FallSilent \/ Receive \/ Leave => UNCHANGED watched
  BY DEF Node, NodeReceive, NodeStatus, NodeSettle, DeadMan, PowerOff, PowerOn, FallSilent,
         Receive, Leave, keeperVars, watched

LEMMA KeeperNext == KeeperInv /\ [Next]_vars => KeeperInv'
<1> SUFFICES ASSUME KeeperInv, [Next]_vars PROVE KeeperInv'
  OBVIOUS
<1> USE DEF KeeperInv
<1>1. CASE Gui
  BY <1>1, GuiUnwatched, KeeperUnwatched
<1>2. CASE \E t \in Threads : Run(t)
  <2>1. PICK t \in Threads : Run(t)
    BY <1>2
  <2>2. CASE StartHold(t, "app") \/ StartHold(t, "bench")
    BY <2>2, StartHoldKeeps
  <2>3. CASE StopHold(t)
    BY <2>3, StopHoldKeeps
  <2>4. CASE DropAll(t)
    BY <2>4, DropAllKeeps
  <2>5. CASE ClaimBench(t)
    BY <2>5, ClaimBenchKeeps
  <2>6. CASE UnclaimBench(t)
    BY <2>6, UnclaimBenchKeeps
  <2>7. CASE \/ Notify(t) \/ ReleaseAuto(t) \/ ReleaseAll(t) \/ Aim(t) \/ Settle(t)
             \/ Record(t) \/ Command(t) \/ Report(t)
    BY <2>7, SkinUnwatched, KeeperUnwatched
  <2> QED
    BY <2>1, <2>2, <2>3, <2>4, <2>5, <2>6, <2>7 DEF Run
<1>3. CASE Wake
  BY <1>3, WakeKeeps
<1>4. CASE Tick
  BY <1>4, TickKeeps
<1>5. CASE Node \/ PowerOff \/ PowerOn \/ FallSilent \/ Receive \/ Leave
  BY <1>5, NodeUnwatched, KeeperUnwatched
<1>6. CASE UNCHANGED vars
  BY <1>6, KeeperUnwatched DEF vars, keeperVars, watched
<1> QED
  BY <1>1, <1>2, <1>3, <1>4, <1>5, <1>6 DEF Next

LEMMA Kept == Spec => []KeeperInv
  BY KeeperInit, KeeperNext, PTL DEF Spec

-----------------------------------------------------------------------------

\* HoldKeeper never has a hold that no keepalive thread will come round for,
\* whichever thread starts, stops, drops or claims, and whenever the keepalive
\* thread exits.
THEOREM KeptAliveCorrect == Spec => []KeptAlive
<1>1. KeeperInv => KeptAlive
  BY DEF KeeperInv
<1> QED
  BY <1>1, Kept, PTL

\* A claimed node's keeper keeps no hold of the app.
THEOREM BenchExclusiveCorrect == Spec => []BenchExclusive
<1>1. KeeperInv => BenchExclusive
  BY DEF KeeperInv
<1> QED
  BY <1>1, Kept, PTL

LEMMA KeeperTimely == KeeperInv /\ [Next]_vars => Timely \/ UNCHANGED told
<1> SUFFICES ASSUME KeeperInv, [Next]_vars, told' # told PROVE Timely
  OBVIOUS
<1> USE DEF Timely
<1>1. CASE \E t \in Threads : Run(t)
  <2>1. PICK t \in Threads : Run(t)
    BY <1>1
  <2>2. CASE StartHold(t, "app") \/ StartHold(t, "bench")
    BY <2>2 DEF StartHold
  <2>3. CASE StopHold(t) \/ DropAll(t) \/ ClaimBench(t)
    <3>1. PICK S : told' = [c \in Chambers |-> IF c \in S THEN "off" ELSE told[c]]
      BY ZenonT(40), <2>3 DEF StopHold, DropAll, ClaimBench, Ended
    <3> QED
      BY <3>1
  <2>4. CASE UnclaimBench(t)
    BY <2>4 DEF UnclaimBench
  <2>5. CASE \/ Notify(t) \/ ReleaseAuto(t) \/ ReleaseAll(t) \/ Aim(t) \/ Settle(t)
             \/ Record(t) \/ Command(t) \/ Report(t)
    BY <2>5, SkinUnwatched DEF watched
  <2> QED
    BY <2>1, <2>2, <2>3, <2>4, <2>5 DEF Run
<1>2. CASE Tick
  <2>1. CASE Keep
    BY <1>2, <2>1 DEF Tick
  <2>2. CASE ~Keep
    BY <1>2, <2>2 DEF Tick, Ended
  <2> QED
    BY <2>1, <2>2
<1>3. CASE Gui \/ Node \/ PowerOff \/ PowerOn \/ FallSilent \/ Receive \/ Leave
  BY <1>3, GuiUnwatched, NodeUnwatched DEF watched
<1>4. CASE Wake \/ UNCHANGED vars
  BY <1>4 DEF Wake, vars
<1> QED
  BY <1>1, <1>2, <1>3, <1>4 DEF Next

\* No keepalive is sent of a hold that ended and was not started again.
THEOREM NoLateKeepaliveCorrect == Spec => NoLateKeepalive
<1>1. KeeperInv /\ [Next]_vars => [Timely]_told
  BY KeeperTimely
<1> QED
  BY <1>1, Kept, PTL DEF Spec, NoLateKeepalive

-----------------------------------------------------------------------------
(* Types of the scripts, of the link and of the node *)

HIDE DEF KeeperInv, KeeperTypes, KeptAlive, BenchExclusive, ToldAlive, Owners, Held

\* Every section a thread may have to run, and every frame on the link.
Commands == [k : {"move"}, ch : Chambers, who : {"none"}]
       \cup [k : {"stop", "resume"}, ch : {All}, who : {"none"}]
Frames == [k : {"start", "ka"}, ch : Chambers, who : {"app", "bench"}]
     \cup [k : {"off"}, ch : Chambers \cup {All}, who : {"none"}]
     \cup Commands
Steps == [do : {"app", "bench", "record", "release auto", "aim", "settle", "runs", "idle"},
          arg : Chambers]
    \cup [do : {"stop hold"}, arg : Chambers \cup {All}]
    \cup [do : {"drop", "claim", "unclaim", "release all"}, arg : {All}]
    \cup [do : {"notify"}, arg : SUBSET Chambers]
    \cup [do : {"send"}, arg : Commands]
Statuses == [k : {"status"}, running : SUBSET Chambers] \cup [k : {"boot"}]

KeeperTyped == holds \in Owners /\ leaving \subseteq Chambers
               /\ {bench, silent} \subseteq BOOLEAN /\ loop \in {"none", "asleep", "ticking"}
SkinTyped == {autoHeld, moving, pose} \subseteq SUBSET Chambers
ScriptTyped == script \in [Threads -> Seq(Steps)]
LinkTyped == toNode \in Seq(Frames) /\ toPc \in Seq(Statuses) /\ quiet \in BOOLEAN
NodeTyped == held \in Owners /\ running \subseteq Chambers /\ {up, latched} \subseteq BOOLEAN
\* What is on its way to the PC fits, but for one boot announcement a cycle.
LeftTyped == \E m \in Mixes :
  /\ left \in [may : {m.may}, ops : 0..m.ops, cycles : 0..m.cycles]
  /\ Len(toPc) + left.cycles + (IF up THEN 0 ELSE 1) <= MaxFrames + m.cycles
TypeInv == /\ KeeperTyped /\ SkinTyped /\ ScriptTyped /\ LinkTyped /\ NodeTyped /\ LeftTyped
           /\ told \in [Chambers -> {"none", "start", "ka", "off"}]

\* SetToSeq lists a finite set.
LEMMA ListTyped ==
  ASSUME NEW S \in SUBSET Chambers
  PROVE  SetToSeq(S) \in Seq(S)
<1>1. IsFiniteSet(S) BY HoldLinkAssumption, FS_Subset
<1>2. Cardinality(S) \in Nat /\ ExistsBijection(1..Cardinality(S), S)
  BY <1>1, FS_CardinalityType
<1>3. \E f \in [1..Cardinality(S) -> S] : IsInjective(f)
  BY <1>2 DEF ExistsBijection, Bijection, Injection
<1>4. SetToSeq(S) \in [1..Cardinality(S) -> S]
  BY <1>3 DEF SetToSeq
<1> QED BY <1>2, <1>4

LEMMA SectionsTyped ==
  ASSUME NEW do, NEW S, NEW T, NEW q \in Seq(S), \A x \in S : Step(do, x) \in T
  PROVE  Sections(do, q) \in Seq(T)
<1>1. \A i \in DOMAIN q : q[i] \in S OBVIOUS
<1>2. Sections(do, q) \in [1..Len(q) -> T] BY <1>1 DEF Sections
<1> QED BY <1>2

LEMMA ThenTyped ==
  ASSUME ScriptTyped, NEW t \in Threads, script[t] # <<>>, NEW more \in Seq(Steps),
         Then(t, more)
  PROVE  ScriptTyped'
BY DEF ScriptTyped, Then

LEMMA ThenNone ==
  ASSUME ScriptTyped, NEW t \in Threads, script[t] # <<>>, Then(t, <<>>)
  PROVE  ScriptTyped'
<1>1. <<>> \in Seq(Steps) OBVIOUS
<1> QED BY <1>1, ThenTyped

LEMMA HeadTyped ==
  ASSUME ScriptTyped, NEW t \in Threads, NEW do, At(t, do)
  PROVE  /\ script[t] # <<>>
         /\ [do |-> do, arg |-> Arg(t)] \in Steps
<1>1. Head(script[t]) \in Steps /\ script[t] # <<>> BY DEF ScriptTyped, At
<1>2. Head(script[t]) = [do |-> do, arg |-> Arg(t)] BY <1>1 DEF At, Arg, Steps
<1> QED BY <1>1, <1>2

LEMMA StepTyped ==
  /\ \A do \in {"app", "bench", "record", "release auto", "aim", "settle", "runs", "idle"} :
       \A x : [do |-> do, arg |-> x] \in Steps <=> x \in Chambers
  /\ \A x : [do |-> "stop hold", arg |-> x] \in Steps <=> x \in Chambers \cup {All}
  /\ \A x : [do |-> "notify", arg |-> x] \in Steps <=> x \in SUBSET Chambers
  /\ \A x : [do |-> "send", arg |-> x] \in Steps <=> x \in Commands
  /\ \A do \in {"drop", "claim", "unclaim", "release all"} :
       \A x : [do |-> do, arg |-> x] \in Steps <=> x = All
BY DEF Steps

ChamberDos == {"app", "bench", "record", "release auto", "aim", "settle", "runs", "idle"}

LEMMA ChamberArg ==
  ASSUME ScriptTyped, NEW t \in Threads, NEW do \in ChamberDos, At(t, do)
  PROVE  script[t] # <<>> /\ Arg(t) \in Chambers
BY HeadTyped, StepTyped DEF ChamberDos

LEMMA Single ==
  ASSUME NEW S, NEW s \in S
  PROVE  <<s>> \in Seq(S) /\ <<>> \in Seq(S)
OBVIOUS

\* A script with one more section to run, of a chamber, or none.
LEMMA OneStep ==
  ASSUME NEW do \in ChamberDos \cup {"stop hold"}, NEW c \in Chambers
  PROVE  <<Step(do, c)>> \in Seq(Steps) /\ <<>> \in Seq(Steps)
<1>1. Step(do, c) \in Steps BY StepTyped DEF Step, ChamberDos
<1> QED BY <1>1, Single

LEMMA NotifyStep == <<Step("notify", Held)>> \in Seq(Steps)
<1>1. Step("notify", Held) \in Steps BY StepTyped DEF Step, Held
<1> QED BY <1>1

LEMMA TypeSkin ==
  ASSUME TypeInv, NEW t \in Threads,
         \/ Notify(t) \/ ReleaseAuto(t) \/ ReleaseAll(t) \/ Aim(t) \/ Settle(t)
         \/ Record(t) \/ Report(t)
  PROVE  TypeInv'
<1>1. UNCHANGED <<keeperVars, left, toNode, toPc, quiet, nodeVars, told>>
  BY DEF Notify, ReleaseAuto, ReleaseAll, Aim, Settle, Record, Report
<1>0. ScriptTyped /\ SkinTyped BY DEF TypeInv
<1>2. SkinTyped' /\ ScriptTyped'
  <2>1. CASE Notify(t)
    <3>1. script[t] # <<>> BY <1>0, <2>1, HeadTyped DEF Notify
    <3>2. Then(t, <<>>) BY <2>1 DEF Notify
    <3> QED BY <1>0, <2>1, <3>1, <3>2, ThenNone DEF Notify, SkinTyped
  <2>2. CASE ReleaseAuto(t)
    <3>0. At(t, "release auto") BY <2>2 DEF ReleaseAuto
    <3>1. script[t] # <<>> /\ Arg(t) \in Chambers
      BY <1>0, <3>0, ChamberArg DEF ChamberDos
    <3>2. <<Step("stop hold", Arg(t))>> \in Seq(Steps) /\ <<>> \in Seq(Steps)
      BY <3>1, OneStep
    <3>3. ScriptTyped'
      <4>1. \E more \in Seq(Steps) : Then(t, more) BY <2>2, <3>2 DEF ReleaseAuto
      <4> QED BY <1>0, <3>1, <4>1, ThenTyped
    <3> QED BY <1>0, <2>2, <3>3 DEF ReleaseAuto, SkinTyped
  <2>3. CASE ReleaseAll(t)
    <3>1. script[t] # <<>> BY <1>0, <2>3, HeadTyped DEF ReleaseAll
    <3>2. SetToSeq(Chambers) \in Seq(Chambers) BY ListTyped
    <3>3. \A c \in Chambers : Step("stop hold", c) \in Steps BY StepTyped DEF Step
    <3>4. Sections("stop hold", SetToSeq(Chambers)) \in Seq(Steps)
      BY <3>2, <3>3, SectionsTyped
    <3>5. ScriptTyped' BY <1>0, <2>3, <3>1, <3>4, ThenTyped DEF ReleaseAll
    <3> QED BY <1>0, <2>3, <3>5 DEF ReleaseAll, SkinTyped
  <2>4. CASE Aim(t)
    <3>0. At(t, "aim") /\ Then(t, <<>>) BY <2>4 DEF Aim
    <3>1. script[t] # <<>> /\ Arg(t) \in Chambers
      BY <1>0, <3>0, ChamberArg DEF ChamberDos
    <3>2. ScriptTyped' BY <1>0, <3>0, <3>1, ThenNone
    <3> QED BY <1>0, <2>4, <3>1, <3>2 DEF Aim, SkinTyped
  <2>5. CASE Settle(t)
    <3>0. At(t, "settle") BY <2>5 DEF Settle
    <3>1. script[t] # <<>> /\ Arg(t) \in Chambers
      BY <1>0, <3>0, ChamberArg DEF ChamberDos
    <3>2. <<Step("app", Arg(t))>> \in Seq(Steps) /\ <<>> \in Seq(Steps)
      BY <3>1, OneStep DEF ChamberDos
    <3>3. ScriptTyped'
      <4>1. \E more \in Seq(Steps) : Then(t, more) BY <2>5, <3>2 DEF Settle
      <4> QED BY <1>0, <3>1, <4>1, ThenTyped
    <3> QED BY <1>0, <2>5, <3>3 DEF Settle, skinVars, SkinTyped
  <2>6. CASE Record(t)
    <3>0. At(t, "record") /\ Then(t, <<>>) BY <2>6 DEF Record
    <3>1. script[t] # <<>> /\ Arg(t) \in Chambers
      BY <1>0, <3>0, ChamberArg DEF ChamberDos
    <3>2. ScriptTyped' BY <1>0, <3>0, <3>1, ThenNone
    <3> QED BY <1>0, <2>6, <3>1, <3>2 DEF Record, SkinTyped
  <2>7. CASE Report(t)
    <3>0. At(t, "runs") \/ At(t, "idle") BY <2>7 DEF Report
    <3>1. script[t] # <<>> /\ Arg(t) \in Chambers
      BY <1>0, <3>0, ChamberArg DEF ChamberDos
    <3>2. <<Step("settle", Arg(t))>> \in Seq(Steps) /\ <<>> \in Seq(Steps)
      BY <3>1, OneStep DEF ChamberDos
    <3>3. ScriptTyped'
      <4>1. \E more \in Seq(Steps) : Then(t, more) BY <2>7, <3>2 DEF Report
      <4> QED BY <1>0, <3>1, <4>1, ThenTyped
    <3> QED BY <1>0, <2>7, <3>1, <3>3 DEF Report, SkinTyped
  <2> QED BY <2>1, <2>2, <2>3, <2>4, <2>5, <2>6, <2>7
<1> QED BY <1>1, <1>2 DEF TypeInv, KeeperTyped, LinkTyped, NodeTyped, LeftTyped,
                         keeperVars, nodeVars

LEMMA TransmitTyped ==
  ASSUME toNode \in Seq(Frames), NEW q \in Seq(Frames), Transmit(q)
  PROVE  toNode' \in Seq(Frames)
BY DEF Transmit

LEMMA FrameTyped ==
  /\ \A c \in Chambers, who \in {"app", "bench"} :
       Frame("start", c, who) \in Frames /\ Frame("ka", c, who) \in Frames
  /\ \A c \in Chambers \cup {All} : Frame("off", c, "none") \in Frames
  /\ \A c \in Chambers : Frame("move", c, "none") \in Commands
  /\ Frame("stop", All, "none") \in Commands /\ Frame("resume", All, "none") \in Commands
  /\ Commands \subseteq Frames
BY DEF Frames, Commands, Frame

\* The keeper's own types, and its history's.
LEMMA TypeKeeper ==
  ASSUME TypeInv, NEW t \in Threads,
         \/ StartHold(t, "app") \/ StartHold(t, "bench") \/ StopHold(t) \/ DropAll(t)
         \/ ClaimBench(t) \/ UnclaimBench(t) \/ Command(t)
  PROVE  TypeInv'
<1>1. UNCHANGED <<leaving, silent, skinVars, left, toPc, quiet, nodeVars>>
  BY DEF StartHold, StopHold, DropAll, ClaimBench, UnclaimBench, Command, keeperVars
<1> DEFINE Done == /\ KeeperTyped' /\ ScriptTyped' /\ toNode' \in Seq(Frames)
                   /\ told' \in [Chambers -> {"none", "start", "ka", "off"}]
<1>2. Done
  <2> USE DEF TypeInv, LinkTyped
  <2>1. ASSUME NEW who \in {"app", "bench"}, StartHold(t, who) PROVE Done
    <3>0. At(t, who) /\ who \in ChamberDos BY <2>1 DEF StartHold, ChamberDos
    <3>1. script[t] # <<>> /\ Arg(t) \in Chambers BY <3>0, ChamberArg
    <3>2. CASE Refused(who)
      <4>1. Then(t, <<>>) /\ UNCHANGED <<keeperVars, toNode, told>>
        BY <2>1, <3>2 DEF StartHold
      <4>2. ScriptTyped' BY <3>1, <4>1, ThenNone
      <4> QED BY <4>1, <4>2 DEF keeperVars, KeeperTyped
    <3>3. CASE ~Refused(who)
      <4>1. /\ holds' = [holds EXCEPT ![Arg(t)] = who] /\ loop' = Ensured
            /\ Transmit(<<Frame("start", Arg(t), who)>>)
            /\ told' = [told EXCEPT ![Arg(t)] = "start"]
            /\ Then(t, IF who = "app" THEN <<Step("record", Arg(t))>> ELSE <<>>)
            /\ UNCHANGED <<bench, silent, leaving>>
        BY <2>1, <3>3 DEF StartHold
      <4>2. <<Step("record", Arg(t))>> \in Seq(Steps) /\ <<>> \in Seq(Steps)
        BY <3>1, OneStep DEF ChamberDos
      <4>3. ScriptTyped'
        <5>1. \E more \in Seq(Steps) : Then(t, more) BY <4>1, <4>2
        <5> QED BY <3>1, <5>1, ThenTyped
      <4>4. <<Frame("start", Arg(t), who)>> \in Seq(Frames)
        BY <3>1, FrameTyped
      <4>5. toNode' \in Seq(Frames) BY <4>1, <4>4, TransmitTyped
      <4>6. KeeperTyped' BY <3>1, <4>1 DEF KeeperTyped, Owners, Ensured
      <4> QED BY <3>1, <4>1, <4>3, <4>5, <4>6
    <3> QED BY <3>2, <3>3
  <2>2. CASE StopHold(t)
    <3>1. script[t] # <<>> /\ Arg(t) \in Chambers \cup {All}
      BY <2>2, HeadTyped, StepTyped DEF StopHold
    <3>2. <<Frame("off", Arg(t), "none")>> \in Seq(Frames)
      BY <3>1, FrameTyped
    <3>3. toNode' \in Seq(Frames)
      BY <2>2, <3>2, TransmitTyped DEF StopHold
    <3>4. ScriptTyped'
      <4>1. Then(t, <<>>) BY <2>2 DEF StopHold
      <4> QED BY <3>1, <4>1, ThenNone
    <3>5. KeeperTyped' BY <2>2 DEF StopHold, Popped, KeeperTyped, Owners
    <3>6. told' \in [Chambers -> {"none", "start", "ka", "off"}]
      BY <2>2 DEF StopHold, Ended
    <3> QED BY <3>3, <3>4, <3>5, <3>6
  <2>3. CASE DropAll(t)
    <3>1. script[t] # <<>> BY <2>3, HeadTyped DEF DropAll
    <3>3. ScriptTyped' BY <2>3, <3>1, NotifyStep, ThenTyped DEF DropAll
    <3> QED BY <2>3, <3>3 DEF DropAll, Ended, KeeperTyped, Owners, Nothing
  <2>4. CASE ClaimBench(t)
    <3>1. script[t] # <<>> BY <2>4, HeadTyped DEF ClaimBench
    <3>3. ScriptTyped' BY <2>4, <3>1, NotifyStep, ThenTyped DEF ClaimBench
    <3>4. <<Frame("off", All, "none")>> \in Seq(Frames) BY FrameTyped
    <3>5. toNode' \in Seq(Frames) BY <2>4, <3>4, TransmitTyped DEF ClaimBench
    <3>6. told' \in [Chambers -> {"none", "start", "ka", "off"}]
      BY <2>4 DEF ClaimBench, Ended
    <3> QED BY <2>4, <3>3, <3>5, <3>6
            DEF ClaimBench, KeeperTyped, Owners, Nothing, AppDropped
  <2>5. CASE UnclaimBench(t)
    <3>1. script[t] # <<>> BY <2>5, HeadTyped DEF UnclaimBench
    <3>2. /\ Then(t, <<>>) /\ bench' = FALSE
          /\ UNCHANGED <<holds, loop, silent, leaving, toNode, told>>
      BY <2>5 DEF UnclaimBench
    <3>3. ScriptTyped' BY <3>1, <3>2, ThenNone
    <3> QED BY <3>2, <3>3 DEF KeeperTyped
  <2>6. CASE Command(t)
    <3>1. script[t] # <<>> /\ Arg(t) \in Frames
      BY <2>6, HeadTyped, StepTyped, FrameTyped DEF Command
    <3>2. /\ Transmit(<<Arg(t)>>) /\ Then(t, <<>>)
          /\ UNCHANGED <<keeperVars, told>>
      BY <2>6 DEF Command
    <3>3. <<Arg(t)>> \in Seq(Frames) BY <3>1
    <3>4. toNode' \in Seq(Frames) BY <3>2, <3>3, TransmitTyped
    <3>5. ScriptTyped' BY <3>1, <3>2, ThenNone
    <3> QED BY <3>2, <3>4, <3>5 DEF KeeperTyped, keeperVars
  <2> QED BY <2>1, <2>2, <2>3, <2>4, <2>5, <2>6
<1> QED BY <1>1, <1>2 DEF TypeInv, SkinTyped, LinkTyped, NodeTyped, LeftTyped,
                         skinVars, nodeVars

LEMMA TypeKeepalive ==
  ASSUME TypeInv, Wake \/ Tick \/ Leave
  PROVE  TypeInv'
<1>1. UNCHANGED <<bench, moving, pose, script, left, toPc, quiet, nodeVars>>
  BY DEF Wake, Tick, Leave, skinVars, nodeVars
<1>0. KeeperTyped /\ SkinTyped /\ LinkTyped BY DEF TypeInv
<1> DEFINE Done == /\ KeeperTyped' /\ SkinTyped' /\ toNode' \in Seq(Frames)
                   /\ told' \in [Chambers -> {"none", "start", "ka", "off"}]
<1>2. CASE Wake
  <2>1. /\ loop' = "ticking" /\ silent' = quiet
        /\ UNCHANGED <<holds, leaving, autoHeld, toNode, told>>
    BY <1>2 DEF Wake, skinVars
  <2> QED BY <1>0, <1>1, <2>1
          DEF TypeInv, KeeperTyped, SkinTyped, ScriptTyped, LinkTyped, NodeTyped,
              LeftTyped, nodeVars
<1>3. CASE Leave
  <2>1. /\ leaving' = {} /\ autoHeld' = autoHeld \ leaving
        /\ UNCHANGED <<holds, loop, silent, toNode, told>>
    BY <1>3 DEF Leave
  <2> QED BY <1>0, <1>1, <2>1
          DEF TypeInv, KeeperTyped, SkinTyped, ScriptTyped, LinkTyped, NodeTyped,
              LeftTyped, nodeVars
<1>4. CASE Tick
  <2>0. UNCHANGED <<silent, autoHeld>> BY <1>4 DEF Tick, skinVars
  <2>1. CASE Keep
    <3>1. /\ Transmit(Refresh(SetToSeq(Held))) /\ loop' = "asleep"
          /\ told' = [c \in Chambers |-> IF c \in Held THEN "ka" ELSE told[c]]
          /\ UNCHANGED <<holds, leaving>>
      BY <1>4, <2>1 DEF Tick
    <3>2. Held \in SUBSET Chambers BY DEF Held
    <3>3. SetToSeq(Held) \in Seq(Held) BY <3>2, ListTyped
    <3> DEFINE q == SetToSeq(Held)
    <3>4. \A c \in Held : Frame("ka", c, holds[c]) \in Frames
      BY <1>0, FrameTyped DEF KeeperTyped, Owners, Held
    <3> HIDE DEF q
    <3>5. \A i \in DOMAIN q : q[i] \in Held BY <3>3 DEF q
    <3>6. Refresh(q) \in [1..Len(q) -> Frames]
      BY <3>3, <3>4, <3>5 DEF Refresh, q
    <3>7. Refresh(q) \in Seq(Frames) BY <3>3, <3>6 DEF q
    <3>8. toNode' \in Seq(Frames) BY <1>0, <3>1, <3>7, TransmitTyped DEF q, LinkTyped
    <3>9. told' \in [Chambers -> {"none", "start", "ka", "off"}]
      BY <3>1 DEF TypeInv
    <3> QED BY <1>0, <1>1, <2>0, <3>1, <3>8, <3>9
            DEF TypeInv, KeeperTyped, SkinTyped, ScriptTyped, LinkTyped, NodeTyped,
                LeftTyped, nodeVars
  <2>2. CASE ~Keep
    <3>1. /\ leaving' = Held /\ holds' = Nothing /\ loop' = "none"
          /\ told' = [c \in Chambers |-> IF c \in Held THEN "off" ELSE told[c]]
          /\ UNCHANGED toNode
      BY <1>4, <2>2 DEF Tick, Ended
    <3>2. leaving' \subseteq Chambers /\ holds' \in Owners
      BY <3>1 DEF Held, Nothing, Owners
    <3>3. told' \in [Chambers -> {"none", "start", "ka", "off"}]
      BY <3>1 DEF TypeInv
    <3> QED BY <1>0, <1>1, <2>0, <3>1, <3>2, <3>3
            DEF TypeInv, KeeperTyped, SkinTyped, ScriptTyped, LinkTyped, NodeTyped,
                LeftTyped, nodeVars
  <2> QED BY <2>1, <2>2
<1> QED BY <1>2, <1>3, <1>4

LEMMA TypeReceive ==
  ASSUME TypeInv, Receive
  PROVE  TypeInv'
<1> DEFINE m == Head(toPc)
           steps == IF m.k = "boot" THEN <<Step("drop", All)>>
                    ELSE Sections("runs", SetToSeq(m.running))
                         \o Sections("idle", SetToSeq(Chambers \ m.running))
<1>1. /\ toPc # <<>> /\ toPc' = Tail(toPc) /\ quiet' = FALSE
      /\ script' = [script EXCEPT !["reader"] = steps]
      /\ UNCHANGED <<keeperVars, skinVars, left, toNode, nodeVars, told>>
  BY DEF Receive
<1>2. toPc \in Seq(Statuses) BY DEF TypeInv, LinkTyped
<1>3. m \in Statuses /\ toPc' \in Seq(Statuses) /\ Len(toPc') <= Len(toPc)
      /\ Len(toPc') \in Nat /\ Len(toPc) \in Nat
  BY <1>1, <1>2
<1>4. steps \in Seq(Steps)
  <2>1. CASE m.k = "boot"
    <3>1. Step("drop", All) \in Steps BY StepTyped DEF Step
    <3> QED BY <2>1, <3>1, Single
  <2>2. CASE m.k # "boot"
    <3>1. m.running \in SUBSET Chambers BY <1>3, <2>2 DEF Statuses
    <3>2. \A c \in Chambers : Step("runs", c) \in Steps /\ Step("idle", c) \in Steps
      BY StepTyped DEF Step
    <3>3. /\ SetToSeq(m.running) \in Seq(m.running)
          /\ SetToSeq(Chambers \ m.running) \in Seq(Chambers \ m.running)
      BY <3>1, ListTyped
    <3>4. Sections("runs", SetToSeq(m.running)) \in Seq(Steps)
      BY <3>1, <3>2, <3>3, SectionsTyped
    <3>5. Sections("idle", SetToSeq(Chambers \ m.running)) \in Seq(Steps)
      BY <3>1, <3>2, <3>3, SectionsTyped
    <3>6. \A p, q \in Seq(Steps) : p \o q \in Seq(Steps) OBVIOUS
    <3> QED BY <2>2, <3>4, <3>5, <3>6
  <2> QED BY <2>1, <2>2
<1>5. ScriptTyped' BY <1>1, <1>4 DEF TypeInv, ScriptTyped
<1>6. LeftTyped'
  BY <1>1, <1>3, HoldLinkAssumption DEF TypeInv, LeftTyped, nodeVars
<1> QED BY <1>1, <1>3, <1>5, <1>6
        DEF TypeInv, KeeperTyped, SkinTyped, LinkTyped, NodeTyped, keeperVars, skinVars,
            nodeVars

LEMMA Short ==
  ASSUME NEW S, NEW a \in S, NEW b \in S, NEW c \in S, NEW d \in S, NEW e \in S
  PROVE  /\ <<a>> \in Seq(S) /\ <<a, b>> \in Seq(S) /\ <<a, b, c>> \in Seq(S)
         /\ <<a, b, c, d>> \in Seq(S) /\ <<a, b, c, d, e>> \in Seq(S)
OBVIOUS

\* Every operation of the GUI thread is a script of typed sections.
LEMMA ScriptsTyped ==
  /\ \A c \in Chambers :
       /\ <<Step("release auto", c), Step("aim", c), Send("move", c), Step("settle", c)>>
            \in Seq(Steps)
       /\ <<Step("release auto", c), Step("aim", c), Send("move", c)>> \in Seq(Steps)
       /\ <<Step("bench", c)>> \in Seq(Steps)
       /\ <<Step("stop hold", c)>> \in Seq(Steps)
       /\ <<Step("stop hold", c), Send("move", c)>> \in Seq(Steps)
  /\ <<Step("release all", All), Step("drop", All), Send("stop", All)>> \in Seq(Steps)
  /\ <<Send("resume", All)>> \in Seq(Steps)
  /\ HaltAndRearm \in Seq(Steps)
  /\ <<Step("claim", All)>> \in Seq(Steps)
  /\ ReleaseBench \in Seq(Steps)
  /\ <<Step("stop hold", All)>> \in Seq(Steps)
<1>1. \A c \in Chambers : /\ Step("release auto", c) \in Steps /\ Step("aim", c) \in Steps
                          /\ Step("settle", c) \in Steps /\ Step("bench", c) \in Steps
                          /\ Step("stop hold", c) \in Steps
  BY StepTyped DEF Step
<1>2. /\ Step("release all", All) \in Steps /\ Step("drop", All) \in Steps
      /\ Step("claim", All) \in Steps /\ Step("unclaim", All) \in Steps
      /\ Step("stop hold", All) \in Steps
  BY StepTyped DEF Step
<1>3. /\ \A c \in Chambers : Send("move", c) \in Steps
      /\ Send("stop", All) \in Steps /\ Send("resume", All) \in Steps
  BY StepTyped, FrameTyped DEF Send, Step
<1>4. ASSUME NEW c \in Chambers
      PROVE  /\ <<Step("release auto", c), Step("aim", c), Send("move", c), Step("settle", c)>>
                  \in Seq(Steps)
             /\ <<Step("release auto", c), Step("aim", c), Send("move", c)>> \in Seq(Steps)
             /\ <<Step("bench", c)>> \in Seq(Steps)
             /\ <<Step("stop hold", c)>> \in Seq(Steps)
             /\ <<Step("stop hold", c), Send("move", c)>> \in Seq(Steps)
  BY <1>1, <1>3, Short
<1>5. <<Step("release all", All), Step("drop", All), Send("stop", All)>> \in Seq(Steps)
  BY <1>2, <1>3, Short
<1>8. /\ <<Send("resume", All)>> \in Seq(Steps)
      /\ <<Step("claim", All)>> \in Seq(Steps)
      /\ <<Step("stop hold", All)>> \in Seq(Steps)
  BY <1>2, <1>3, Single
<1>6. HaltAndRearm \in Seq(Steps) BY <1>2, <1>3, Short DEF HaltAndRearm
<1>7. ReleaseBench \in Seq(Steps) BY <1>2, Short DEF ReleaseBench
<1> QED BY <1>4, <1>5, <1>6, <1>7, <1>8

LEMMA TypeGui ==
  ASSUME TypeInv, Gui
  PROVE  TypeInv'
<1>1. \A p, q \in Seq(Steps) : p \o q \in Seq(Steps) OBVIOUS
<1>2. PICK o \in GuiOps, steps \in Seq(Steps) : Begin(o, steps)
  BY <1>1, ScriptsTyped
     DEF Gui, Actuate, Deflate, EmergencyStop, Rearm, Shutdown, Claim, BenchHold,
         BenchRelease, BenchMove, Close, LeaveRunning, GuiOps
<1>3. ScriptTyped' BY <1>2 DEF Begin, TypeInv, ScriptTyped, Threads
<1>4. LeftTyped'
  <2>1. PICK m \in Mixes :
          /\ left \in [may : {m.may}, ops : 0..m.ops, cycles : 0..m.cycles]
          /\ Len(toPc) + left.cycles + (IF up THEN 0 ELSE 1) <= MaxFrames + m.cycles
    BY DEF TypeInv, LeftTyped
  <2>2. m.ops \in Nat /\ m.cycles \in Nat BY HoldLinkAssumption
  <2>3. /\ left.ops > 0 /\ left' = [left EXCEPT !.ops = @ - 1]
        /\ UNCHANGED <<toPc, up>>
    BY <1>2 DEF Begin, nodeVars
  <2>4. left' \in [may : {m.may}, ops : 0..m.ops, cycles : 0..m.cycles]
        /\ left'.cycles = left.cycles
    BY SMTT(20), <2>1, <2>2, <2>3
  <2> QED BY <2>1, <2>3, <2>4 DEF LeftTyped
<1> QED BY <1>2, <1>3, <1>4
        DEF Begin, TypeInv, KeeperTyped, SkinTyped, LinkTyped, NodeTyped, keeperVars,
            skinVars, nodeVars

\* What the node does to a frame keeps its own state typed.
LEMMA TypeObey ==
  ASSUME TypeInv, NEW f \in Frames, Obey(f)
  PROVE  held' \in Owners /\ running' \subseteq Chambers /\ latched' \in BOOLEAN
<1>1. held \in Owners /\ running \subseteq Chambers /\ latched \in BOOLEAN
  BY DEF TypeInv, NodeTyped
<1>2. \A c : [held EXCEPT ![c] = "none"] \in Owners BY <1>1 DEF Owners
<1>3. Nothing \in Owners BY DEF Nothing, Owners
<1>4. /\ f.k = "start" => f.who \in {"none", "app", "bench"}
      /\ f.k = "move" => f.ch \in Chambers
  BY DEF Frames, Commands
<1>5. f.k = "start" => [held EXCEPT ![f.ch] = f.who] \in Owners
  BY <1>1, <1>4 DEF Owners
<1> QED BY <1>1, <1>2, <1>3, <1>4, <1>5 DEF Obey, Untouched, NodeDrop

LEMMA TypeNode ==
  ASSUME TypeInv, Node
  PROVE  TypeInv'
<1>1. UNCHANGED <<keeperVars, skinVars, script, left, quiet, up, told>>
  BY DEF Node, NodeReceive, NodeStatus, NodeSettle, DeadMan, nodeVars
<1>2. held' \in Owners /\ running' \subseteq Chambers /\ latched' \in BOOLEAN
      /\ toNode' \in Seq(Frames)
  <2>1. CASE NodeReceive
    <3>1. Head(toNode) \in Frames /\ Tail(toNode) \in Seq(Frames)
      BY <2>1 DEF NodeReceive, TypeInv, LinkTyped
    <3>2. CASE up BY <2>1, <3>1, <3>2, TypeObey DEF NodeReceive
    <3>3. CASE ~up
      BY <2>1, <3>1, <3>3 DEF NodeReceive, Untouched, TypeInv, NodeTyped
    <3> QED BY <3>2, <3>3
  <2>2. CASE NodeStatus
    BY <2>2 DEF NodeStatus, nodeVars, TypeInv, NodeTyped, LinkTyped
  <2>3. CASE \E c \in Chambers : NodeSettle(c)
    BY <2>3 DEF NodeSettle, TypeInv, NodeTyped, LinkTyped
  <2>4. CASE \E c \in Chambers : DeadMan(c)
    BY <2>4 DEF DeadMan, NodeDrop, TypeInv, NodeTyped, LinkTyped, Owners
  <2> QED BY <2>1, <2>2, <2>3, <2>4 DEF Node
<1>3. toPc' \in Seq(Statuses) /\ LeftTyped'
  <2>1. PICK m \in Mixes :
          /\ left \in [may : {m.may}, ops : 0..m.ops, cycles : 0..m.cycles]
          /\ Len(toPc) + left.cycles + (IF up THEN 0 ELSE 1) <= MaxFrames + m.cycles
    BY DEF TypeInv, LeftTyped
  <2>2. CASE NodeStatus
    <3>1. [k |-> "status", running |-> running] \in Statuses
      BY DEF TypeInv, NodeTyped, Statuses
    <3>2. /\ up /\ Len(toPc) < MaxFrames
          /\ toPc' = Append(toPc, [k |-> "status", running |-> running])
      BY <2>2 DEF NodeStatus
    <3>3. toPc \in Seq(Statuses) BY DEF TypeInv, LinkTyped
    <3>4. toPc' \in Seq(Statuses) /\ Len(toPc') = Len(toPc) + 1 /\ Len(toPc) \in Nat
      BY <3>1, <3>2, <3>3
    <3>5. left.cycles \in 0..m.cycles /\ m.cycles \in Nat /\ MaxFrames \in Nat
      BY <2>1, HoldLinkAssumption
    <3>6. Len(toPc') + left.cycles <= MaxFrames + m.cycles
      BY <3>2, <3>4, <3>5
    <3> QED BY <1>1, <2>1, <3>2, <3>4, <3>6 DEF LeftTyped
  <2>3. CASE ~NodeStatus
    <3>1. toPc' = toPc BY <2>3 DEF Node, NodeReceive, NodeSettle, DeadMan
    <3> QED BY <1>1, <2>1, <3>1 DEF TypeInv, LinkTyped, LeftTyped
  <2> QED BY <2>2, <2>3
<1> QED BY <1>1, <1>2, <1>3
        DEF TypeInv, KeeperTyped, SkinTyped, ScriptTyped, LinkTyped, NodeTyped,
            keeperVars, skinVars

LEMMA TypePower ==
  ASSUME TypeInv, PowerOff \/ PowerOn \/ FallSilent
  PROVE  TypeInv'
<1>1. UNCHANGED <<keeperVars, skinVars, script, toNode, told>>
  BY DEF PowerOff, PowerOn, FallSilent
<1>0. PICK m \in Mixes :
        /\ left \in [may : {m.may}, ops : 0..m.ops, cycles : 0..m.cycles]
        /\ Len(toPc) + left.cycles + (IF up THEN 0 ELSE 1) <= MaxFrames + m.cycles
  BY DEF TypeInv, LeftTyped
<1>2. m.cycles \in Nat /\ m.ops \in Nat /\ MaxFrames \in Nat BY HoldLinkAssumption
<1>3. toPc \in Seq(Statuses) /\ Len(toPc) \in Nat BY DEF TypeInv, LinkTyped
<1>4. NodeTyped' /\ toPc' \in Seq(Statuses) /\ quiet' \in BOOLEAN /\ LeftTyped'
  <2>1. CASE PowerOff
    <3>1. /\ up /\ left.cycles > 0 /\ left' = [left EXCEPT !.cycles = @ - 1]
          /\ up' = FALSE /\ UNCHANGED <<toPc, quiet>>
      BY <2>1 DEF PowerOff
    <3>2. /\ left' \in [may : {m.may}, ops : 0..m.ops, cycles : 0..m.cycles]
          /\ left'.cycles = left.cycles - 1
      BY <1>0, <1>2, <3>1
    <3>3. Len(toPc') + left'.cycles + 1 <= MaxFrames + m.cycles
      BY <1>0, <1>2, <1>3, <3>1, <3>2
    <3>4. LeftTyped' BY <3>1, <3>2, <3>3 DEF LeftTyped
    <3> QED BY <1>3, <2>1, <3>1, <3>4
            DEF PowerOff, NodeTyped, Nothing, Owners, TypeInv, LinkTyped
  <2>2. CASE PowerOn
    <3>1. [k |-> "boot"] \in Statuses BY DEF Statuses
    <3>2. /\ ~up /\ up' = TRUE /\ toPc' = Append(toPc, [k |-> "boot"])
          /\ UNCHANGED <<left, quiet, held, latched, running>>
      BY <2>2 DEF PowerOn
    <3>3. toPc' \in Seq(Statuses) /\ Len(toPc') = Len(toPc) + 1
      BY <1>3, <3>1, <3>2
    <3>4. LeftTyped' BY <1>0, <1>2, <1>3, <3>2, <3>3 DEF LeftTyped
    <3> QED BY <3>2, <3>3, <3>4 DEF NodeTyped, TypeInv, LinkTyped
  <2>3. CASE FallSilent
    BY <1>0, <2>3 DEF FallSilent, nodeVars, TypeInv, LinkTyped, NodeTyped, LeftTyped
  <2> QED BY <2>1, <2>2, <2>3
<1> QED BY <1>1, <1>4
        DEF TypeInv, KeeperTyped, SkinTyped, ScriptTyped, LinkTyped, keeperVars, skinVars

LEMMA TypesInit == Init => TypeInv
<1> SUFFICES ASSUME Init PROVE TypeInv OBVIOUS
<1>1. LeftTyped
  <2>1. left \in Mixes /\ Len(toPc) = 0 /\ up BY DEF Init
  <2>2. left.may \in SUBSET GuiOps /\ left.ops \in Nat /\ left.cycles \in Nat
        /\ MaxFrames \in Nat /\ left = [may |-> left.may, ops |-> left.ops, cycles |-> left.cycles]
    BY <2>1, HoldLinkAssumption
  <2>3. left \in [may : {left.may}, ops : 0..left.ops, cycles : 0..left.cycles]
    BY <2>2
  <2>4. Len(toPc) + left.cycles + (IF up THEN 0 ELSE 1) <= MaxFrames + left.cycles
    BY <2>1, <2>2
  <2> QED BY <2>1, <2>3, <2>4 DEF LeftTyped
<1>2. Nothing \in Owners /\ told \in [Chambers -> {"none", "start", "ka", "off"}]
  BY DEF Init, Nothing, Owners
<1>3. KeeperTyped /\ SkinTyped /\ NodeTyped
  BY <1>2 DEF Init, KeeperTyped, SkinTyped, NodeTyped
<1>4. ScriptTyped /\ LinkTyped
  <2>1. <<>> \in Seq(Steps) /\ <<>> \in Seq(Frames) /\ <<>> \in Seq(Statuses) OBVIOUS
  <2> QED BY <2>1 DEF Init, ScriptTyped, LinkTyped
<1> QED BY <1>1, <1>2, <1>3, <1>4 DEF TypeInv

LEMMA TypesNext == TypeInv /\ [Next]_vars => TypeInv'
<1> SUFFICES ASSUME TypeInv, [Next]_vars PROVE TypeInv' OBVIOUS
<1>1. CASE UNCHANGED vars
  BY <1>1 DEF vars, keeperVars, skinVars, nodeVars, TypeInv, KeeperTyped, SkinTyped,
              ScriptTyped, LinkTyped, NodeTyped, LeftTyped
<1>2. ASSUME NEW t \in Threads, Run(t) PROVE TypeInv'
  BY <1>2, TypeSkin, TypeKeeper DEF Run
<1> QED BY <1>1, <1>2, TypeGui, TypeReceive, TypeKeepalive, TypeNode, TypePower DEF Next

LEMMA TypesHold ==
  ASSUME TypeInv
  PROVE  TypeOK
<1>1. PICK m \in Mixes :
        /\ left \in [may : {m.may}, ops : 0..m.ops, cycles : 0..m.cycles]
        /\ Len(toPc) + left.cycles + (IF up THEN 0 ELSE 1) <= MaxFrames + m.cycles
  BY DEF TypeInv, LeftTyped
<1>2. m.cycles \in Nat /\ left.cycles \in Nat /\ MaxFrames \in Nat /\ Len(toPc) \in Nat
  BY <1>1, HoldLinkAssumption DEF TypeInv, LinkTyped
<1>3. Len(toPc) <= MaxFrames + m.cycles BY <1>1, <1>2
<1>4. left.may = m.may /\ left.ops \in 0..m.ops /\ left.cycles \in 0..m.cycles
  BY <1>1
<1> QED BY <1>3, <1>4
        DEF TypeInv, TypeOK, KeeperTyped, SkinTyped, ScriptTyped, LinkTyped, NodeTyped

\* Whatever the GUI, the read thread, the keepalive thread, the link and the
\* power switch do, every section a thread still has to run, every frame on the
\* link and the keeper's and the node's own state keep their types.
THEOREM TypeCorrect == Spec => []TypeOK
BY TypesInit, TypesNext, TypesHold, PTL DEF Spec

-----------------------------------------------------------------------------
(* A claim releases what the application held *)

HIDE DEF KeeperTyped, SkinTyped, ScriptTyped, LinkTyped, NodeTyped, LeftTyped

\* A node that may be claimed keeps its power: a boot announcement that arrives
\* late empties the keeper without a word to the node (hold_keeper.py:153), and
\* a claim right after it finds nothing to release.
ClaimsUnderPower == \A m \in Mixes : "claim" \in m.may => m.cycles = 0

ClaimFree(q) == \A i \in 1..Len(q) : q[i].do # "claim"
Plain(q) == \A i \in 1..Len(q) : q[i].do \notin {"drop", "claim"}
StopIn(q) == \E i \in 1..Len(q) : q[i] = Send("stop", All)
\* Where the GUI thread forgets every hold it goes on to stop the node.
StopFollows(q) ==
  \A i \in 1..Len(q) : q[i].do = "drop" =>
    \E j \in 1..Len(q) : j > i /\ q[j] = Send("stop", All)
ClaimAlone(q) == ~ClaimFree(q) => Len(q) = 1

Powered == /\ up /\ ~quiet /\ ~silent /\ left.cycles = 0
           /\ \A i \in 1..Len(toPc) : toPc[i].k # "boot"
ScriptsOrdered == /\ StopFollows(script["gui"]) /\ ClaimAlone(script["gui"])
                  /\ Plain(script["reader"])
LatchedEmpty == latched => held = Nothing

\* A hold of the application on the node, or on its way there, is one the
\* keeper still has, or one that a later frame, or a stop the GUI thread is
\* about to send, will end.
StartsApp(f, c) == f.k = "start" /\ f.ch = c /\ f.who = "app"
Ends(f, c) == \/ f.k = "stop"
              \/ f.k = "off" /\ f.ch \in {c, All}
              \/ f.k = "start" /\ f.ch = c /\ f.who = "bench"
EndedAfter(n, c) == \E j \in 1..Len(toNode) : j > n /\ Ends(toNode[j], c)
Excused(c) == holds[c] = "app" \/ (~bench /\ StopIn(script["gui"]))
Bound(c) ==
  /\ held[c] = "app" => Excused(c) \/ EndedAfter(0, c)
  /\ \A i \in 1..Len(toNode) : StartsApp(toNode[i], c) => Excused(c) \/ EndedAfter(i, c)

ClaimInv ==
  IF "claim" \in left.may
    THEN Powered /\ ScriptsOrdered /\ LatchedEmpty /\ \A c \in Chambers : Bound(c)
    ELSE ~bench /\ ClaimFree(script["gui"]) /\ ClaimFree(script["reader"])

LEMMA ClaimInit ==
  ASSUME ClaimsUnderPower, Init
  PROVE  ClaimInv
<1>1. /\ script["gui"] = <<>> /\ script["reader"] = <<>> /\ toPc = <<>> /\ toNode = <<>>
      /\ left \in Mixes
  BY DEF Init, Threads
<1>2. \A c \in Chambers : held[c] = "none" BY DEF Init, Nothing
<1>3. ScriptsOrdered BY <1>1 DEF ScriptsOrdered, StopFollows, ClaimAlone, ClaimFree, Plain
<1>4. ~bench /\ ClaimFree(script["gui"]) /\ ClaimFree(script["reader"])
  BY <1>1 DEF Init, ClaimFree
<1>5. \A c \in Chambers : Bound(c) BY <1>1, <1>2 DEF Bound
<1>6. "claim" \in left.may => left.cycles = 0 BY <1>1 DEF ClaimsUnderPower
<1>7. Len(toPc) = 0 BY <1>1
<1> QED BY <1>1, <1>3, <1>4, <1>5, <1>6, <1>7 DEF Init, ClaimInv, Powered, LatchedEmpty

-----------------------------------------------------------------------------
(* Scripts *)

LEMMA After ==
  ASSUME NEW S, NEW q \in Seq(S), q # <<>>, NEW more \in Seq(S)
  PROVE  LET r == more \o Tail(q)
         IN  /\ \A i \in 1..Len(r) : \/ i \in 1..Len(more) /\ r[i] = more[i]
                                     \/ \E j \in 2..Len(q) : /\ r[i] = q[j]
                                                             /\ i = j - 1 + Len(more)
             /\ \A j \in 2..Len(q) : /\ j - 1 + Len(more) \in 1..Len(r)
                                     /\ r[j - 1 + Len(more)] = q[j]
<1> DEFINE r == more \o Tail(q)
<1>1. /\ Len(q) \in Nat \ {0} /\ Len(Tail(q)) = Len(q) - 1 /\ Len(more) \in Nat
      /\ Tail(q) \in Seq(S)
  OBVIOUS
<1>2. Len(r) = Len(more) + Len(q) - 1 BY <1>1
<1>3. \A j \in 2..Len(q) : Tail(q)[j - 1] = q[j] BY <1>1
<1>4. \A i \in 1..Len(r) : r[i] = IF i <= Len(more) THEN more[i] ELSE Tail(q)[i - Len(more)]
  BY <1>1, <1>2
<1>5. ASSUME NEW i \in 1..Len(r)
      PROVE  \/ i \in 1..Len(more) /\ r[i] = more[i]
             \/ \E j \in 2..Len(q) : r[i] = q[j] /\ i = j - 1 + Len(more)
  <2>1. CASE i <= Len(more) BY <1>1, <1>2, <1>4, <2>1
  <2>2. CASE i > Len(more)
    <3>1. i - Len(more) + 1 \in 2..Len(q) BY <1>1, <1>2, <2>2
    <3>2. r[i] = q[i - Len(more) + 1] BY <1>1, <1>2, <1>3, <1>4, <2>2, <3>1
    <3> QED BY <1>1, <1>2, <3>1, <3>2
  <2> QED BY <1>1, <1>2, <2>1, <2>2
<1>6. ASSUME NEW j \in 2..Len(q)
      PROVE  j - 1 + Len(more) \in 1..Len(r) /\ r[j - 1 + Len(more)] = q[j]
  BY <1>1, <1>2, <1>3, <1>4
<1> HIDE DEF r
<1>7. /\ \A i \in 1..Len(r) : \/ i \in 1..Len(more) /\ r[i] = more[i]
                              \/ \E j \in 2..Len(q) : /\ r[i] = q[j]
                                                      /\ i = j - 1 + Len(more)
      /\ \A j \in 2..Len(q) : /\ j - 1 + Len(more) \in 1..Len(r)
                              /\ r[j - 1 + Len(more)] = q[j]
  BY <1>5, <1>6
<1> QED BY <1>7 DEF r

\* A section puts plain ones before the rest of its script: the order of what is
\* left stays, and a stop still to come is still to come unless it was the head.
LEMMA AfterOrdered ==
  ASSUME NEW q \in Seq(Steps), q # <<>>, NEW more \in Seq(Steps), Plain(more)
  PROVE  LET r == more \o Tail(q)
         IN  /\ StopFollows(q) => StopFollows(r)
             /\ ClaimAlone(q) => ClaimAlone(r)
             /\ Plain(q) => Plain(r)
             /\ ClaimFree(q) => ClaimFree(r)
             /\ StopIn(q) /\ Head(q) # Send("stop", All) => StopIn(r)
             /\ StopFollows(q) /\ Head(q).do = "drop" => StopIn(r)
<1> DEFINE r == more \o Tail(q)
<1>1. /\ \A i \in 1..Len(r) : \/ i \in 1..Len(more) /\ r[i] = more[i]
                              \/ \E j \in 2..Len(q) : /\ r[i] = q[j]
                                                      /\ i = j - 1 + Len(more)
      /\ \A j \in 2..Len(q) : /\ j - 1 + Len(more) \in 1..Len(r)
                              /\ r[j - 1 + Len(more)] = q[j]
  BY After
<1>2. /\ Len(q) \in Nat \ {0} /\ Head(q) = q[1] /\ Len(more) \in Nat
  OBVIOUS
<1> HIDE DEF r
<1>3. \A i \in 1..Len(q) : i = 1 \/ i \in 2..Len(q) BY <1>2
<1>4. StopFollows(q) => StopFollows(r)
  <2> SUFFICES ASSUME StopFollows(q), NEW i \in 1..Len(r), r[i].do = "drop"
               PROVE  \E k \in 1..Len(r) : k > i /\ r[k] = Send("stop", All)
    BY DEF StopFollows
  <2>1. PICK j \in 2..Len(q) : r[i] = q[j] /\ i = j - 1 + Len(more)
    BY <1>1 DEF Plain
  <2>2. PICK n \in 1..Len(q) : n > j /\ q[n] = Send("stop", All)
    BY <1>2, <2>1 DEF StopFollows
  <2>3. n \in 2..Len(q) /\ n - 1 + Len(more) > i BY <1>2, <2>1, <2>2
  <2> QED BY <1>1, <2>2, <2>3
<1>5. ClaimFree(q) => ClaimFree(r)
  <2> SUFFICES ASSUME ClaimFree(q), NEW i \in 1..Len(r) PROVE r[i].do # "claim"
    BY DEF ClaimFree
  <2>1. CASE i \in 1..Len(more) /\ r[i] = more[i] BY <2>1 DEF Plain
  <2>2. ASSUME NEW j \in 2..Len(q), r[i] = q[j] PROVE r[i].do # "claim"
    <3>1. j \in 1..Len(q) BY <1>2
    <3> QED BY <2>2, <3>1 DEF ClaimFree
  <2> QED BY <1>1, <2>1, <2>2
<1>6. Plain(q) => Plain(r)
  <2> SUFFICES ASSUME Plain(q), NEW i \in 1..Len(r) PROVE r[i].do \notin {"drop", "claim"}
    BY DEF Plain
  <2>1. CASE i \in 1..Len(more) /\ r[i] = more[i] BY <2>1 DEF Plain
  <2>2. ASSUME NEW j \in 2..Len(q), r[i] = q[j] PROVE r[i].do \notin {"drop", "claim"}
    <3>1. j \in 1..Len(q) BY <1>2
    <3> QED BY <2>2, <3>1 DEF Plain
  <2> QED BY <1>1, <2>1, <2>2
<1>7. ClaimAlone(q) => ClaimAlone(r)
  <2>1. CASE ClaimFree(q) BY <1>5, <2>1 DEF ClaimAlone
  <2>2. CASE ~ClaimFree(q) /\ Len(q) = 1
    <3>1. ClaimFree(r) BY <1>1, <1>2, <2>2 DEF ClaimFree, Plain
    <3> QED BY <3>1 DEF ClaimAlone
  <2> QED BY <2>1, <2>2 DEF ClaimAlone
<1>8. StopIn(q) /\ Head(q) # Send("stop", All) => StopIn(r)
  BY <1>1, <1>2, <1>3 DEF StopIn
<1>9. StopFollows(q) /\ Head(q).do = "drop" => StopIn(r)
  <2> SUFFICES ASSUME StopFollows(q), q[1].do = "drop" PROVE StopIn(r)
    BY <1>2
  <2>1. PICK n \in 1..Len(q) : n > 1 /\ q[n] = Send("stop", All)
    BY <1>2 DEF StopFollows
  <2>2. n \in 2..Len(q) BY <1>2, <2>1
  <2> QED BY <1>1, <2>1, <2>2 DEF StopIn
<1> QED BY <1>4, <1>5, <1>6, <1>7, <1>8, <1>9 DEF r

LEMMA PlainStep ==
  ASSUME NEW do, do \notin {"drop", "claim"}, NEW x
  PROVE  Plain(<<Step(do, x)>>)
BY DEF Plain, Step

LEMMA PlainNone == Plain(<<>>) /\ <<>> \in Seq(Steps)
BY DEF Plain

LEMMA PlainSections ==
  ASSUME NEW do, do \notin {"drop", "claim"}, NEW S, NEW q \in Seq(S)
  PROVE  Plain(Sections(do, q))
<1>1. Len(Sections(do, q)) = Len(q) /\ \A i \in 1..Len(q) : Sections(do, q)[i].do = do
  BY DEF Sections, Step
<1> QED BY <1>1 DEF Plain

\* A thread that runs a section replaces it by plain ones.
LEMMA RunThen ==
  ASSUME TypeInv, NEW t \in Threads, Run(t)
  PROVE  /\ script[t] # <<>> /\ script[t] \in Seq(Steps)
         /\ \E more \in Seq(Steps) : Plain(more) /\ Then(t, more)
<1>0. ScriptTyped /\ script[t] \in Seq(Steps) BY DEF TypeInv, ScriptTyped
<1>1. script[t] # <<>>
  BY DEF Run, StartHold, StopHold, DropAll, ClaimBench, UnclaimBench, Notify, ReleaseAuto,
         ReleaseAll, Aim, Settle, Record, Command, Report, At
<1> DEFINE Done == \E more \in Seq(Steps) : Plain(more) /\ Then(t, more)
<1> SUFFICES Done BY <1>0, <1>1
<1>2. ASSUME Then(t, <<>>) PROVE Done BY <1>2, PlainNone
<1>3. CASE StopHold(t) \/ UnclaimBench(t) \/ Notify(t) \/ Aim(t) \/ Record(t) \/ Command(t)
  BY <1>2, <1>3 DEF StopHold, UnclaimBench, Notify, Aim, Record, Command
<1>4. CASE DropAll(t) \/ ClaimBench(t)
  <2>1. Then(t, <<Step("notify", Held)>>) BY <1>4 DEF DropAll, ClaimBench
  <2>2. Plain(<<Step("notify", Held)>>) BY PlainStep
  <2> QED BY <2>1, <2>2, NotifyStep
<1>5. ASSUME NEW do \in ChamberDos \cup {"stop hold"}, NEW c \in Chambers,
             Then(t, <<Step(do, c)>>)
      PROVE  Done
  <2>1. Plain(<<Step(do, c)>>) BY PlainStep DEF ChamberDos
  <2> QED BY <1>5, <2>1, OneStep
<1>6. ASSUME NEW do \in ChamberDos, At(t, do) PROVE Arg(t) \in Chambers
  BY <1>0, <1>6, ChamberArg
<1>7. CASE StartHold(t, "app") \/ StartHold(t, "bench")
  <2>1. PICK who \in {"app", "bench"} : StartHold(t, who) BY <1>7
  <2>2. Arg(t) \in Chambers BY <1>6, <2>1 DEF StartHold, ChamberDos
  <2>3. Then(t, <<>>) \/ Then(t, <<Step("record", Arg(t))>>) BY <2>1 DEF StartHold
  <2> QED BY <1>2, <1>5, <2>2, <2>3 DEF ChamberDos
<1>8. CASE ReleaseAuto(t)
  <2>1. Arg(t) \in Chambers BY <1>6, <1>8 DEF ReleaseAuto, ChamberDos
  <2>2. Then(t, <<>>) \/ Then(t, <<Step("stop hold", Arg(t))>>) BY <1>8 DEF ReleaseAuto
  <2> QED BY <1>2, <1>5, <2>1, <2>2
<1>9. CASE Settle(t)
  <2>1. Arg(t) \in Chambers BY <1>6, <1>9 DEF Settle, ChamberDos
  <2>2. Then(t, <<>>) \/ Then(t, <<Step("app", Arg(t))>>) BY <1>9 DEF Settle
  <2> QED BY <1>2, <1>5, <2>1, <2>2 DEF ChamberDos
<1>10. CASE Report(t)
  <2>1. Arg(t) \in Chambers BY <1>6, <1>10 DEF Report, ChamberDos
  <2>2. Then(t, <<>>) \/ Then(t, <<Step("settle", Arg(t))>>) BY <1>10 DEF Report
  <2> QED BY <1>2, <1>5, <2>1, <2>2 DEF ChamberDos
<1>11. CASE ReleaseAll(t)
  <2> DEFINE more == Sections("stop hold", SetToSeq(Chambers))
  <2>1. SetToSeq(Chambers) \in Seq(Chambers) BY ListTyped
  <2>2. \A c \in Chambers : Step("stop hold", c) \in Steps BY StepTyped DEF Step
  <2>3. more \in Seq(Steps) BY <2>1, <2>2, SectionsTyped
  <2>4. Plain(more) BY <2>1, PlainSections
  <2>5. Then(t, more) BY <1>11 DEF ReleaseAll
  <2> QED BY <2>3, <2>4, <2>5
<1> QED BY <1>3, <1>4, <1>7, <1>8, <1>9, <1>10, <1>11 DEF Run

LEMMA ThenOrdered ==
  ASSUME ScriptTyped, NEW t \in Threads, script[t] # <<>>, NEW more \in Seq(Steps),
         Plain(more), Then(t, more)
  PROVE  /\ ScriptsOrdered => ScriptsOrdered'
         /\ ClaimFree(script["gui"]) /\ ClaimFree(script["reader"])
              => ClaimFree(script'["gui"]) /\ ClaimFree(script'["reader"])
         /\ StopIn(script["gui"]) /\ (t = "gui" => Head(script[t]) # Send("stop", All))
              => StopIn(script'["gui"])
         /\ StopFollows(script["gui"]) /\ t = "gui" /\ Head(script[t]).do = "drop"
              => StopIn(script'["gui"])
<1> DEFINE q == script[t]
           r == more \o Tail(q)
<1>1. q \in Seq(Steps) /\ q # <<>> BY DEF ScriptTyped
<1> HIDE DEF q, r
<1>2. /\ StopFollows(q) => StopFollows(r)
      /\ ClaimAlone(q) => ClaimAlone(r)
      /\ Plain(q) => Plain(r)
      /\ ClaimFree(q) => ClaimFree(r)
      /\ StopIn(q) /\ Head(q) # Send("stop", All) => StopIn(r)
      /\ StopFollows(q) /\ Head(q).do = "drop" => StopIn(r)
  BY <1>1, AfterOrdered DEF r
<1>3. /\ script'[t] = r /\ script[t] = q
      /\ \A u \in Threads : u # t => script'[u] = script[u]
  BY DEF Then, ScriptTyped, q, r
<1>4. CASE t = "gui"
  <2>1. script'["reader"] = script["reader"] BY <1>3, <1>4 DEF Threads
  <2> QED BY <1>2, <1>3, <1>4, <2>1 DEF ScriptsOrdered
<1>5. CASE t = "reader"
  <2>1. script'["gui"] = script["gui"] BY <1>3, <1>5 DEF Threads
  <2> QED BY <1>2, <1>3, <1>5, <2>1 DEF ScriptsOrdered
<1> QED BY <1>4, <1>5 DEF Threads

-----------------------------------------------------------------------------
(* What the link carries *)

LEMMA BoundStill ==
  ASSUME NEW c \in Chambers, Bound(c), UNCHANGED toNode, held'[c] = "app" => held[c] = "app",
         Excused(c) => Excused(c)'
  PROVE  Bound(c)'
BY DEF Bound, EndedAfter

\* Frames that were sent since end what is no longer excused.
LEMMA BoundAppend ==
  ASSUME NEW c \in Chambers, Bound(c), toNode \in Seq(Frames), NEW q \in Seq(Frames),
         Transmit(q), UNCHANGED held,
         Excused(c) => Excused(c)' \/ \E j \in 1..Len(q) : Ends(q[j], c),
         \A j \in 1..Len(q) : StartsApp(q[j], c) => Excused(c)'
  PROVE  Bound(c)'
<1> DEFINE n == Len(toNode)
           p == toNode'
<1>1. n \in Nat /\ Len(q) \in Nat /\ p = toNode \o q BY DEF Transmit
<1>2. Len(p) = n + Len(q) BY <1>1
<1>3. \A i \in 1..n : i \in 1..Len(p) /\ p[i] = toNode[i] BY <1>1, <1>2
<1>4. \A j \in 1..Len(q) : n + j \in 1..Len(p) /\ p[n + j] = q[j] BY <1>1, <1>2
<1>5. \A i \in 1..Len(p) : i \in 1..n \/ \E j \in 1..Len(q) : i = n + j
  <2> SUFFICES ASSUME NEW i \in 1..Len(p), i \notin 1..n
               PROVE  \E j \in 1..Len(q) : i = n + j
    OBVIOUS
  <2>1. i - n \in 1..Len(q) /\ i = n + (i - n) BY <1>1, <1>2
  <2> QED BY <2>1
<1> HIDE DEF n
<1>6. ASSUME NEW i \in 0..n, Excused(c) \/ EndedAfter(i, c)
      PROVE  Excused(c)' \/ EndedAfter(i, c)'
  <2>1. CASE EndedAfter(i, c) BY <1>3, <2>1 DEF EndedAfter, n
  <2>2. CASE Excused(c)
    <3>1. CASE Excused(c)' BY <3>1
    <3>2. ASSUME NEW j \in 1..Len(q), Ends(q[j], c) PROVE EndedAfter(i, c)'
      <4>1. n + j > i BY <1>1
      <4> QED BY <1>4, <3>2, <4>1 DEF EndedAfter
    <3> QED BY <2>2, <3>1, <3>2
  <2> QED BY <1>6, <2>1, <2>2
<1>7. held'[c] = "app" => Excused(c)' \/ EndedAfter(0, c)'
  <2>1. 0 \in 0..n BY <1>1
  <2> QED BY <1>6, <2>1 DEF Bound
<1>8. ASSUME NEW i \in 1..Len(p), StartsApp(p[i], c)
      PROVE  Excused(c)' \/ EndedAfter(i, c)'
  <2>1. CASE i \in 1..n
    <3>1. i \in 0..n BY <1>1, <2>1
    <3>2. Excused(c) \/ EndedAfter(i, c) BY <1>3, <1>8, <2>1 DEF Bound, n
    <3> QED BY <1>6, <3>1, <3>2
  <2>2. CASE i \notin 1..n BY <1>4, <1>5, <1>8, <2>2
  <2> QED BY <2>1, <2>2
<1> QED BY <1>7, <1>8 DEF Bound

\* The frame the node takes either starts what is still accounted for or ends it.
LEMMA BoundTail ==
  ASSUME NEW c \in Chambers, Bound(c), TypeInv, LatchedEmpty,
         toNode # <<>>, toNode' = Tail(toNode), Obey(Head(toNode)),
         Excused(c) => Excused(c)'
  PROVE  Bound(c)'
<1> DEFINE p == toNode'
           f == Head(toNode)
<1>1. toNode \in Seq(Frames) /\ held \in [Chambers -> {"none", "app", "bench"}]
  BY DEF TypeInv, LinkTyped, NodeTyped, Owners
<1>2. /\ Len(toNode) \in Nat \ {0} /\ Len(p) = Len(toNode) - 1 /\ f = toNode[1]
      /\ f \in Frames
  BY <1>1
<1>3. \A i \in 1..Len(p) : i + 1 \in 1..Len(toNode) /\ p[i] = toNode[i + 1] BY <1>1, <1>2
<1>4. \A j \in 2..Len(toNode) : j - 1 \in 1..Len(p) /\ p[j - 1] = toNode[j] BY <1>1, <1>2
<1> HIDE DEF f
<1>5. ASSUME NEW i \in Nat, EndedAfter(i + 1, c) PROVE EndedAfter(i, c)'
  <2>1. PICK j \in 1..Len(toNode) : j > i + 1 /\ Ends(toNode[j], c) BY <1>5 DEF EndedAfter
  <2>2. j \in 2..Len(toNode) /\ j - 1 > i BY <1>2, <2>1
  <2>3. j - 1 \in 1..Len(p) /\ Ends(p[j - 1], c) BY <1>4, <2>1, <2>2
  <2> QED BY <2>2, <2>3 DEF EndedAfter
<1>6. ASSUME NEW i \in 1..Len(p), StartsApp(p[i], c)
      PROVE  Excused(c)' \/ EndedAfter(i, c)'
  <2>1. Excused(c) \/ EndedAfter(i + 1, c) BY <1>3, <1>6 DEF Bound
  <2>2. i \in Nat OBVIOUS
  <2> QED BY <1>5, <2>1, <2>2
<1>7. ASSUME held'[c] = "app" PROVE Excused(c)' \/ EndedAfter(0, c)'
  <2>1. CASE StartsApp(f, c)
    <3>1. Excused(c) \/ EndedAfter(0 + 1, c) BY <1>2, <2>1 DEF Bound
    <3> QED BY <1>5, <3>1
  <2>2. CASE ~StartsApp(f, c)
    <3>1. held[c] = "app" /\ ~Ends(f, c)
      BY <1>1, <1>2, <1>7, <2>2
         DEF Obey, Untouched, NodeDrop, Nothing, LatchedEmpty, StartsApp, Ends, Frames,
             Commands, f
    <3>2. CASE Excused(c) BY <3>2
    <3>3. CASE EndedAfter(0, c)
      <4>1. PICK j \in 1..Len(toNode) : Ends(toNode[j], c) BY <3>3 DEF EndedAfter
      <4>2. j # 1 BY <1>2, <3>1, <4>1
      <4>3. EndedAfter(0 + 1, c) BY <4>1, <4>2 DEF EndedAfter
      <4> QED BY <1>5, <4>3
    <3> QED BY <3>1, <3>2, <3>3 DEF Bound
  <2> QED BY <2>1, <2>2
<1> QED BY <1>6, <1>7 DEF Bound

-----------------------------------------------------------------------------
(* While the bench may claim the node *)

Accounted == Powered /\ ScriptsOrdered /\ LatchedEmpty /\ \A c \in Chambers : Bound(c)

\* A section that sends no command leaves a stop to come where it is.
LEMMA StopKept ==
  ASSUME TypeInv, NEW t \in Threads, Run(t), Head(script[t]).do # "send",
         StopIn(script["gui"])
  PROVE  StopIn(script'["gui"])
<1>1. PICK more \in Seq(Steps) : Plain(more) /\ Then(t, more) BY RunThen
<1>2. ScriptTyped /\ script[t] # <<>> BY RunThen DEF TypeInv
<1>3. Head(script[t]) # Send("stop", All) BY DEF Send, Step
<1> QED BY <1>1, <1>2, <1>3, ThenOrdered

\* Where the link and the node are left alone, a section that keeps the
\* keeper's holds keeps every hold accounted for.
LEMMA AccountedStill ==
  ASSUME TypeInv, Accounted, NEW t \in Threads, Run(t), Head(script[t]).do # "send",
         UNCHANGED <<holds, toNode, held>>, bench' = bench \/ bench' = FALSE
  PROVE  \A c \in Chambers : Bound(c)'
BY StopKept, BoundStill DEF Accounted, Excused

LEMMA AccountedStart ==
  ASSUME TypeInv, Accounted, NEW t \in Threads, Run(t), NEW who \in {"app", "bench"},
         StartHold(t, who), NEW c \in Chambers
  PROVE  Bound(c)'
<1>1. Head(script[t]).do # "send" BY DEF StartHold, At
<1>2. CASE Refused(who)
  BY <1>1, <1>2, AccountedStill DEF StartHold, keeperVars, nodeVars
<1>3. CASE ~Refused(who)
  <2>1. /\ holds' = [holds EXCEPT ![Arg(t)] = who] /\ UNCHANGED <<bench, held>>
        /\ Transmit(<<Frame("start", Arg(t), who)>>)
    BY <1>3 DEF StartHold, nodeVars
  <2>2. ScriptTyped /\ At(t, who) /\ who \in ChamberDos
    BY DEF TypeInv, StartHold, ChamberDos
  <2>3. Arg(t) \in Chambers BY <2>2, ChamberArg
  <2> DEFINE f == Frame("start", Arg(t), who)
             q == <<f>>
  <2>4. q \in Seq(Frames) /\ Len(q) = 1 /\ q[1] = f BY <2>3, FrameTyped
  <2>5. holds \in [Chambers -> {"none", "app", "bench"}] /\ toNode \in Seq(Frames)
    BY DEF TypeInv, KeeperTyped, LinkTyped, Owners
  <2>6. Transmit(q) BY <2>1
  <2>7. f.k = "start" /\ f.ch = Arg(t) /\ f.who = who BY DEF Frame
  <2> HIDE DEF f, q
  <2>8. \A j \in 1..Len(q) : StartsApp(q[j], c) => Excused(c)'
    BY <2>1, <2>3, <2>4, <2>5, <2>7 DEF StartsApp, Excused
  <2>9. Excused(c) => Excused(c)' \/ \E j \in 1..Len(q) : Ends(q[j], c)
    <3>1. StopIn(script["gui"]) => StopIn(script'["gui"]) BY <1>1, StopKept
    <3>2. who = "bench" /\ c = Arg(t) => Ends(q[1], c) BY <2>4, <2>7 DEF Ends
    <3> QED BY <2>1, <2>3, <2>4, <2>5, <3>1, <3>2 DEF Excused
  <2>10. Bound(c) BY DEF Accounted
  <2>11. UNCHANGED held BY <2>1
  <2> QED BY <2>4, <2>5, <2>6, <2>8, <2>9, <2>10, <2>11, BoundAppend
<1> QED BY <1>2, <1>3

LEMMA AccountedStop ==
  ASSUME TypeInv, Accounted, NEW t \in Threads, Run(t), StopHold(t), NEW c \in Chambers
  PROVE  Bound(c)'
<1> DEFINE S == IF Arg(t) = All THEN Chambers ELSE {Arg(t)}
<1>1. /\ Head(script[t]).do # "send" /\ UNCHANGED <<bench, held>> /\ holds' = Popped(S)
      /\ IF Held \cap S = {} THEN UNCHANGED <<toNode, told>>
         ELSE Transmit(<<Frame("off", Arg(t), "none")>>) /\ Ended(S)
  BY DEF StopHold, At, nodeVars
<1>2. holds \in [Chambers -> {"none", "app", "bench"}] /\ toNode \in Seq(Frames)
  BY DEF TypeInv, KeeperTyped, LinkTyped, Owners
<1>3. Arg(t) \in Chambers \cup {All} BY HeadTyped, StepTyped DEF StopHold, TypeInv
<1>4. c \notin S => holds'[c] = holds[c] BY <1>1 DEF Popped
<1>5. StopIn(script["gui"]) => StopIn(script'["gui"]) BY <1>1, StopKept
<1>6. Bound(c) /\ UNCHANGED held BY <1>1 DEF Accounted
<1>7. CASE Held \cap S = {}
  <2>1. holds'[c] = holds[c] BY <1>1, <1>2, <1>4, <1>7 DEF Held, Popped
  <2>2. UNCHANGED toNode BY <1>1, <1>7
  <2>3. Excused(c) => Excused(c)' BY <1>1, <1>5, <2>1 DEF Excused
  <2> QED BY <1>6, <2>2, <2>3, BoundStill
<1>8. CASE Held \cap S # {}
  <2> DEFINE f == Frame("off", Arg(t), "none")
             q == <<f>>
  <2>1. Transmit(q) BY <1>1, <1>8
  <2>2. q \in Seq(Frames) /\ Len(q) = 1 /\ q[1] = f BY <1>3, FrameTyped
  <2>3. f.k = "off" /\ f.ch = Arg(t) BY DEF Frame
  <2>4. c \in S => Ends(f, c) BY <2>3 DEF Ends
  <2> HIDE DEF f, q
  <2>5. \A j \in 1..Len(q) : StartsApp(q[j], c) => Excused(c)'
    BY <2>2, <2>3 DEF StartsApp
  <2>6. Excused(c) => Excused(c)' \/ \E j \in 1..Len(q) : Ends(q[j], c)
    BY <1>1, <1>4, <1>5, <2>2, <2>4 DEF Excused
  <2> QED BY <1>2, <1>6, <2>1, <2>2, <2>5, <2>6, BoundAppend
<1> QED BY <1>7, <1>8

\* Only the GUI thread forgets every hold without a word to the node while the
\* node keeps its power, and it goes on to stop the node.
LEMMA AccountedDrop ==
  ASSUME TypeInv, KeeperInv, Accounted, NEW t \in Threads, Run(t), DropAll(t),
         NEW c \in Chambers
  PROVE  Bound(c)'
<1>1. /\ Head(script[t]).do = "drop" /\ UNCHANGED <<bench, toNode, held>>
      /\ holds' = Nothing
  BY DEF DropAll, At, nodeVars
<1>2. PICK more \in Seq(Steps) : Plain(more) /\ Then(t, more) BY RunThen
<1>3. ScriptTyped /\ script[t] # <<>> /\ script[t] \in Seq(Steps) BY RunThen DEF TypeInv
<1>4. t = "gui"
  <2> SUFFICES ASSUME t = "reader" PROVE FALSE BY DEF Threads
  <2>1. Plain(script[t]) BY DEF Accounted, ScriptsOrdered
  <2>2. 1 \in 1..Len(script[t]) /\ script[t][1] = Head(script[t]) BY <1>3
  <2> QED BY <1>1, <2>1, <2>2 DEF Plain
<1>5. StopIn(script'["gui"])
  <2>1. StopFollows(script["gui"]) BY DEF Accounted, ScriptsOrdered
  <2> QED BY <1>1, <1>2, <1>3, <1>4, <2>1, ThenOrdered
<1>6. Excused(c) => Excused(c)'
  <2>1. bench => holds[c] # "app" BY DEF KeeperInv, BenchExclusive
  <2> QED BY <1>1, <1>5, <2>1 DEF Excused
<1> QED BY <1>1, <1>6, BoundStill DEF Accounted

\* A claim sends the release of everything the keeper had, and no stop is then
\* due: a claim is all the GUI thread has to run.
LEMMA AccountedClaim ==
  ASSUME TypeInv, Accounted, NEW t \in Threads, Run(t), ClaimBench(t), NEW c \in Chambers
  PROVE  Bound(c)'
<1>1. /\ Head(script[t]).do = "claim" /\ UNCHANGED held /\ holds' = Nothing
      /\ IF Held = {} THEN UNCHANGED <<toNode, told>>
         ELSE Transmit(<<Frame("off", All, "none")>>) /\ Ended(Held)
  BY DEF ClaimBench, At, AppDropped, nodeVars
<1>2. script[t] # <<>> /\ script[t] \in Seq(Steps) BY RunThen
<1>3. Len(script[t]) \in Nat \ {0} /\ script[t][1] = Head(script[t]) /\ 1 \in 1..Len(script[t])
  BY <1>2
<1>4. t = "gui"
  <2> SUFFICES ASSUME t = "reader" PROVE FALSE BY DEF Threads
  <2>1. Plain(script[t]) BY DEF Accounted, ScriptsOrdered
  <2> QED BY <1>1, <1>3, <2>1 DEF Plain
<1>5. ~StopIn(script["gui"])
  <2>1. ~ClaimFree(script[t]) BY <1>1, <1>3 DEF ClaimFree
  <2>2. Len(script[t]) = 1 BY <1>4, <2>1 DEF Accounted, ScriptsOrdered, ClaimAlone
  <2>3. script[t][1] # Send("stop", All) BY <1>1, <1>3 DEF Send, Step
  <2> QED BY <1>4, <2>2, <2>3 DEF StopIn
<1>6. Excused(c) => c \in Held BY <1>5 DEF Excused, Held
<1>7. Bound(c) /\ toNode \in Seq(Frames) BY DEF Accounted, TypeInv, LinkTyped
<1>8. CASE Held = {}
  <2>1. UNCHANGED toNode /\ UNCHANGED held BY <1>1, <1>8
  <2>2. Excused(c) => Excused(c)' BY <1>6, <1>8
  <2> QED BY <1>7, <2>1, <2>2, BoundStill
<1>9. CASE Held # {}
  <2> DEFINE f == Frame("off", All, "none")
             q == <<f>>
  <2>1. Transmit(q) /\ UNCHANGED held BY <1>1, <1>9
  <2>2. q \in Seq(Frames) /\ Len(q) = 1 /\ q[1] = f BY FrameTyped
  <2>3. Ends(f, c) /\ ~StartsApp(f, c) BY DEF Frame, Ends, StartsApp
  <2> HIDE DEF f, q
  <2>4. \A j \in 1..Len(q) : StartsApp(q[j], c) => Excused(c)' BY <2>2, <2>3
  <2>5. \E j \in 1..Len(q) : Ends(q[j], c) BY <2>2, <2>3
  <2> QED BY <1>7, <2>1, <2>2, <2>4, <2>5, BoundAppend
<1> QED BY <1>8, <1>9

LEMMA AccountedCommand ==
  ASSUME TypeInv, Accounted, NEW t \in Threads, Run(t), Command(t), NEW c \in Chambers
  PROVE  Bound(c)'
<1>1. /\ At(t, "send") /\ Transmit(<<Arg(t)>>) /\ UNCHANGED <<holds, bench, held>>
  BY DEF Command, keeperVars, nodeVars
<1>2. script[t] # <<>> /\ Arg(t) \in Commands
  BY <1>1, HeadTyped, StepTyped DEF TypeInv
<1> DEFINE f == Arg(t)
           q == <<f>>
<1>3. q \in Seq(Frames) /\ Len(q) = 1 /\ q[1] = f BY <1>2, FrameTyped
<1>4. ~StartsApp(f, c) BY <1>2 DEF StartsApp, Commands
<1>5. Bound(c) /\ toNode \in Seq(Frames) /\ Transmit(q) /\ UNCHANGED held
  BY <1>1 DEF Accounted, TypeInv, LinkTyped
<1>6. f.k # "stop" => Head(script[t]) # Send("stop", All)
  BY DEF Send, Step, Frame, Arg
<1>7. f.k = "stop" => Ends(f, c) BY DEF Ends
<1> HIDE DEF f, q
<1>8. Excused(c) => Excused(c)' \/ \E j \in 1..Len(q) : Ends(q[j], c)
  <2>1. CASE f.k = "stop" BY <1>3, <1>7, <2>1
  <2>2. CASE f.k # "stop"
    <3>1. PICK more \in Seq(Steps) : Plain(more) /\ Then(t, more) BY RunThen
    <3>2. StopIn(script["gui"]) => StopIn(script'["gui"])
      BY <1>2, <1>6, <2>2, <3>1, ThenOrdered DEF TypeInv
    <3> QED BY <1>1, <3>2 DEF Excused
  <2> QED BY <2>1, <2>2
<1>9. \A j \in 1..Len(q) : StartsApp(q[j], c) => Excused(c)' BY <1>3, <1>4
<1> QED BY <1>3, <1>5, <1>8, <1>9, BoundAppend

LEMMA RunLeaves ==
  ASSUME NEW t \in Threads, Run(t)
  PROVE  /\ UNCHANGED <<left, toPc, quiet, nodeVars, silent>>
         /\ bench' = bench \/ ClaimBench(t) \/ bench' = FALSE
BY DEF Run, StartHold, StopHold, DropAll, ClaimBench, UnclaimBench, Notify, ReleaseAuto,
       ReleaseAll, Aim, Settle, Record, Command, Report, keeperVars

LEMMA AccountedRun ==
  ASSUME TypeInv, KeeperInv, Accounted, NEW t \in Threads, Run(t)
  PROVE  Accounted'
<1>1. Powered' /\ LatchedEmpty'
  <2>1. UNCHANGED <<left, toPc, quiet, up, held, latched, running, silent>>
    BY RunLeaves DEF nodeVars
  <2>2. Powered /\ LatchedEmpty BY DEF Accounted
  <2> QED BY <2>1, <2>2 DEF Powered, LatchedEmpty
<1>2. ScriptsOrdered'
  <2>1. PICK more \in Seq(Steps) : Plain(more) /\ Then(t, more) BY RunThen
  <2>2. ScriptTyped /\ script[t] # <<>> BY RunThen DEF TypeInv
  <2> QED BY <2>1, <2>2, ThenOrdered DEF Accounted
<1>3. ASSUME NEW c \in Chambers PROVE Bound(c)'
  <2>1. CASE StartHold(t, "app") \/ StartHold(t, "bench") BY <2>1, AccountedStart
  <2>2. CASE StopHold(t) BY <2>2, AccountedStop
  <2>3. CASE DropAll(t) BY <2>3, AccountedDrop
  <2>4. CASE ClaimBench(t) BY <2>4, AccountedClaim
  <2>5. CASE Command(t) BY <2>5, AccountedCommand
  <2>6. CASE UnclaimBench(t)
    BY <2>6, AccountedStill DEF UnclaimBench, At, nodeVars
  <2>7. CASE \/ Notify(t) \/ ReleaseAuto(t) \/ ReleaseAll(t) \/ Aim(t) \/ Settle(t)
             \/ Record(t) \/ Report(t)
    <3>1. Head(script[t]).do # "send" /\ UNCHANGED <<keeperVars, toNode, nodeVars>>
      BY <2>7 DEF Notify, ReleaseAuto, ReleaseAll, Aim, Settle, Record, Report, At
    <3> QED BY <3>1, AccountedStill DEF keeperVars, nodeVars
  <2> QED BY <2>1, <2>2, <2>3, <2>4, <2>5, <2>6, <2>7 DEF Run
<1> QED BY <1>1, <1>2, <1>3 DEF Accounted

\* The keepalive thread of a node that speaks refreshes what is held, and
\* gives up only on nothing.
LEMMA AccountedKeepalive ==
  ASSUME TypeInv, Accounted, Wake \/ Tick \/ Leave
  PROVE  Accounted'
<1>1. UNCHANGED <<bench, script, left, toPc, quiet, up, held, latched>>
  BY DEF Wake, Tick, Leave, nodeVars, keeperVars
<1>2. silent' = silent \/ silent' = quiet BY DEF Wake, Tick, Leave
<1>3. Powered /\ ScriptsOrdered /\ LatchedEmpty /\ \A c \in Chambers : Bound(c)
  BY DEF Accounted
<1>4. Powered' /\ ScriptsOrdered' /\ LatchedEmpty'
  BY <1>1, <1>2, <1>3 DEF Powered, ScriptsOrdered, LatchedEmpty
<1>5. holds \in [Chambers -> {"none", "app", "bench"}] /\ toNode \in Seq(Frames)
  BY DEF TypeInv, KeeperTyped, LinkTyped, Owners
<1>6. ASSUME UNCHANGED <<holds, toNode>> PROVE \A c \in Chambers : Bound(c)'
  BY <1>1, <1>3, <1>6, BoundStill DEF Excused
<1>7. CASE Wake \/ Leave BY <1>3, <1>4, <1>6, <1>7 DEF Wake, Leave, Accounted
<1>8. CASE Tick /\ ~Keep
  <2>1. Held = {} BY <1>3, <1>8 DEF Keep, Powered
  <2>2. \A c \in Chambers : holds[c] = "none" BY <2>1 DEF Held
  <2>3. holds' = Nothing /\ UNCHANGED toNode BY <1>8 DEF Tick
  <2>4. UNCHANGED <<holds, toNode>> BY <1>5, <2>2, <2>3 DEF Nothing
  <2> QED BY <1>4, <1>6, <2>4 DEF Accounted
<1>9. CASE Tick /\ Keep
  <2>1. Transmit(Refresh(SetToSeq(Held))) /\ UNCHANGED <<holds, held>>
    BY <1>1, <1>9 DEF Tick
  <2>2. SetToSeq(Held) \in Seq(Held)
    <3>1. Held \in SUBSET Chambers BY DEF Held
    <3> QED BY <3>1, ListTyped
  <2> DEFINE q == SetToSeq(Held)
             r == Refresh(q)
  <2>3. \A c \in Held : Frame("ka", c, holds[c]) \in Frames
    BY <1>5, FrameTyped DEF Held
  <2> HIDE DEF q
  <2>4. \A i \in DOMAIN q : q[i] \in Held BY <2>2 DEF q
  <2>5. r \in [1..Len(q) -> Frames] BY <2>2, <2>3, <2>4 DEF Refresh, q
  <2>6. r \in Seq(Frames) /\ \A j \in 1..Len(r) : r[j].k = "ka"
    BY <2>2, <2>4, <2>5 DEF Refresh, Frame, q
  <2>7. Transmit(r) BY <2>1 DEF q
  <2> HIDE DEF r
  <2>8. ASSUME NEW c \in Chambers PROVE Bound(c)'
    <3>1. Excused(c) => Excused(c)' BY <1>1, <2>1 DEF Excused
    <3>2. \A j \in 1..Len(r) : ~StartsApp(r[j], c) BY <2>6 DEF StartsApp
    <3>3. Bound(c) /\ UNCHANGED held BY <1>3, <2>1
    <3> QED BY <1>5, <2>6, <2>7, <3>1, <3>2, <3>3, BoundAppend
  <2> QED BY <1>4, <2>8 DEF Accounted
<1> QED BY <1>7, <1>8, <1>9

LEMMA AccountedReceive ==
  ASSUME TypeInv, Accounted, Receive
  PROVE  Accounted'
<1> DEFINE m == Head(toPc)
           runs == Sections("runs", SetToSeq(m.running))
           idle == Sections("idle", SetToSeq(Chambers \ m.running))
<1>1. /\ toPc # <<>> /\ toPc' = Tail(toPc) /\ quiet' = FALSE
      /\ script' = [script EXCEPT !["reader"] =
           IF m.k = "boot" THEN <<Step("drop", All)>> ELSE runs \o idle]
      /\ UNCHANGED <<holds, bench, silent, left, toNode, up, held, latched>>
  BY DEF Receive, keeperVars, nodeVars
<1>2. toPc \in Seq(Statuses) /\ script \in [Threads -> Seq(Steps)]
  BY DEF TypeInv, LinkTyped, ScriptTyped
<1>3. Len(toPc) \in Nat \ {0} /\ m = toPc[1] /\ m \in Statuses /\ Len(Tail(toPc)) = Len(toPc) - 1
  BY <1>1, <1>2
<1>4. \A i \in 1..Len(Tail(toPc)) : Tail(toPc)[i] = toPc[i + 1] /\ i + 1 \in 1..Len(toPc)
  BY <1>1, <1>2, <1>3
<1>5. m.k # "boot" BY <1>3 DEF Accounted, Powered
<1>6. Powered' BY <1>1, <1>4 DEF Accounted, Powered
<1>7. LatchedEmpty' BY <1>1 DEF Accounted, LatchedEmpty
<1>8. script'["gui"] = script["gui"] /\ script'["reader"] = runs \o idle
  BY <1>1, <1>2, <1>5 DEF Threads
<1>9. Plain(runs \o idle)
  <2>1. m.running \in SUBSET Chambers BY <1>3, <1>5 DEF Statuses
  <2>2. /\ SetToSeq(m.running) \in Seq(Chambers)
        /\ SetToSeq(Chambers \ m.running) \in Seq(Chambers)
    <3>1. /\ SetToSeq(m.running) \in Seq(m.running)
          /\ SetToSeq(Chambers \ m.running) \in Seq(Chambers \ m.running)
      BY <2>1, ListTyped
    <3> QED BY <2>1, <3>1
  <2>3. Plain(runs) /\ Plain(idle) BY <2>2, PlainSections
  <2>4. runs \in Seq(Steps) /\ idle \in Seq(Steps)
    <3>1. \A c \in Chambers : Step("runs", c) \in Steps /\ Step("idle", c) \in Steps
      BY StepTyped DEF Step
    <3> QED BY <2>2, <3>1, SectionsTyped
  <2> HIDE DEF runs, idle
  <2>5. \A p, q \in Seq(Steps) : Plain(p) /\ Plain(q) => Plain(p \o q) BY DEF Plain
  <2> QED BY <2>3, <2>4, <2>5
<1>10. ScriptsOrdered' BY <1>8, <1>9 DEF Accounted, ScriptsOrdered
<1>11. \A c \in Chambers : Bound(c)'
  BY <1>1, <1>8, BoundStill DEF Accounted, Excused
<1> QED BY <1>6, <1>7, <1>10, <1>11 DEF Accounted

\* What the GUI thread begins: a claim by itself, or sections of which a drop
\* is followed by a stop.
Halting(q) == StopFollows(q) /\ ClaimFree(q)

LEMMA PlainHalts ==
  ASSUME NEW q, Plain(q)
  PROVE  Halting(q)
BY DEF Plain, Halting, StopFollows, ClaimFree

LEMMA HaltingBoth ==
  ASSUME NEW p \in Seq(Steps), NEW q \in Seq(Steps), Halting(p), Halting(q)
  PROVE  Halting(p \o q)
<1> DEFINE r == p \o q
           n == Len(p)
<1>1. n \in Nat /\ Len(q) \in Nat /\ Len(r) = n + Len(q) OBVIOUS
<1>2. \A i \in 1..n : i \in 1..Len(r) /\ r[i] = p[i] BY <1>1
<1>3. \A j \in 1..Len(q) : n + j \in 1..Len(r) /\ r[n + j] = q[j] BY <1>1
<1>4. \A i \in 1..Len(r) : i \in 1..n \/ \E j \in 1..Len(q) : i = n + j
  <2> SUFFICES ASSUME NEW i \in 1..Len(r), i \notin 1..n
               PROVE  \E j \in 1..Len(q) : i = n + j
    OBVIOUS
  <2>1. i - n \in 1..Len(q) /\ i = n + (i - n) BY <1>1
  <2> QED BY <2>1
<1> HIDE DEF r
<1>5. ClaimFree(r)
  <2> SUFFICES ASSUME NEW i \in 1..Len(r) PROVE r[i].do # "claim" BY DEF ClaimFree
  <2>1. CASE i \in 1..n BY <1>2, <2>1 DEF Halting, ClaimFree, n
  <2>2. ASSUME NEW j \in 1..Len(q), i = n + j PROVE r[i].do # "claim"
    BY <1>3, <2>2 DEF Halting, ClaimFree
  <2> QED BY <1>4, <2>1, <2>2
<1>6. StopFollows(r)
  <2> SUFFICES ASSUME NEW i \in 1..Len(r), r[i].do = "drop"
               PROVE  \E k \in 1..Len(r) : k > i /\ r[k] = Send("stop", All)
    BY DEF StopFollows
  <2>1. CASE i \in 1..n BY <1>2, <2>1 DEF Halting, StopFollows, n
  <2>2. ASSUME NEW j \in 1..Len(q), i = n + j
        PROVE  \E k \in 1..Len(r) : k > i /\ r[k] = Send("stop", All)
    <3>1. PICK k \in 1..Len(q) : k > j /\ q[k] = Send("stop", All)
      BY <1>3, <2>2 DEF Halting, StopFollows
    <3>2. n + k > i BY <1>1, <2>2, <3>1
    <3> QED BY <1>3, <3>1, <3>2
  <2> QED BY <1>4, <2>1, <2>2
<1> QED BY <1>5, <1>6 DEF Halting, r

Harmless(a) == a.do \notin {"drop", "claim"}

LEMMA PlainPair ==
  ASSUME NEW a, NEW b, Harmless(a), Harmless(b)
  PROVE  Plain(<<a>>) /\ Plain(<<a, b>>)
BY DEF Plain, Harmless

LEMMA PlainFour ==
  ASSUME NEW a, NEW b, NEW c, NEW d, Harmless(a), Harmless(b), Harmless(c), Harmless(d)
  PROVE  Plain(<<a, b, c>>) /\ Plain(<<a, b, c, d>>)
BY DEF Plain, Harmless

LEMMA ScriptsHalt ==
  /\ \A c \in Chambers :
       /\ Halting(<<Step("release auto", c), Step("aim", c), Send("move", c), Step("settle", c)>>)
       /\ Halting(<<Step("release auto", c), Step("aim", c), Send("move", c)>>)
       /\ Halting(<<Step("bench", c)>>)
       /\ Halting(<<Step("stop hold", c)>>)
       /\ Halting(<<Step("stop hold", c), Send("move", c)>>)
  /\ Halting(<<Step("release all", All), Step("drop", All), Send("stop", All)>>)
  /\ Halting(<<Send("resume", All)>>)
  /\ Halting(HaltAndRearm)
  /\ Halting(<<Step("stop hold", All)>> \o ReleaseBench)
  /\ Halting(<<Step("stop hold", All)>> \o ReleaseBench \o HaltAndRearm)
  /\ ClaimAlone(<<Step("claim", All)>>) /\ StopFollows(<<Step("claim", All)>>)
<1>1. \A do, x : Step(do, x).do = do BY DEF Step
<1>2. \A k, x : Send(k, x).do = "send" BY DEF Send, Step
<1>3. ASSUME NEW c \in Chambers
      PROVE  /\ Halting(<<Step("release auto", c), Step("aim", c), Send("move", c), Step("settle", c)>>)
             /\ Halting(<<Step("release auto", c), Step("aim", c), Send("move", c)>>)
             /\ Halting(<<Step("bench", c)>>)
             /\ Halting(<<Step("stop hold", c)>>)
             /\ Halting(<<Step("stop hold", c), Send("move", c)>>)
  <2>0. /\ Harmless(Step("release auto", c)) /\ Harmless(Step("aim", c))
        /\ Harmless(Step("settle", c)) /\ Harmless(Step("bench", c))
        /\ Harmless(Step("stop hold", c)) /\ Harmless(Send("move", c))
    BY <1>1, <1>2 DEF Harmless
  <2>1. /\ Plain(<<Step("release auto", c), Step("aim", c), Send("move", c), Step("settle", c)>>)
        /\ Plain(<<Step("release auto", c), Step("aim", c), Send("move", c)>>)
    BY <2>0, PlainFour
  <2>2. /\ Plain(<<Step("bench", c)>>) /\ Plain(<<Step("stop hold", c)>>)
        /\ Plain(<<Step("stop hold", c), Send("move", c)>>)
    BY <2>0, PlainPair
  <2> QED BY <2>1, <2>2, PlainHalts
<1>4. Halting(<<Step("release all", All), Step("drop", All), Send("stop", All)>>)
  <2> DEFINE q == <<Step("release all", All), Step("drop", All), Send("stop", All)>>
  <2>1. /\ Len(q) = 3 /\ q[1].do = "release all" /\ q[2].do = "drop"
        /\ q[3] = Send("stop", All)
    BY <1>1
  <2> HIDE DEF q
  <2>0. Len(q) = 3 BY <2>1
  <2>2. 3 \in 1..Len(q) /\ \A i \in 1..Len(q) : i = 1 \/ i = 2 \/ i = 3 BY <2>0
  <2>3. ClaimFree(q) BY <1>2, <2>1, <2>2 DEF ClaimFree
  <2>4. StopFollows(q)
    <3> SUFFICES ASSUME NEW i \in 1..Len(q), q[i].do = "drop"
                 PROVE  \E j \in 1..Len(q) : j > i /\ q[j] = Send("stop", All)
      BY DEF StopFollows
    <3>1. i = 2 BY <1>2, <2>1, <2>2
    <3>2. 3 > i BY <3>1
    <3>3. 3 \in 1..Len(q) /\ q[3] = Send("stop", All) BY <2>1, <2>2
    <3> QED BY <3>2, <3>3
  <2> QED BY <2>3, <2>4 DEF q, Halting
<1>5. Halting(HaltAndRearm)
  <2> DEFINE q == HaltAndRearm
  <2>1. /\ Len(q) = 5 /\ q[1].do = "drop" /\ q[2] = Send("stop", All)
        /\ q[3] = Send("stop", All) /\ q[4] = Send("stop", All) /\ q[5] = Send("resume", All)
    BY <1>1 DEF HaltAndRearm
  <2> HIDE DEF q
  <2>2. 2 \in 1..Len(q) /\ \A i \in 1..Len(q) : \/ i = 1 \/ i = 2 \/ i = 3
                                                   \/ i = 4 \/ i = 5
    BY <2>1
  <2>3. ClaimFree(q) BY <1>2, <2>1, <2>2 DEF ClaimFree
  <2>4. StopFollows(q) BY <1>2, <2>1, <2>2 DEF StopFollows
  <2> QED BY <2>3, <2>4 DEF q, Halting
<1>6. /\ Halting(<<Send("resume", All)>>) /\ Halting(<<Step("stop hold", All)>>)
      /\ Halting(ReleaseBench)
  <2>1. /\ Harmless(Send("resume", All)) /\ Harmless(Step("stop hold", All))
        /\ Harmless(Step("unclaim", All))
    BY <1>1, <1>2 DEF Harmless
  <2>2. /\ Plain(<<Send("resume", All)>>) /\ Plain(<<Step("stop hold", All)>>)
        /\ Plain(ReleaseBench)
    BY <2>1, PlainPair DEF ReleaseBench
  <2> QED BY <2>2, PlainHalts
<1>8. \A p, q \in Seq(Steps) : p \o q \in Seq(Steps) OBVIOUS
<1>9. Halting(<<Step("stop hold", All)>> \o ReleaseBench)
  BY <1>6, ScriptsTyped, HaltingBoth
<1>10. Halting(<<Step("stop hold", All)>> \o ReleaseBench \o HaltAndRearm)
  BY <1>5, <1>8, <1>9, ScriptsTyped, HaltingBoth
<1>11. ClaimAlone(<<Step("claim", All)>>) /\ StopFollows(<<Step("claim", All)>>)
  BY <1>1 DEF ClaimAlone, StopFollows
<1> QED BY <1>3, <1>4, <1>5, <1>6, <1>9, <1>10, <1>11

LEMMA GuiHalts ==
  ASSUME Gui
  PROVE  \E o, steps :
           /\ Begin(o, steps) /\ StopFollows(steps) /\ ClaimAlone(steps)
           /\ "claim" \notin left.may => ClaimFree(steps)
<1> DEFINE Done == \E o, steps :
                     /\ Begin(o, steps) /\ StopFollows(steps) /\ ClaimAlone(steps)
                     /\ "claim" \notin left.may => ClaimFree(steps)
<1>1. ASSUME NEW o, NEW steps, Begin(o, steps), Halting(steps) PROVE Done
  BY <1>1 DEF Halting, ClaimAlone
<1>2. CASE Claim
  <2>1. Begin("claim", <<Step("claim", All)>>) BY <1>2 DEF Claim
  <2>2. "claim" \in left.may BY <2>1 DEF Begin
  <2> QED BY <2>1, <2>2, ScriptsHalt
<1>3. ASSUME NEW c \in Chambers,
             Actuate(c) \/ Deflate(c) \/ BenchHold(c) \/ BenchRelease(c) \/ BenchMove(c)
      PROVE  Done
  BY <1>1, <1>3, ScriptsHalt DEF Actuate, Deflate, BenchHold, BenchRelease, BenchMove
<1>4. CASE EmergencyStop \/ Rearm \/ Shutdown \/ Close \/ LeaveRunning
  BY <1>1, <1>4, ScriptsHalt DEF EmergencyStop, Rearm, Shutdown, Close, LeaveRunning
<1> QED BY <1>2, <1>3, <1>4 DEF Gui

LEMMA AccountedGui ==
  ASSUME TypeInv, Accounted, Gui
  PROVE  Accounted'
<1>1. PICK o, steps : Begin(o, steps) /\ StopFollows(steps) /\ ClaimAlone(steps)
  BY GuiHalts
<1>2. /\ script["gui"] = <<>> /\ left' = [left EXCEPT !.ops = @ - 1]
      /\ script' = [script EXCEPT !["gui"] = steps]
      /\ UNCHANGED <<holds, bench, silent, toNode, toPc, quiet, up, held, latched>>
  BY <1>1 DEF Begin, keeperVars, nodeVars
<1>3. script \in [Threads -> Seq(Steps)] BY DEF TypeInv, ScriptTyped
<1>4. script'["gui"] = steps /\ script'["reader"] = script["reader"]
  BY <1>2, <1>3 DEF Threads
<1>5. left'.cycles = left.cycles
  <2>1. PICK m \in Mixes : left \in [may : {m.may}, ops : 0..m.ops, cycles : 0..m.cycles]
    BY DEF TypeInv, LeftTyped
  <2> QED BY <1>2, <2>1
<1>6. ~StopIn(script["gui"]) BY <1>2 DEF StopIn
<1>7. \A c \in Chambers : Bound(c)'
  BY <1>2, <1>6, BoundStill DEF Accounted, Excused
<1>8. Powered' /\ LatchedEmpty' BY <1>2, <1>5 DEF Accounted, Powered, LatchedEmpty
<1>9. ScriptsOrdered' BY <1>1, <1>4 DEF Accounted, ScriptsOrdered
<1> QED BY <1>7, <1>8, <1>9 DEF Accounted

LEMMA AccountedNode ==
  ASSUME TypeInv, Accounted, Node \/ PowerOff \/ PowerOn \/ FallSilent
  PROVE  Accounted'
<1>0. Powered /\ ScriptsOrdered /\ LatchedEmpty /\ \A c \in Chambers : Bound(c)
  BY DEF Accounted
<1>1. left.cycles = 0 /\ up BY <1>0 DEF Powered
<1>2. ~PowerOff /\ ~PowerOn /\ ~FallSilent BY <1>1 DEF PowerOff, PowerOn, FallSilent
<1>3. UNCHANGED <<holds, bench, silent, script, left, quiet, up>>
  BY <1>2 DEF Node, NodeReceive, NodeStatus, NodeSettle, DeadMan, keeperVars, nodeVars
<1>4. ScriptsOrdered' BY <1>0, <1>3 DEF ScriptsOrdered
<1>5. \A c \in Chambers : Excused(c) => Excused(c)' BY <1>3 DEF Excused
<1>6. held \in [Chambers -> {"none", "app", "bench"}] /\ toPc \in Seq(Statuses)
  BY DEF TypeInv, NodeTyped, LinkTyped, Owners
<1>7. CASE NodeReceive
  <2>1. toNode # <<>> /\ toNode' = Tail(toNode) /\ Obey(Head(toNode)) /\ UNCHANGED toPc
    BY <1>1, <1>7 DEF NodeReceive
  <2>2. LatchedEmpty'
    BY <1>0, <1>6, <2>1 DEF Obey, Untouched, LatchedEmpty, NodeDrop, Nothing
  <2>3. \A c \in Chambers : Bound(c)' BY <1>0, <1>5, <2>1, BoundTail
  <2> QED BY <1>0, <1>3, <1>4, <2>1, <2>2, <2>3 DEF Accounted, Powered
<1>8. CASE NodeStatus
  <2>1. /\ toPc' = Append(toPc, [k |-> "status", running |-> running])
        /\ UNCHANGED <<toNode, held, latched>>
    BY <1>8 DEF NodeStatus, nodeVars
  <2>2. \A i \in 1..Len(toPc') : toPc'[i].k # "boot" BY <1>0, <1>6, <2>1 DEF Powered
  <2>3. \A c \in Chambers : Bound(c)' BY <1>0, <1>5, <2>1, BoundStill
  <2> QED BY <1>0, <1>3, <1>4, <2>1, <2>2, <2>3 DEF Accounted, Powered, LatchedEmpty
<1>9. CASE \E c \in Chambers : NodeSettle(c) \/ DeadMan(c)
  <2>1. PICK d \in Chambers : NodeSettle(d) \/ DeadMan(d) BY <1>9
  <2>2. UNCHANGED <<toNode, toPc, latched>>
        /\ (held' = held \/ held' = [held EXCEPT ![d] = "none"])
    BY <2>1 DEF NodeSettle, DeadMan, NodeDrop
  <2>3. \A c \in Chambers : held'[c] = "app" => held[c] = "app" BY <1>6, <2>2
  <2>4. LatchedEmpty' BY <1>0, <2>2 DEF LatchedEmpty, Nothing
  <2>5. \A c \in Chambers : Bound(c)' BY <1>0, <1>5, <2>2, <2>3, BoundStill
  <2> QED BY <1>0, <1>3, <1>4, <2>2, <2>4, <2>5 DEF Accounted, Powered
<1> QED BY <1>2, <1>7, <1>8, <1>9 DEF Node

-----------------------------------------------------------------------------
(* Where nobody claims *)

Unclaimed == ~bench /\ ClaimFree(script["gui"]) /\ ClaimFree(script["reader"])

LEMMA UnclaimedRun ==
  ASSUME TypeInv, Unclaimed, NEW t \in Threads, Run(t)
  PROVE  Unclaimed'
<1>1. PICK more \in Seq(Steps) : Plain(more) /\ Then(t, more) BY RunThen
<1>2. ScriptTyped /\ script[t] # <<>> /\ script[t] \in Seq(Steps) BY RunThen DEF TypeInv
<1>3. ClaimFree(script'["gui"]) /\ ClaimFree(script'["reader"])
  BY <1>1, <1>2, ThenOrdered DEF Unclaimed
<1>4. ~ClaimBench(t)
  <2>1. ClaimFree(script[t]) BY DEF Unclaimed, Threads
  <2>2. 1 \in 1..Len(script[t]) /\ script[t][1] = Head(script[t]) BY <1>2
  <2> QED BY <2>1, <2>2 DEF ClaimBench, At, ClaimFree
<1>5. ~bench' BY <1>4, RunLeaves DEF Unclaimed
<1> QED BY <1>3, <1>5 DEF Unclaimed

LEMMA UnclaimedRest ==
  ASSUME TypeInv, Unclaimed, "claim" \notin left.may,
         \/ Gui \/ Receive \/ Wake \/ Tick \/ Leave
         \/ Node \/ PowerOff \/ PowerOn \/ FallSilent
  PROVE  Unclaimed'
<1>0. script \in [Threads -> Seq(Steps)] /\ toPc \in Seq(Statuses)
  BY DEF TypeInv, ScriptTyped, LinkTyped
<1>1. CASE Gui
  <2>1. PICK o, steps : Begin(o, steps) /\ ClaimFree(steps) BY <1>1, GuiHalts
  <2>2. script'["gui"] = steps /\ script'["reader"] = script["reader"] /\ bench' = bench
    BY <1>0, <2>1 DEF Begin, Threads, keeperVars
  <2> QED BY <2>1, <2>2 DEF Unclaimed
<1>2. CASE Receive
  <2> DEFINE m == Head(toPc)
             runs == Sections("runs", SetToSeq(m.running))
             idle == Sections("idle", SetToSeq(Chambers \ m.running))
  <2>1. /\ toPc # <<>> /\ UNCHANGED bench
        /\ script' = [script EXCEPT !["reader"] =
             IF m.k = "boot" THEN <<Step("drop", All)>> ELSE runs \o idle]
    BY <1>2 DEF Receive, keeperVars
  <2>2. script'["gui"] = script["gui"]
        /\ script'["reader"] = IF m.k = "boot" THEN <<Step("drop", All)>> ELSE runs \o idle
    BY <1>0, <2>1 DEF Threads
  <2>3. ClaimFree(<<Step("drop", All)>>) BY DEF ClaimFree, Step
  <2>4. m.k # "boot" => ClaimFree(runs \o idle)
    <3> SUFFICES ASSUME m.k # "boot" PROVE ClaimFree(runs \o idle) OBVIOUS
    <3>0. m \in Statuses BY <1>0, <2>1
    <3>1. m.running \in SUBSET Chambers BY <3>0 DEF Statuses
    <3>2. /\ SetToSeq(m.running) \in Seq(Chambers)
          /\ SetToSeq(Chambers \ m.running) \in Seq(Chambers)
      <4>1. /\ SetToSeq(m.running) \in Seq(m.running)
            /\ SetToSeq(Chambers \ m.running) \in Seq(Chambers \ m.running)
        BY <3>1, ListTyped
      <4> QED BY <3>1, <4>1
    <3>3. Plain(runs) /\ Plain(idle) BY <3>2, PlainSections
    <3>4. runs \in Seq(Steps) /\ idle \in Seq(Steps)
      <4>1. \A c \in Chambers : Step("runs", c) \in Steps /\ Step("idle", c) \in Steps
        BY StepTyped DEF Step
      <4> QED BY <3>2, <4>1, SectionsTyped
    <3> HIDE DEF runs, idle
    <3> QED BY <3>3, <3>4 DEF Plain, ClaimFree
  <2> QED BY <2>1, <2>2, <2>3, <2>4 DEF Unclaimed
<1>3. CASE Wake \/ Tick \/ Leave BY <1>3 DEF Wake, Tick, Leave, Unclaimed
<1>4. CASE Node \/ PowerOff \/ PowerOn \/ FallSilent
  BY <1>4 DEF Node, NodeReceive, NodeStatus, NodeSettle, DeadMan, PowerOff, PowerOn,
              FallSilent, keeperVars, Unclaimed
<1> QED BY <1>1, <1>2, <1>3, <1>4

LEMMA MayKept ==
  ASSUME TypeInv, [Next]_vars
  PROVE  left'.may = left.may
<1>1. PICK m \in Mixes : left \in [may : {m.may}, ops : 0..m.ops, cycles : 0..m.cycles]
  BY DEF TypeInv, LeftTyped
<1>2. left' = left \/ left' = [left EXCEPT !.ops = @ - 1] \/ left' = [left EXCEPT !.cycles = @ - 1]
  <2>1. CASE Gui
    <3>1. \E o, steps : Begin(o, steps) BY <2>1, GuiHalts
    <3> QED BY <3>1 DEF Begin
  <2>2. CASE \E t \in Threads : Run(t) BY <2>2, RunLeaves
  <2>3. CASE Receive \/ Wake \/ Tick \/ Leave BY <2>3 DEF Receive, Wake, Tick, Leave
  <2>4. CASE Node \/ PowerOff \/ PowerOn \/ FallSilent
    BY <2>4 DEF Node, NodeReceive, NodeStatus, NodeSettle, DeadMan, PowerOff, PowerOn,
                FallSilent
  <2>5. CASE UNCHANGED vars BY <2>5 DEF vars
  <2> QED BY <2>1, <2>2, <2>3, <2>4, <2>5 DEF Next
<1> QED BY <1>1, <1>2

LEMMA ClaimNext == TypeInv /\ KeeperInv /\ ClaimInv /\ [Next]_vars => ClaimInv'
<1> SUFFICES ASSUME TypeInv, KeeperInv, ClaimInv, [Next]_vars PROVE ClaimInv' OBVIOUS
<1>1. ClaimInv = IF "claim" \in left.may THEN Accounted ELSE Unclaimed
  BY DEF ClaimInv, Accounted, Unclaimed
<1>2. ClaimInv' = IF "claim" \in left.may THEN Accounted' ELSE Unclaimed'
  BY MayKept DEF ClaimInv, Accounted, Unclaimed
<1>3. CASE UNCHANGED vars
  BY <1>3 DEF vars, keeperVars, nodeVars, ClaimInv, Powered, ScriptsOrdered, LatchedEmpty,
              Bound, Excused, EndedAfter
<1>4. ASSUME Next, "claim" \in left.may PROVE Accounted'
  BY <1>1, <1>4, AccountedRun, AccountedKeepalive, AccountedReceive, AccountedGui,
     AccountedNode DEF Next
<1>5. ASSUME Next, "claim" \notin left.may PROVE Unclaimed'
  BY <1>1, <1>5, UnclaimedRun, UnclaimedRest DEF Next
<1> QED BY <1>2, <1>3, <1>4, <1>5

LEMMA ClaimsHold ==
  ASSUME KeeperInv, ClaimInv
  PROVE  ClaimReleases
<1> SUFFICES ASSUME bench, toNode = <<>>, NEW c \in Chambers PROVE held[c] # "app"
  BY DEF ClaimReleases
<1>1. Bound(c) BY DEF ClaimInv
<1>2. ~Excused(c) BY DEF Excused, KeeperInv, BenchExclusive
<1>3. ~EndedAfter(0, c) BY DEF EndedAfter
<1> QED BY <1>1, <1>2, <1>3 DEF Bound

\* A claim of the bench leaves no hold of the application on the node once its
\* frames have landed, however it races the automatic holds of the read thread,
\* a stop, a shutdown or the keepalives: claim_bench, HoldKeeper's lock and the
\* order of the link do it, for every mix of operations in which a node that may
\* be claimed keeps its power.
THEOREM HoldSoundCorrect ==
  ASSUME ClaimsUnderPower
  PROVE  Spec => []HoldSound
<1>1. Init => TypeInv /\ KeeperInv /\ ClaimInv BY TypesInit, KeeperInit, ClaimInit
<1>2. TypeInv /\ KeeperInv /\ ClaimInv /\ [Next]_vars => (TypeInv /\ KeeperInv /\ ClaimInv)'
  BY TypesNext, KeeperNext, ClaimNext
<1>3. TypeInv /\ KeeperInv /\ ClaimInv => HoldSound
  BY TypesHold, ClaimsHold DEF HoldSound
<1> QED BY <1>1, <1>2, <1>3, PTL DEF Spec
=============================================================================
