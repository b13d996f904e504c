-------------------------- MODULE ActuatorNodeProofs --------------------------
(***************************************************************************)
(* Proofs about both actuator boards, for any number of chambers, pump      *)
(* groups and scenes of commands, and about the ring their commands come    *)
(* through, for any size of it and any number of words in a command.        *)
(*                                                                          *)
(* A command to all chambers is a fold over them.  What every step of a     *)
(* fold keeps its result keeps (FoldKeeps); one lemma per fan-out says so   *)
(* of it, and the rest of the proofs looks at one chamber at a time.        *)
(***************************************************************************)
EXTENDS ActuatorNode, FiniteSetTheorems, SequenceTheorems, TLAPS

-----------------------------------------------------------------------------
(* Folds over finite sets *)

\* A non-empty family of subsets of a finite set has a least one.
LEMMA LeastSet ==
  ASSUME NEW D, IsFiniteSet(D), NEW F, F # {}, \A s \in F : s \subseteq D
  PROVE  \E s \in F : \A u \in F : u \subseteq s => u = s
<1>1. FiniteSubsetsOf(D) = SUBSET D BY FS_FiniteSubsetsOfFinite
<1>2. IsWellFoundedOn(StrictSubsetOrdering(D), SUBSET D)
  BY <1>1, FS_StrictSubsetOrderingWellFounded
<1>4. F \subseteq SUBSET D OBVIOUS
<1>3. \E s \in F : \A u \in F : <<u, s>> \notin StrictSubsetOrdering(D)
  BY <1>2, <1>4, WFMin
<1> QED BY <1>3, <1>4 DEF StrictSubsetOrdering

LEMMA MaxIn ==
  ASSUME NEW D \in SUBSET Int, IsFiniteSet(D), D # {}
  PROVE  Direct!Max(D) \in D
<1> DEFINE Top(s) == \E x \in s : \A y \in s : x >= y
<1> SUFFICES Top(D) BY DEF Direct!Max
<1> DEFINE F == {s \in SUBSET D : s # {} /\ ~Top(s)}
<1> SUFFICES ASSUME F # {} PROVE FALSE OBVIOUS
<1>1. PICK s \in F : \A u \in F : u \subseteq s => u = s
  <2>1. \A s \in F : s \subseteq D OBVIOUS
  <2> HIDE DEF F
  <2> QED BY <2>1, LeastSet
<1>2. PICK x \in s : TRUE OBVIOUS
<1>3. CASE s = {x} BY <1>1, <1>3
<1>4. CASE s \ {x} # {}
  <2>0. s \ {x} \subseteq s /\ s \ {x} # s /\ s \ {x} \in SUBSET D BY <1>2
  <2>1. Top(s \ {x})
    <3> HIDE DEF Top
    <3> QED BY <1>1, <1>4, <2>0
  <2>2. PICK m \in s \ {x} : \A y \in s \ {x} : m >= y BY <2>1
  <2> QED BY <1>1, <1>2, <2>2
<1> QED BY <1>2, <1>3, <1>4

\* The iteration of a fold over the subsets of D, and its solution.
Iterates(h, D, base, g, ch) ==
  \A u \in SUBSET D : h[u] = IF u = {} THEN base ELSE g[ch[u]][h[u \ {ch[u]}]]

LEMMA IterationUnique ==
  ASSUME NEW D, IsFiniteSet(D), NEW base, NEW g, NEW ch,
         \A u \in SUBSET D : u # {} => ch[u] \in u,
         NEW s \in SUBSET D, NEW v \in SUBSET s, NEW h, NEW k,
         Iterates(h, s, base, g, ch), Iterates(k, v, base, g, ch)
  PROVE  \A u \in SUBSET v : h[u] = k[u]
<1> DEFINE F == {u \in SUBSET v : h[u] # k[u]}
<1> SUFFICES ASSUME F # {} PROVE FALSE OBVIOUS
<1>1. PICK u \in F : \A w \in F : w \subseteq u => w = u
  <2>1. \A w \in F : w \subseteq D OBVIOUS
  <2> HIDE DEF F
  <2> QED BY <2>1, LeastSet
<1>2. u \in SUBSET v /\ u \in SUBSET s /\ u \in SUBSET D OBVIOUS
<1>3. u # {} BY <1>1, <1>2 DEF Iterates
<1>4. u \ {ch[u]} \in SUBSET v /\ u \ {ch[u]} # u /\ u \ {ch[u]} \subseteq u BY <1>2, <1>3
<1>5. h[u \ {ch[u]}] = k[u \ {ch[u]}] BY <1>1, <1>4
<1> QED BY <1>1, <1>2, <1>3, <1>5 DEF Iterates

LEMMA IterationExists ==
  ASSUME NEW D, IsFiniteSet(D), NEW T, NEW base \in T, NEW g, NEW ch,
         \A u \in SUBSET D : u # {} => ch[u] \in u,
         \A x \in D, y \in T : g[x][y] \in T
  PROVE  \E h \in [SUBSET D -> T] : Iterates(h, D, base, g, ch)
<1> DEFINE Solves(h, s) == h \in [SUBSET s -> T] /\ Iterates(h, s, base, g, ch)
           F == {s \in SUBSET D : ~\E h : Solves(h, s)}
<1> SUFFICES ASSUME F # {} PROVE FALSE OBVIOUS
<1>1. PICK s \in F : \A w \in F : w \subseteq s => w = s
  <2>1. \A s \in F : s \subseteq D OBVIOUS
  <2> HIDE DEF F
  <2> QED BY <2>1, LeastSet
<1>2. s \in SUBSET D /\ ~\E h : Solves(h, s) OBVIOUS
<1>3. \A w \in SUBSET s : w # s => \E h : Solves(h, w) BY <1>1, <1>2
<1> DEFINE a == [w \in SUBSET s |-> CHOOSE h : Solves(h, w)]
           h == [u \in SUBSET s |-> IF u = {} THEN base
                                    ELSE g[ch[u]][a[u \ {ch[u]}][u \ {ch[u]}]]]
<1> HIDE DEF Solves
<1>4. \A w \in SUBSET s : w # s => Solves(a[w], w) BY <1>3
<1>5. \A u \in SUBSET s : u # {} => /\ ch[u] \in u /\ ch[u] \in D
                                    /\ u \ {ch[u]} \in SUBSET s /\ u \ {ch[u]} # s
  BY <1>2
<1> HIDE DEF a
<1>6. h \in [SUBSET s -> T]
  <2> SUFFICES ASSUME NEW u \in SUBSET s, u # {}
               PROVE  g[ch[u]][a[u \ {ch[u]}][u \ {ch[u]}]] \in T
    OBVIOUS
  <2>1. Solves(a[u \ {ch[u]}], u \ {ch[u]}) BY <1>4, <1>5
  <2>2. a[u \ {ch[u]}][u \ {ch[u]}] \in T BY <2>1 DEF Solves
  <2> QED BY <1>5, <2>2
<1>7. \A w \in SUBSET s : w # s => h[w] = a[w][w]
  <2> SUFFICES ASSUME NEW w \in SUBSET s, w # s PROVE h[w] = a[w][w] OBVIOUS
  <2>1. Solves(a[w], w) BY <1>4
  <2>2. a[w][w] = IF w = {} THEN base ELSE g[ch[w]][a[w][w \ {ch[w]}]]
    BY <2>1 DEF Solves, Iterates
  <2>3. CASE w = {} BY <2>2, <2>3
  <2>4. CASE w # {}
    <3> DEFINE v == w \ {ch[w]}
    <3>1. v \in SUBSET w /\ v \in SUBSET s /\ v # s /\ v \in SUBSET v /\ w \in SUBSET D
      BY <1>2
    <3>2. Solves(a[v], v) BY <1>4, <3>1
    <3> HIDE DEF v
    <3>3. /\ Iterates(a[w], w, base, g, ch) /\ Iterates(a[v], v, base, g, ch)
      BY <2>1, <3>2 DEF Solves
    <3>4. \A p, q : Iterates(p, w, base, g, ch) /\ Iterates(q, v, base, g, ch)
                     => \A u \in SUBSET v : p[u] = q[u]
      BY <3>1, IterationUnique
    <3>5. a[w][v] = a[v][v] BY <3>1, <3>3, <3>4
    <3> QED BY <2>2, <2>4, <3>5 DEF v
  <2> QED BY <2>3, <2>4
<1>8. Iterates(h, s, base, g, ch)
  <2> SUFFICES ASSUME NEW u \in SUBSET s, u # {}
               PROVE  h[u] = g[ch[u]][h[u \ {ch[u]}]]
    BY DEF Iterates
  <2>1. h[u \ {ch[u]}] = a[u \ {ch[u]}][u \ {ch[u]}] BY <1>5, <1>7
  <2> QED BY <2>1
<1> QED BY <1>2, <1>6, <1>8 DEF Solves

\* What each step of a fold keeps, the fold keeps.
LEMMA FoldKeeps ==
  ASSUME NEW S, IsFiniteSet(S), NEW T, NEW h, NEW ch,
         \A u \in SUBSET S : u # {} => ch[u] \in u,
         h[{}] \in T,
         \A u \in SUBSET S : u # {} /\ h[u \ {ch[u]}] \in T => h[u] \in T
  PROVE  h[S] \in T
<1> DEFINE F == {u \in SUBSET S : h[u] \notin T}
<1> SUFFICES ASSUME F # {} PROVE FALSE OBVIOUS
<1>1. PICK u \in F : \A w \in F : w \subseteq u => w = u
  <2>1. \A s \in F : s \subseteq S OBVIOUS
  <2> HIDE DEF F
  <2> QED BY <2>1, LeastSet
<1>2. u # {} BY <1>1
<1>3. u \ {ch[u]} \in SUBSET S /\ u \ {ch[u]} # u /\ u \ {ch[u]} \subseteq u BY <1>1, <1>2
<1>4. h[u \ {ch[u]}] \in T BY <1>1, <1>3
<1> QED BY <1>1, <1>2, <1>4

LEMMA MaxPicks ==
  ASSUME NEW S \in SUBSET Int, IsFiniteSet(S)
  PROVE  \A u \in SUBSET S : u # {} => Direct!Max(u) \in u
<1> SUFFICES ASSUME NEW u \in SUBSET S, u # {} PROVE Direct!Max(u) \in u OBVIOUS
<1>1. u \in SUBSET Int /\ IsFiniteSet(u) BY FS_Subset
<1> QED BY <1>1, MaxIn

LEMMA ForEachKeeps ==
  ASSUME NEW T, NEW b \in T, NEW S \in SUBSET Int, IsFiniteSet(S), NEW step,
         \A c \in S, x \in T : step[c][x] \in T
  PROVE  Direct!ForEach(step, b, S) \in T
<1> DEFINE ch == [u \in SUBSET S |-> Direct!Max(u)]
           Solves(h) == h = [u \in SUBSET S |-> IF u = {} THEN b
                               ELSE step[Direct!Max(u)][h[u \ {Direct!Max(u)}]]]
           iter == CHOOSE h : Solves(h)
<1>1. \A u \in SUBSET S : u # {} => ch[u] \in u /\ ch[u] = Direct!Max(u)
  BY MaxPicks
<1>2. \E h : Solves(h)
  <2>1. PICK h \in [SUBSET S -> T] : Iterates(h, S, b, step, ch)
    <3> HIDE DEF ch
    <3> QED BY <1>1, IterationExists
  <2>2. ASSUME NEW u \in SUBSET S, u # {}
        PROVE  h[u] = step[Direct!Max(u)][h[u \ {Direct!Max(u)}]]
    <3>1. ch[u] = Direct!Max(u) BY <1>1, <2>2
    <3> HIDE DEF ch
    <3>2. h[u] = step[ch[u]][h[u \ {ch[u]}]] BY <2>1, <2>2 DEF Iterates
    <3> QED BY <3>1, <3>2
  <2>3. h[{}] = b BY <2>1 DEF Iterates
  <2>4. h = [u \in SUBSET S |-> h[u]] BY <2>1
  <2>5. \A u \in SUBSET S : h[u] = IF u = {} THEN b
                               ELSE step[Direct!Max(u)][h[u \ {Direct!Max(u)}]]
    BY <2>2, <2>3
  <2> HIDE DEF ch
  <2>6. Solves(h) BY <2>4, <2>5
  <2> QED BY <2>6
<1>3. Solves(iter) BY <1>2
<1>4. Direct!ForEach(step, b, S) = iter[S]
  BY DEF Direct!ForEach, Direct!MapThenFoldSet
<1>5. iter[{}] \in T BY <1>3
<1>6. ASSUME NEW u \in SUBSET S, u # {}, iter[u \ {ch[u]}] \in T PROVE iter[u] \in T
  <2>1. iter[u] = step[ch[u]][iter[u \ {ch[u]}]]
    <3> HIDE DEF iter
    <3> QED BY <1>1, <1>3, <1>6
  <2> HIDE DEF iter, ch
  <2>2. ch[u] \in S BY <1>1, <1>6
  <2> QED BY <1>6, <2>1, <2>2
<1>7. iter[S] \in T
  <2> HIDE DEF iter, ch
  <2> QED BY <1>1, <1>5, <1>6, FoldKeeps
<1> QED BY <1>4, <1>7

\* Both boards fan out in the same way.
LEMMA SameForEach ==
  ASSUME NEW step, NEW b, NEW S
  PROVE  Mux!ForEach(step, b, S) = Direct!ForEach(step, b, S)
BY DEF Mux!ForEach, Mux!MapThenFoldSet, Mux!Max, Direct!ForEach, Direct!MapThenFoldSet, Direct!Max

-----------------------------------------------------------------------------
(* The engine of a line *)

LEMMA DropEngine ==
  ASSUME NEW e \in Direct!Engine, Direct!EngineShape(e), NEW c
  PROVE  /\ Direct!Drop(e, c) \in Direct!Engine /\ Direct!EngineShape(Direct!Drop(e, c))
         /\ Direct!Drop(e, c).pending = e.pending \ {c}
         /\ Direct!Drop(e, c).open = e.open \ {c}
         /\ Direct!Drop(e, c).phase # "idle" => e.phase # "idle"
BY DEF Direct!Drop, Direct!Engine, Direct!EngineShape, Direct!Phases

LEMMA RequestEngine ==
  ASSUME NEW e \in Direct!Engine, Direct!EngineShape(e), NEW c \in Direct!Chambers
  PROVE  /\ Direct!Request(e, c) \in Direct!Engine /\ Direct!EngineShape(Direct!Request(e, c))
         /\ Direct!Request(e, c).pending = e.pending \cup {c}
         /\ Direct!Request(e, c).open = e.open
BY DEF Direct!Request, Direct!Engine, Direct!EngineShape, Direct!Phases

LEMMA IdleIsEngine ==
  Direct!IdleEngine \in Direct!Engine /\ Direct!EngineShape(Direct!IdleEngine)
BY DEF Direct!IdleEngine, Direct!Engine, Direct!EngineShape, Direct!Phases

\* A tick closes valves, opens some of those wanted, and forgets some wishes.
LEMMA TickEngine ==
  ASSUME NEW e \in Direct!Engine, Direct!EngineShape(e), NEW x \in Direct!TickOutcomes(e)
  PROVE  /\ x \in Direct!Engine /\ Direct!EngineShape(x)
         /\ x.pending \subseteq e.pending
         /\ x.open \subseteq e.open \/ e.open = {}
<1>1. Direct!IdleEngine \in Direct!Engine /\ Direct!EngineShape(Direct!IdleEngine)
      /\ Direct!IdleEngine.pending = {} /\ Direct!IdleEngine.open = {}
  BY IdleIsEngine DEF Direct!IdleEngine
<1>2. CASE e.phase = "idle" BY <1>2 DEF Direct!TickOutcomes
<1>3. CASE e.phase = "grouping"
  BY <1>1, <1>3 DEF Direct!TickOutcomes, Direct!GroupOutcomes, Direct!OpenRound, Direct!Engine,
     Direct!EngineShape, Direct!Phases
<1>4. CASE e.phase = "filling"
  BY <1>1, <1>4 DEF Direct!TickOutcomes, Direct!FillOutcomes, Direct!Engine,
     Direct!EngineShape, Direct!Phases
<1>5. CASE e.phase = "settling"
  BY <1>1, <1>5 DEF Direct!TickOutcomes, Direct!SettleOutcomes, Direct!OpenRound, Direct!Engine,
     Direct!EngineShape, Direct!Phases
<1> QED BY <1>2, <1>3, <1>4, <1>5 DEF Direct!Engine, Direct!Phases

-----------------------------------------------------------------------------
(* The direct board: what every command and pass keeps *)

\* The engines' masks, the hold engine and the overrides never claim one valve
\* for two, whatever the bench sends.
Apart(b) == b.eng["inflate"].pending \cap b.eng["deflate"].pending = {}
HoldsApart(b) == /\ \A s \in Direct!Sides : b.eng[s].pending \cap b.hold.open = {}
                 /\ b.hold.open \subseteq b.hold.active
BenchAlone(b) ==
  b.test # Direct!NoTest => /\ \A s \in Direct!Sides : b.eng[s].open = {}
                            /\ b.hold.open = {}
OneValve(b) == \A s \in Direct!Sides : \A c \in b.eng[s].open :
                 <<c, Direct!Other(s)>> \notin b.valve
VentFlag(b) == \A c \in Direct!Chambers :
                 <<c, "inflate">> \in b.manValve /\ <<c, "deflate">> \in b.manValve => c \in b.vent
Sound(b) == /\ b \in Direct!Board /\ Apart(b) /\ HoldsApart(b) /\ BenchAlone(b)
            /\ OneValve(b) /\ VentFlag(b)
            /\ \A s \in Direct!Sides : Direct!EngineShape(b.eng[s])

\* Every open valve has an owner or is one the release of every hold forgot.
OwnedBy(b, c, s) == \/ <<c, s>> \in forgotten
                    \/ c \in b.eng[s].open
                    \/ c \in b.hold.open /\ Direct!HoldSide(b.hold, c) = s
                    \/ <<c, s>> \in b.manValve
Owned(b) == b.test = Direct!NoTest =>
              \A c \in Direct!Chambers, s \in Direct!Sides :
                <<c, s>> \in b.valve => OwnedBy(b, c, s)

\* While anything else drives the manifold the hold engine has no valve open.
Yielding(b) == Direct!Busy(b) => b.hold.open = {}

Keeps(b, d) == /\ Sound(d) /\ (Owned(b) => Owned(d))
               /\ d.stopped = b.stopped /\ d.test = b.test

Calms(b, d) == /\ Keeps(b, d) /\ d.hold.open \subseteq b.hold.open
               /\ Direct!Busy(d) => Direct!Busy(b)

LEMMA KeepsTrans ==
  ASSUME NEW b, NEW d, NEW e, Keeps(b, d), Keeps(d, e)
  PROVE  Keeps(b, e)
BY DEF Keeps

\* The pumps are none of the invariant's business.
LEMMA KeepsDuty ==
  ASSUME NEW b, Sound(b), NEW f \in [Direct!Sides -> Direct!Duties]
  PROVE  Keeps(b, [b EXCEPT !.duty = f])
BY DEF Keeps, Sound, Owned, OwnedBy, Apart, HoldsApart, BenchAlone, OneValve, VentFlag,
   Direct!Board

LEMMA KeepsRecalc ==
  ASSUME NEW b, Sound(b)
  PROVE  Keeps(b, Direct!RecalcPumps(b))
<1>1. [s \in Direct!Sides |-> Direct!RecalcDuty(b, s)] \in [Direct!Sides -> Direct!Duties]
  BY DEF Direct!RecalcDuty, Direct!Duties
<1> QED BY <1>1, KeepsDuty DEF Direct!RecalcPumps

LEMMA KeepsStop ==
  ASSUME NEW b, Sound(b), NEW c \in Direct!Chambers
  PROVE  Keeps(b, Direct!Stop(b, c))
<1> DEFINE d == Direct!Stop(b, c)
<1>0. b \in Direct!Board BY DEF Sound
<1>1. /\ d.valve \subseteq b.valve /\ d.eng = b.eng /\ d.hold = b.hold /\ d.vent = b.vent
      /\ d.manPump = b.manPump /\ d.manValve = b.manValve
      /\ d.stopped = b.stopped /\ d.test = b.test
  BY <1>0 DEF Direct!Stop, Direct!Board
<1>2. d \in Direct!Board BY <1>0 DEF Direct!Stop, Direct!Board
<1> HIDE DEF d
<1>3. Apart(d) BY <1>1 DEF Sound, Apart
<1>4. HoldsApart(d) /\ BenchAlone(d) BY <1>1 DEF Sound, HoldsApart, BenchAlone
<1>5. OneValve(d) /\ VentFlag(d) BY <1>1 DEF Sound, OneValve, VentFlag
<1>6. Sound(d) BY <1>1, <1>2, <1>3, <1>4, <1>5 DEF Sound
<1>7. Owned(b) => Owned(d) BY <1>1 DEF Owned, OwnedBy
<1> QED BY <1>1, <1>6, <1>7 DEF Keeps, d

LEMMA KeepsRecalcIf ==
  ASSUME NEW b, Sound(b), NEW p \in BOOLEAN
  PROVE  Keeps(b, Direct!RecalcIf(b, p))
BY KeepsRecalc DEF Direct!RecalcIf, Keeps

LEMMA KeepsHoldDropAll ==
  ASSUME NEW b, Sound(b), NEW S \in SUBSET Direct!Chambers
  PROVE  /\ Keeps(b, Direct!HoldDropAll(b, S))
         /\ Direct!HoldDropAll(b, S).hold.open = b.hold.open \ S
         /\ Direct!HoldDropAll(b, S).eng = b.eng
         /\ Direct!HoldDropAll(b, S).manPump = b.manPump
         /\ Direct!HoldDropAll(b, S).manValve = b.manValve
<1> DEFINE d == Direct!HoldDropAll(b, S)
<1>0. b \in Direct!Board BY DEF Sound
<1>1. /\ d.hold.open = b.hold.open \ S /\ d.hold.active = b.hold.active \ S
      /\ d.hold.vac = b.hold.vac \ S
      /\ d.hold \in [active : SUBSET Direct!Chambers, open : SUBSET Direct!Chambers,
                     vac : SUBSET Direct!Chambers, last : [Direct!Sides -> BOOLEAN]]
  BY <1>0 DEF Direct!HoldDropAll, Direct!Board
<1>2. d.valve = b.valve \ {v \in Direct!OpenHoldValves(b.hold) : v[1] \in S}
  BY <1>0 DEF Direct!HoldDropAll, Direct!Board
<1>3. d = [b EXCEPT !.valve = d.valve, !.hold = d.hold]
  BY <1>0 DEF Direct!HoldDropAll, Direct!Board
<1> HIDE DEF d
<1>a. /\ d.stopped = b.stopped /\ d.test = b.test /\ d.eng = b.eng /\ d.act = b.act
      /\ d.manPump = b.manPump /\ d.manValve = b.manValve /\ d.vent = b.vent
  BY <1>0, <1>3 DEF Direct!Board
<1>b. d.valve \subseteq b.valve BY <1>2
<1>c. d \in Direct!Board BY <1>0, <1>1, <1>2, <1>3 DEF Direct!Board
<1>d. Apart(d) BY <1>a DEF Sound, Apart
<1>e. HoldsApart(d) /\ BenchAlone(d) BY <1>1, <1>a DEF Sound, HoldsApart, BenchAlone
<1>f. OneValve(d) /\ VentFlag(d) BY <1>a, <1>b DEF Sound, OneValve, VentFlag
<1>4. Sound(d) /\ d.stopped = b.stopped /\ d.test = b.test /\ d.eng = b.eng
      /\ d.manPump = b.manPump /\ d.manValve = b.manValve
  BY <1>a, <1>c, <1>d, <1>e, <1>f DEF Sound
<1>5. Owned(b) => Owned(d)
  BY <1>0, <1>1, <1>2, <1>3, <1>4 DEF Owned, OwnedBy, Direct!HoldSide, Direct!OpenHoldValves, Direct!Board
<1> QED BY <1>1, <1>4, <1>5 DEF Keeps, d

LEMMA KeepsEngDrop ==
  ASSUME NEW b, Sound(b), NEW s \in Direct!Sides, NEW c \in Direct!Chambers
  PROVE  /\ Keeps(b, Direct!EngDrop(b, s, c))
         /\ Direct!EngDrop(b, s, c).hold = b.hold
         /\ Direct!EngDrop(b, s, c).eng = [b.eng EXCEPT ![s] = Direct!Drop(@, c)]
         /\ Direct!EngDrop(b, s, c).manPump = b.manPump
         /\ Direct!EngDrop(b, s, c).manValve = b.manValve
<1> DEFINE e == Direct!Drop(b.eng[s], c)
           d == [b EXCEPT !.eng[s] = e]
<1>0. b \in Direct!Board /\ b.eng[s] \in Direct!Engine BY DEF Sound, Direct!Board
<1>1. /\ e \in Direct!Engine /\ Direct!EngineShape(e)
      /\ e.pending = b.eng[s].pending \ {c} /\ e.open = b.eng[s].open \ {c}
  BY <1>0, DropEngine DEF Sound
<1> HIDE DEF e
<1>2. d \in Direct!Board BY <1>0, <1>1 DEF Direct!Board
<1>3. /\ d.eng[s] = e /\ d.eng = [b.eng EXCEPT ![s] = e]
      /\ \A t \in Direct!Sides \ {s} : d.eng[t] = b.eng[t]
      /\ d.valve = b.valve /\ d.hold = b.hold /\ d.manValve = b.manValve
      /\ d.vent = b.vent /\ d.manPump = b.manPump /\ d.test = b.test /\ d.stopped = b.stopped
  BY <1>0 DEF Direct!Board
<1> HIDE DEF d
<1>4. Sound(d)
  <2>1. Apart(d) BY <1>1, <1>3 DEF Sound, Apart, Direct!Sides
  <2>2. HoldsApart(d) /\ BenchAlone(d) /\ OneValve(d)
    BY <1>1, <1>3 DEF Sound, HoldsApart, BenchAlone, OneValve
  <2>3. VentFlag(d) /\ \A t \in Direct!Sides : Direct!EngineShape(d.eng[t])
    BY <1>1, <1>3 DEF Sound, VentFlag
  <2> QED BY <1>2, <2>1, <2>2, <2>3 DEF Sound
<1>5. CASE c \notin b.eng[s].open
  <2>1. Direct!EngDrop(b, s, c) = d BY <1>5 DEF Direct!EngDrop, d, e
  <2>2. Owned(b) => Owned(d) BY <1>1, <1>3, <1>5 DEF Owned, OwnedBy
  <2> QED BY <1>3, <1>4, <2>1, <2>2 DEF Keeps, e
<1>6. CASE c \in b.eng[s].open
  <2> DEFINE f == Direct!Stop(d, c)
  <2>1. Direct!EngDrop(b, s, c) = f BY <1>6 DEF Direct!EngDrop, d, e
  <2>2. Keeps(d, f) BY <1>4, KeepsStop
  <2>3. /\ f.valve = d.valve \ Direct!Both({c}) /\ f.eng = d.eng /\ f.hold = d.hold
        /\ f.manValve = d.manValve /\ f.manPump = d.manPump /\ f.test = d.test
    BY <1>2 DEF Direct!Stop, Direct!Board
  <2> HIDE DEF f
  <2>4. Owned(b) => Owned(f)
    BY <1>1, <1>3, <2>3 DEF Owned, OwnedBy, Direct!Both
  <2> QED BY <1>3, <2>1, <2>2, <2>3, <2>4 DEF Keeps, e
<1> QED BY <1>5, <1>6

LEMMA KeepsHoldRequest ==
  ASSUME NEW b, Sound(b), NEW s \in Direct!Sides, NEW c \in Direct!Chambers
  PROVE  Keeps(b, Direct!HoldRequest(b, c, s))
<1> DEFINE d == Direct!HoldRequest(b, c, s)
           flipped == c \in b.hold.active /\ Direct!HoldSide(b.hold, c) # s /\ c \in b.hold.open
<1>0. b \in Direct!Board BY DEF Sound
<1>1. /\ d.hold.open = IF flipped THEN b.hold.open \ {c} ELSE b.hold.open
      /\ d.hold.active = b.hold.active \cup {c}
      /\ d.hold.vac = IF s = "deflate" THEN b.hold.vac \cup {c} ELSE b.hold.vac \ {c}
      /\ d.hold \in [active : SUBSET Direct!Chambers, open : SUBSET Direct!Chambers,
                     vac : SUBSET Direct!Chambers, last : [Direct!Sides -> BOOLEAN]]
  BY <1>0 DEF Direct!HoldRequest, Direct!Board
<1>2. d.valve = IF flipped THEN b.valve \ {<<c, Direct!HoldSide(b.hold, c)>>} ELSE b.valve
  BY <1>0 DEF Direct!HoldRequest, Direct!Board
<1>3. d = [b EXCEPT !.valve = d.valve, !.hold = d.hold]
  BY <1>0 DEF Direct!HoldRequest, Direct!Board
<1> HIDE DEF d
<1>a. /\ d.stopped = b.stopped /\ d.test = b.test /\ d.eng = b.eng /\ d.act = b.act
      /\ d.manPump = b.manPump /\ d.manValve = b.manValve /\ d.vent = b.vent
  BY <1>0, <1>3 DEF Direct!Board
<1>b. d.valve \subseteq b.valve BY <1>2
<1>c. d \in Direct!Board BY <1>0, <1>1, <1>2, <1>3 DEF Direct!Board
<1>d. Apart(d) BY <1>a DEF Sound, Apart
<1>e. HoldsApart(d) /\ BenchAlone(d) BY <1>1, <1>a DEF Sound, HoldsApart, BenchAlone
<1>f. OneValve(d) /\ VentFlag(d) BY <1>a, <1>b DEF Sound, OneValve, VentFlag
<1>4. Sound(d) /\ d.stopped = b.stopped /\ d.test = b.test /\ d.eng = b.eng
  BY <1>a, <1>c, <1>d, <1>e, <1>f DEF Sound
<1>5. \A k \in b.hold.open : flipped \/ k # c \/ Direct!HoldSide(b.hold, c) = s
  BY DEF Sound, HoldsApart
<1>6. \A k \in d.hold.open : Direct!HoldSide(d.hold, k) = Direct!HoldSide(b.hold, k)
  BY <1>1, <1>5 DEF Direct!HoldSide, Direct!Sides
<1>7. d.manValve = b.manValve BY <1>0, <1>3 DEF Direct!Board
<1>8. Owned(b) => Owned(d)
  BY <1>0, <1>1, <1>2, <1>4, <1>6, <1>7 DEF Owned, OwnedBy
<1> QED BY <1>4, <1>8 DEF Keeps, d

LEMMA KeepsRequestSide ==
  ASSUME NEW b, Sound(b), NEW s \in Direct!Sides, NEW c \in Direct!Chambers
  PROVE  Keeps(b, Direct!RequestSide(b, c, s))
<1> DEFINE held    == Direct!HoldDrop(b, c)
           dropped == Direct!EngDrop(held, Direct!Other(s), c)
           clear   == Direct!RecalcIf(dropped, c \in held.eng[Direct!Other(s)].open)
           e       == Direct!Request(clear.eng[s], c)
           d       == [clear EXCEPT !.eng[s] = e]
<1>0. Direct!Other(s) \in Direct!Sides /\ Direct!Other(s) # s
  BY DEF Direct!Other, Direct!Sides
<1>1. Keeps(b, held) /\ c \notin held.hold.open
  BY KeepsHoldDropAll DEF Direct!HoldDrop
<1>2. /\ Keeps(held, dropped) /\ dropped.hold = held.hold
      /\ c \notin dropped.eng[Direct!Other(s)].pending
  <2>1. held \in Direct!Board /\ Sound(held) BY <1>1 DEF Keeps, Sound
  <2>2. held.eng[Direct!Other(s)] \in Direct!Engine /\ Direct!EngineShape(held.eng[Direct!Other(s)])
    BY <1>0, <2>1 DEF Sound, Direct!Board
  <2> HIDE DEF held
  <2>3. /\ Keeps(held, dropped) /\ dropped.hold = held.hold
        /\ dropped.eng = [held.eng EXCEPT ![Direct!Other(s)] = Direct!Drop(@, c)]
    BY <1>0, <2>1, KeepsEngDrop
  <2>4. Direct!Drop(held.eng[Direct!Other(s)], c).pending = held.eng[Direct!Other(s)].pending \ {c}
    BY <2>2, DropEngine
  <2> QED BY <1>0, <2>1, <2>3, <2>4 DEF Direct!Board
<1> HIDE DEF held, dropped
<1>3. /\ Keeps(dropped, clear) /\ clear.hold = dropped.hold /\ clear.eng = dropped.eng
  <2>1. Sound(dropped) BY <1>2 DEF Keeps
  <2>2. /\ Direct!RecalcPumps(dropped).hold = dropped.hold
        /\ Direct!RecalcPumps(dropped).eng = dropped.eng
    BY <2>1 DEF Sound, Direct!Board, Direct!RecalcPumps
  <2> QED BY <2>1, <2>2, KeepsRecalcIf DEF Direct!RecalcIf
<1> HIDE DEF clear
<1>4. Keeps(b, clear) BY <1>1, <1>2, <1>3, KeepsTrans
<1>5. /\ Sound(clear) /\ clear \in Direct!Board /\ clear.eng[s] \in Direct!Engine
      /\ Direct!EngineShape(clear.eng[s])
  BY <1>4 DEF Keeps, Sound, Direct!Board
<1>6. /\ e \in Direct!Engine /\ Direct!EngineShape(e)
      /\ e.pending = clear.eng[s].pending \cup {c} /\ e.open = clear.eng[s].open
  BY <1>5, RequestEngine
<1> HIDE DEF e
<1>7. /\ d \in Direct!Board /\ d.eng[s] = e
      /\ \A t \in Direct!Sides \ {s} : d.eng[t] = clear.eng[t]
      /\ d.valve = clear.valve /\ d.hold = clear.hold /\ d.manValve = clear.manValve
      /\ d.vent = clear.vent /\ d.test = clear.test /\ d.stopped = clear.stopped
  BY <1>5, <1>6 DEF Direct!Board
<1> HIDE DEF d
<1>8. Sound(d)
  <2>1. Apart(d)
    BY <1>0, <1>2, <1>3, <1>5, <1>6, <1>7 DEF Sound, Apart, Direct!Sides, Direct!Other
  <2>2. HoldsApart(d) BY <1>1, <1>2, <1>3, <1>5, <1>6, <1>7 DEF Sound, HoldsApart
  <2>3. BenchAlone(d) /\ OneValve(d) BY <1>5, <1>6, <1>7 DEF Sound, BenchAlone, OneValve
  <2>4. VentFlag(d) /\ \A t \in Direct!Sides : Direct!EngineShape(d.eng[t])
    BY <1>5, <1>6, <1>7 DEF Sound, VentFlag
  <2> QED BY <1>7, <2>1, <2>2, <2>3, <2>4 DEF Sound
<1>9. Owned(clear) => Owned(d) BY <1>6, <1>7 DEF Owned, OwnedBy
<1>10. Direct!RequestSide(b, c, s) = d
  BY DEF Direct!RequestSide, d, e, clear, dropped, held
<1> QED BY <1>4, <1>7, <1>8, <1>9, <1>10 DEF Keeps

LEMMA CalmsTrans ==
  ASSUME NEW b, NEW d, NEW e, Calms(b, d), Calms(d, e)
  PROVE  Calms(b, e)
BY KeepsTrans DEF Calms

LEMMA CalmsRecalc ==
  ASSUME NEW b, Sound(b)
  PROVE  Calms(b, Direct!RecalcPumps(b))
<1>1. b \in Direct!Board BY DEF Sound
<1>2. /\ Direct!RecalcPumps(b).hold = b.hold /\ Direct!RecalcPumps(b).eng = b.eng
      /\ Direct!RecalcPumps(b).manPump = b.manPump /\ Direct!RecalcPumps(b).manValve = b.manValve
  BY <1>1 DEF Direct!RecalcPumps, Direct!Board
<1> QED BY <1>2, KeepsRecalc DEF Calms, Direct!Busy

LEMMA CalmsStop ==
  ASSUME NEW b, Sound(b), NEW c \in Direct!Chambers
  PROVE  Calms(b, Direct!Stop(b, c))
<1>1. b \in Direct!Board BY DEF Sound
<1>2. /\ Direct!Stop(b, c).hold = b.hold /\ Direct!Stop(b, c).eng = b.eng
      /\ Direct!Stop(b, c).manPump = b.manPump /\ Direct!Stop(b, c).manValve = b.manValve
  BY <1>1 DEF Direct!Stop, Direct!Board
<1> QED BY <1>2, KeepsStop DEF Calms, Direct!Busy

LEMMA CalmsHoldDrop ==
  ASSUME NEW b, Sound(b), NEW S \in SUBSET Direct!Chambers
  PROVE  Calms(b, Direct!HoldDropAll(b, S))
BY KeepsHoldDropAll DEF Calms, Direct!Busy

LEMMA CalmsEngDrop ==
  ASSUME NEW b, Sound(b), NEW s \in Direct!Sides, NEW c \in Direct!Chambers
  PROVE  Calms(b, Direct!EngDrop(b, s, c))
<1> DEFINE d == Direct!EngDrop(b, s, c)
<1>1. /\ Keeps(b, d) /\ d.hold = b.hold /\ d.eng = [b.eng EXCEPT ![s] = Direct!Drop(@, c)]
      /\ d.manPump = b.manPump /\ d.manValve = b.manValve
  BY KeepsEngDrop
<1> HIDE DEF d
<1>2. b \in Direct!Board /\ b.eng[s] \in Direct!Engine /\ Direct!EngineShape(b.eng[s])
  BY DEF Sound, Direct!Board
<1>3. Direct!Drop(b.eng[s], c).phase # "idle" => b.eng[s].phase # "idle" BY <1>2, DropEngine
<1>4. \A t \in Direct!Sides : d.eng[t].phase # "idle" => b.eng[t].phase # "idle"
  BY <1>1, <1>2, <1>3 DEF Direct!Board
<1> QED BY <1>1, <1>4 DEF Calms, Direct!Busy, d

LEMMA CalmsHoldChamber ==
  ASSUME NEW b, Sound(b), NEW c \in Direct!Chambers
  PROVE  Calms(b, Direct!HoldChamber(b, c))
<1> DEFINE b1 == Direct!HoldDrop(b, c)
           b2 == Direct!EngDrop(b1, "inflate", c)
           b3 == Direct!EngDrop(b2, "deflate", c)
           b4 == Direct!Stop(b3, c)
<1>1. Calms(b, b1) BY CalmsHoldDrop DEF Direct!HoldDrop
<1> HIDE DEF b1
<1>2. Calms(b1, b2) BY <1>1, CalmsEngDrop DEF Calms, Keeps, Direct!Sides
<1> HIDE DEF b2
<1>3. Calms(b2, b3) BY <1>2, CalmsEngDrop DEF Calms, Keeps, Direct!Sides
<1> HIDE DEF b3
<1>4. Calms(b3, b4) BY <1>3, CalmsStop DEF Calms, Keeps
<1> HIDE DEF b4
<1>5. Calms(b4, Direct!RecalcPumps(b4)) BY <1>4, CalmsRecalc DEF Calms, Keeps
<1>6. Calms(b, b4) BY <1>1, <1>2, <1>3, <1>4, CalmsTrans
<1>7. Direct!HoldChamber(b, c) = Direct!RecalcPumps(b4)
  BY DEF Direct!HoldChamber, b4, b3, b2, b1
<1> QED BY <1>5, <1>6, <1>7, CalmsTrans

LEMMA KeepsApplyChamberCmd ==
  ASSUME NEW b, Sound(b), NEW c \in Direct!Chambers,
         NEW what \in Direct!Sides \cup {"none", "hold"}
  PROVE  Keeps(b, Direct!ApplyChamberCmd(b, c, what))
<1>1. CASE what = "none"
  <2>1. Direct!ApplyChamberCmd(b, c, what) = b
    BY <1>1 DEF Direct!ApplyChamberCmd, Direct!Sides
  <2> QED BY <2>1 DEF Keeps
<1>2. CASE what = "hold"
  <2>1. Direct!ApplyChamberCmd(b, c, what) = Direct!HoldChamber(b, c)
    BY <1>2 DEF Direct!ApplyChamberCmd, Direct!Sides
  <2> QED BY <2>1, CalmsHoldChamber DEF Calms
<1>3. CASE what \in Direct!Sides
  <2>1. Direct!ApplyChamberCmd(b, c, what) = Direct!RequestSide(b, c, what)
    BY <1>3 DEF Direct!ApplyChamberCmd, Direct!Sides
  <2> QED BY <1>3, <2>1, KeepsRequestSide
<1> QED BY <1>1, <1>2, <1>3

\* The bench takes a chamber out of both engines before it opens its valves.
Free(b, c) == \A s \in Direct!Sides : c \notin b.eng[s].open

LEMMA CalmsLeaveEngines ==
  ASSUME NEW b, Sound(b), NEW c \in Direct!Chambers
  PROVE  Calms(b, Direct!LeaveEngines(b, c)) /\ Free(Direct!LeaveEngines(b, c), c)
<1> DEFINE b1 == Direct!EngDrop(b, "inflate", c)
           b2 == Direct!EngDrop(b1, "deflate", c)
<1>1. Calms(b, b1) /\ b1.eng = [b.eng EXCEPT !["inflate"] = Direct!Drop(@, c)]
  BY CalmsEngDrop, KeepsEngDrop DEF Direct!Sides
<1>2. b.eng \in [Direct!Sides -> Direct!Engine] /\ Direct!EngineShape(b.eng["inflate"])
  BY DEF Sound, Direct!Board, Direct!Sides
<1>3. Direct!Drop(b.eng["inflate"], c).open = b.eng["inflate"].open \ {c}
  BY <1>2, DropEngine DEF Direct!Sides
<1>4. c \notin b1.eng["inflate"].open BY <1>1, <1>2, <1>3 DEF Direct!Sides
<1> HIDE DEF b1
<1>5. Sound(b1) BY <1>1 DEF Calms, Keeps
<1>6. Calms(b1, b2) /\ b2.eng = [b1.eng EXCEPT !["deflate"] = Direct!Drop(@, c)]
  BY <1>5, CalmsEngDrop, KeepsEngDrop DEF Direct!Sides
<1>7. b1.eng \in [Direct!Sides -> Direct!Engine] /\ Direct!EngineShape(b1.eng["deflate"])
  BY <1>5 DEF Sound, Direct!Board, Direct!Sides
<1>8. Direct!Drop(b1.eng["deflate"], c).open = b1.eng["deflate"].open \ {c}
  BY <1>7, DropEngine DEF Direct!Sides
<1>9. Free(b2, c) BY <1>4, <1>6, <1>7, <1>8 DEF Free, Direct!Sides
<1> QED BY <1>1, <1>6, <1>9, CalmsTrans DEF Direct!LeaveEngines, b1

LEMMA KeepsManualOpen ==
  ASSUME NEW b, Sound(b), NEW s \in Direct!Sides, NEW c \in Direct!Chambers, Free(b, c)
  PROVE  Keeps(b, Direct!SetManualValve(b, c, s, TRUE))
<1> DEFINE opposite == {<<c, Direct!Other(s)>>} \cap b.manValve
           d == Direct!SetManualValve(b, c, s, TRUE)
<1>0. b \in Direct!Board /\ Direct!Other(s) \in Direct!Sides /\ Direct!Other(s) # s
  BY DEF Sound, Direct!Other, Direct!Sides
<1>1. d = [b EXCEPT !.valve = (@ \ opposite) \cup {<<c, s>>},
                    !.manValve = (@ \ opposite) \cup {<<c, s>>}, !.vent = @ \ {c}]
  BY ZenonT(40), <1>0 DEF Direct!SetManualValve, Direct!SetValves, Direct!Board
<1> HIDE DEF d, opposite
<1>2. /\ d.eng = b.eng /\ d.hold = b.hold /\ d.test = b.test
      /\ d.stopped = b.stopped /\ d.valve = (b.valve \ opposite) \cup {<<c, s>>}
      /\ d.manValve = (b.manValve \ opposite) \cup {<<c, s>>} /\ d.vent = b.vent \ {c}
  BY <1>0, <1>1 DEF Direct!Board
<1>9. d \in Direct!Board
  <2>1. <<c, s>> \in Direct!Both(Direct!Chambers) BY DEF Direct!Both
  <2>2. /\ d.valve \in SUBSET Direct!Both(Direct!Chambers)
        /\ d.manValve \in SUBSET Direct!Both(Direct!Chambers)
        /\ d.vent \in SUBSET Direct!Chambers
    BY <1>0, <1>2, <2>1 DEF Direct!Board
  <2>3. d = [b EXCEPT !.valve = d.valve, !.manValve = d.manValve, !.vent = d.vent]
    BY <1>0, <1>1, <1>2
  <2> QED BY <1>0, <2>2, <2>3 DEF Direct!Board
<1>3. Apart(d) /\ HoldsApart(d) /\ BenchAlone(d) BY <1>2 DEF Sound, Apart, HoldsApart, BenchAlone
<1>4. OneValve(d) BY <1>2 DEF Sound, OneValve, Free
<1>5. VentFlag(d) BY <1>0, <1>2 DEF Sound, VentFlag, Direct!Other, Direct!Sides, opposite
<1>6. Owned(b) => Owned(d) BY <1>2 DEF Owned, OwnedBy
<1> QED BY <1>2, <1>3, <1>4, <1>5, <1>6, <1>9 DEF Keeps, Sound, d

LEMMA CalmsManualClose ==
  ASSUME NEW b, Sound(b), NEW V \in SUBSET Direct!Both(Direct!Chambers),
         NEW vent \in SUBSET b.vent, NEW d,
         d = [b EXCEPT !.valve = @ \ V, !.manValve = @ \ V, !.vent = vent],
         \A c \in b.vent \ vent : <<c, "inflate">> \in V \/ <<c, "deflate">> \in V
  PROVE  Calms(b, d)
<1>0. b \in Direct!Board BY DEF Sound
<1>2. /\ d \in Direct!Board /\ d.eng = b.eng /\ d.hold = b.hold /\ d.test = b.test
      /\ d.stopped = b.stopped /\ d.valve = b.valve \ V
      /\ d.manValve = b.manValve \ V /\ d.vent = vent /\ d.manPump = b.manPump
  BY <1>0 DEF Direct!Board
<1>3. Apart(d) /\ HoldsApart(d) /\ BenchAlone(d) BY <1>2 DEF Sound, Apart, HoldsApart, BenchAlone
<1>4. OneValve(d) BY <1>2 DEF Sound, OneValve
<1>5. VentFlag(d) BY <1>0, <1>2 DEF Sound, VentFlag
<1>6. Owned(b) => Owned(d) BY <1>2 DEF Owned, OwnedBy
<1>7. Direct!Busy(d) => Direct!Busy(b) BY <1>2 DEF Direct!Busy
<1> QED BY <1>2, <1>3, <1>4, <1>5, <1>6, <1>7 DEF Calms, Keeps, Sound

LEMMA CalmsSetManualValve ==
  ASSUME NEW b, Sound(b), NEW s \in Direct!Sides, NEW c \in Direct!Chambers
  PROVE  Calms(b, Direct!SetManualValve(b, c, s, FALSE))
<1>0. b \in Direct!Board /\ {<<c, s>>} \in SUBSET Direct!Both(Direct!Chambers)
  BY DEF Sound, Direct!Both
<1>1. Direct!SetManualValve(b, c, s, FALSE)
        = [b EXCEPT !.valve = @ \ {<<c, s>>}, !.manValve = @ \ {<<c, s>>}, !.vent = b.vent]
  BY <1>0 DEF Direct!SetManualValve, Direct!SetValves, Direct!Board
<1> QED BY <1>0, <1>1, CalmsManualClose

LEMMA CalmsVentClose ==
  ASSUME NEW b, Sound(b), NEW c \in Direct!Chambers
  PROVE  Calms(b, Direct!SetManualVent(b, c, FALSE))
<1> DEFINE V == Direct!Both({c})
           d == [b EXCEPT !.valve = @ \ V, !.manValve = @ \ V, !.vent = b.vent \ {c}]
<1>0. b \in Direct!Board /\ V \in SUBSET Direct!Both(Direct!Chambers)
  BY DEF Sound, Direct!Both
<1>1. \A k \in b.vent \ (b.vent \ {c}) : <<k, "inflate">> \in V BY DEF Direct!Both, Direct!Sides
<1>2. Direct!SetManualVent(b, c, FALSE) = Direct!RecalcPumps(d)
  BY <1>0 DEF Direct!SetManualVent, Direct!SetValves, Direct!Board
<1> HIDE DEF V
<1>3. Calms(b, d) BY <1>0, <1>1, CalmsManualClose
<1> HIDE DEF d
<1>4. Calms(d, Direct!RecalcPumps(d)) BY <1>3, CalmsRecalc DEF Calms, Keeps
<1> QED BY <1>2, <1>3, <1>4, CalmsTrans

LEMMA KeepsVentOpen ==
  ASSUME NEW b, Sound(b), NEW c \in Direct!Chambers, Free(b, c)
  PROVE  Keeps(b, Direct!SetManualVent(b, c, TRUE))
<1> DEFINE V == Direct!Both({c})
           d == [b EXCEPT !.valve = @ \cup V, !.manValve = @ \cup V, !.vent = @ \cup {c}]
<1>0. b \in Direct!Board /\ V \in SUBSET Direct!Both(Direct!Chambers)
  BY DEF Sound, Direct!Both
<1>1. Direct!SetManualVent(b, c, TRUE) = Direct!RecalcPumps(d)
  BY <1>0 DEF Direct!SetManualVent, Direct!SetValves, Direct!Board
<1>2. \A k, s : <<k, s>> \in V <=> k = c /\ s \in Direct!Sides BY DEF Direct!Both
<1> HIDE DEF V
<1>3. /\ d \in Direct!Board /\ d.eng = b.eng /\ d.hold = b.hold /\ d.test = b.test
      /\ d.stopped = b.stopped /\ d.valve = b.valve \cup V
      /\ d.manValve = b.manValve \cup V /\ d.vent = b.vent \cup {c}
  BY <1>0 DEF Direct!Board
<1> HIDE DEF d
<1>4. Apart(d) /\ HoldsApart(d) /\ BenchAlone(d) BY <1>3 DEF Sound, Apart, HoldsApart, BenchAlone
<1>5. OneValve(d) BY <1>2, <1>3 DEF Sound, OneValve, Free
<1>6. VentFlag(d) BY <1>2, <1>3 DEF Sound, VentFlag
<1>7. Owned(b) => Owned(d) BY <1>3 DEF Owned, OwnedBy
<1>8. Keeps(b, d) BY <1>3, <1>4, <1>5, <1>6, <1>7 DEF Keeps, Sound
<1>9. Keeps(d, Direct!RecalcPumps(d)) BY <1>8, KeepsRecalc DEF Keeps
<1> QED BY <1>1, <1>8, <1>9, KeepsTrans

LEMMA KeepsVent ==
  ASSUME NEW b, Sound(b), NEW c \in Direct!Chambers, NEW open \in BOOLEAN
  PROVE  Keeps(b, Direct!Vent(b, c, open))
<1> DEFINE b1 == Direct!LeaveEngines(b, c)
           b2 == Direct!HoldDrop(b1, c)
<1>1. Keeps(b, b1) /\ Free(b1, c) BY CalmsLeaveEngines DEF Calms
<1> HIDE DEF b1
<1>2. Keeps(b1, b2) /\ b2.eng = b1.eng
  BY <1>1, KeepsHoldDropAll DEF Direct!HoldDrop, Keeps
<1> HIDE DEF b2
<1>3. Sound(b2) /\ Free(b2, c) BY <1>1, <1>2 DEF Keeps, Free
<1>4. Keeps(b2, Direct!SetManualVent(b2, c, open))
  BY <1>3, KeepsVentOpen, CalmsVentClose DEF Calms
<1> QED BY <1>1, <1>2, <1>4, KeepsTrans DEF Direct!Vent, b2, b1

LEMMA CalmsPumpOff ==
  ASSUME NEW b, Sound(b), NEW P \in SUBSET Direct!Sides,
         NEW f \in [Direct!Sides -> Direct!Duties],
         NEW d, d = [b EXCEPT !.manPump = @ \ P, !.duty = f]
  PROVE  Calms(b, d)
<1>0. b \in Direct!Board BY DEF Sound
<1>1. /\ d \in Direct!Board /\ d.eng = b.eng /\ d.hold = b.hold /\ d.test = b.test
      /\ d.stopped = b.stopped /\ d.valve = b.valve
      /\ d.manValve = b.manValve /\ d.vent = b.vent /\ d.manPump = b.manPump \ P
  BY <1>0 DEF Direct!Board
<1>2. Sound(d)
  BY <1>1 DEF Sound, Apart, HoldsApart, BenchAlone, OneValve, VentFlag
<1>3. Owned(b) => Owned(d) BY <1>1 DEF Owned, OwnedBy
<1> QED BY <1>1, <1>2, <1>3 DEF Calms, Keeps, Direct!Busy

LEMMA KeepsSetManualPump ==
  ASSUME NEW b, Sound(b), NEW s \in Direct!Sides, NEW on \in BOOLEAN
  PROVE  /\ Keeps(b, Direct!SetManualPump(b, s, on))
         /\ ~on => Calms(b, Direct!SetManualPump(b, s, on))
<1> DEFINE d == Direct!SetManualPump(b, s, on)
           f == [b.duty EXCEPT ![s] = IF on THEN "full" ELSE "off"]
<1>0. b \in Direct!Board BY DEF Sound
<1>1. f \in [Direct!Sides -> Direct!Duties] BY <1>0 DEF Direct!Board, Direct!Duties
<1>2. d = [b EXCEPT !.manPump = IF on THEN @ \cup {s} ELSE @ \ {s}, !.duty = f]
  BY <1>0 DEF Direct!SetManualPump, Direct!Board
<1>3. CASE ~on
  <2>1. d = [b EXCEPT !.manPump = @ \ {s}, !.duty = f] BY <1>2, <1>3
  <2> HIDE DEF d, f
  <2>2. {s} \in SUBSET Direct!Sides OBVIOUS
  <2>3. Calms(b, d) BY <1>1, <2>1, <2>2, CalmsPumpOff
  <2> QED BY <2>3 DEF Calms, d
<1>4. CASE on
  <2> HIDE DEF d, f
  <2>1. /\ d \in Direct!Board /\ d.eng = b.eng /\ d.hold = b.hold /\ d.test = b.test
        /\ d.stopped = b.stopped /\ d.valve = b.valve
        /\ d.manValve = b.manValve /\ d.vent = b.vent
    BY <1>0, <1>1, <1>2, <1>4 DEF Direct!Board
  <2>2. Sound(d)
    BY <2>1 DEF Sound, Apart, HoldsApart, BenchAlone, OneValve, VentFlag
  <2>3. Owned(b) => Owned(d) BY <2>1 DEF Owned, OwnedBy
  <2> QED BY <1>4, <2>1, <2>2, <2>3 DEF Keeps, d
<1> QED BY <1>3, <1>4

LEMMA CalmsDeadmanValve ==
  ASSUME NEW b, Sound(b), NEW c \in Direct!Chambers, NEW s \in Direct!Sides
  PROVE  Calms(b, Direct!DeadmanValve(b, <<c, s>>))
<1>1. Calms(b, b) BY DEF Calms, Keeps
<1>2. Direct!DeadmanValve(b, <<c, s>>) \in
        {b, Direct!SetManualVent(b, c, FALSE), Direct!SetManualValve(b, c, s, FALSE)}
  BY DEF Direct!DeadmanValve
<1> QED BY <1>1, <1>2, CalmsVentClose, CalmsSetManualValve

LEMMA CalmsDeadmanOf ==
  ASSUME NEW b, Sound(b), NEW c \in Direct!Chambers, NEW valves
  PROVE  Calms(b, Direct!DeadmanOf(b, c, valves))
<1> DEFINE i == IF <<c, "inflate">> \in valves
                  THEN Direct!DeadmanValve(b, <<c, "inflate">>) ELSE b
<1>1. Calms(b, b) BY DEF Calms, Keeps
<1>2. Calms(b, i) BY <1>1, CalmsDeadmanValve DEF Direct!Sides
<1>3. Sound(i) BY <1>2 DEF Calms, Keeps
<1> HIDE DEF i
<1>4. Calms(i, i) BY <1>3 DEF Calms, Keeps
<1>5. Calms(i, IF <<c, "deflate">> \in valves THEN Direct!DeadmanValve(i, <<c, "deflate">>) ELSE i)
  BY <1>3, <1>4, CalmsDeadmanValve DEF Direct!Sides
<1> QED BY <1>2, <1>5, CalmsTrans DEF Direct!DeadmanOf, i

LEMMA CalmsHardCut ==
  ASSUME NEW b, Sound(b), NEW s \in Direct!Sides, NEW past \in SUBSET Direct!Chambers
  PROVE  Calms(b, Direct!HardCut(b, s, past))
<1> DEFINE off == Direct!SetManualPump(b, s, FALSE)
           V   == (past \X {s}) \cap b.manValve
           d   == [off EXCEPT !.valve = @ \ V, !.manValve = @ \ V, !.vent = off.vent]
<1>1. Calms(b, b) BY DEF Calms, Keeps
<1>2. CASE s \notin b.manPump \/ past = {}
  BY <1>1, <1>2 DEF Direct!HardCut
<1>3. CASE ~(s \notin b.manPump \/ past = {})
  <2>1. Calms(b, off) BY KeepsSetManualPump
  <2>2. b \in Direct!Board /\ off \in Direct!Board /\ Sound(off)
    BY <2>1 DEF Calms, Keeps, Sound
  <2>3. off.manValve = b.manValve BY <2>2 DEF Direct!SetManualPump, Direct!Board
  <2> HIDE DEF off
  <2>4. Direct!HardCut(b, s, past) = d
    BY <1>3, <2>2, <2>3 DEF Direct!HardCut, Direct!SetValves, Direct!Board, off
  <2>5. V \in SUBSET Direct!Both(Direct!Chambers) BY <2>2 DEF Direct!Board
  <2> HIDE DEF V
  <2>6. Calms(off, d) BY <2>2, <2>5, CalmsManualClose
  <2> QED BY <2>1, <2>4, <2>6, CalmsTrans
<1> QED BY <1>2, <1>3

\* The mirrors and the pumps they drive change nothing else.
LEMMA CalmsHoldMirror ==
  ASSUME NEW b, Sound(b), NEW retuned \in BOOLEAN
  PROVE  /\ Calms(b, Direct!HoldMirror(b, retuned))
         /\ Direct!HoldMirror(b, retuned).hold = b.hold
<1> DEFINE mask == [s \in Direct!Sides |-> Direct!OfSide(b.hold, b.hold.open, s)]
           d == [b EXCEPT !.holdMask = mask, !.holdDuty = b.hold.last]
<1>0. b \in Direct!Board BY DEF Sound
<1>1. mask \in [Direct!Sides -> SUBSET Direct!Chambers]
      /\ b.hold.last \in [Direct!Sides -> BOOLEAN]
  BY <1>0 DEF Direct!OfSide, Direct!Board
<1>2. Direct!HoldMirror(b, retuned) \in {b, Direct!RecalcPumps(d)}
  BY DEF Direct!HoldMirror
<1> HIDE DEF mask
<1>3. /\ d \in Direct!Board /\ d.eng = b.eng /\ d.hold = b.hold /\ d.test = b.test
      /\ d.stopped = b.stopped /\ d.valve = b.valve
      /\ d.manValve = b.manValve /\ d.vent = b.vent /\ d.manPump = b.manPump
  BY <1>0, <1>1 DEF Direct!Board
<1> HIDE DEF d
<1>4. Sound(d)
  BY <1>3 DEF Sound, Apart, HoldsApart, BenchAlone, OneValve, VentFlag
<1>5. Owned(b) => Owned(d) BY <1>3 DEF Owned, OwnedBy
<1>6. Calms(b, d) BY <1>3, <1>4, <1>5 DEF Calms, Keeps, Direct!Busy
<1>7. Calms(d, Direct!RecalcPumps(d)) /\ Direct!RecalcPumps(d).hold = d.hold
  BY <1>3, <1>4, CalmsRecalc DEF Direct!RecalcPumps, Direct!Board
<1>8. Calms(b, b) BY DEF Calms, Keeps
<1> QED BY <1>2, <1>3, <1>6, <1>7, <1>8, CalmsTrans

\* The hold engine puts down its valves, or moves them while nothing else runs.
LEMMA KeepsHoldSuspend ==
  ASSUME NEW b, Sound(b)
  PROVE  Keeps(b, Direct!HoldSuspend(b)) /\ Direct!HoldSuspend(b).hold.open = {}
<1> DEFINE d == Direct!HoldSuspend(b)
<1>0. b \in Direct!Board BY DEF Sound
<1>1. /\ d.hold = [b.hold EXCEPT !.open = {}, !.last = [s \in Direct!Sides |-> FALSE]]
      /\ d.valve = b.valve \ Direct!OpenHoldValves(b.hold)
      /\ d.eng = b.eng /\ d.test = b.test /\ d.stopped = b.stopped
      /\ d.manValve = b.manValve /\ d.vent = b.vent /\ d = [b EXCEPT !.valve = d.valve, !.hold = d.hold]
  BY <1>0 DEF Direct!HoldSuspend, Direct!Board
<1> HIDE DEF d
<1>2. d.hold.open = {} /\ d.hold.active = b.hold.active /\ d \in Direct!Board
  <2>1. [s \in Direct!Sides |-> FALSE] \in [Direct!Sides -> BOOLEAN] OBVIOUS
  <2>2. d.hold \in [active : SUBSET Direct!Chambers, open : SUBSET Direct!Chambers,
                    vac : SUBSET Direct!Chambers, last : [Direct!Sides -> BOOLEAN]]
    BY <1>0, <1>1, <2>1 DEF Direct!Board
  <2>3. d.hold.open = {} /\ d.hold.active = b.hold.active BY <1>0, <1>1 DEF Direct!Board
  <2> QED BY <1>0, <1>1, <2>2, <2>3 DEF Direct!Board
<1>3. Sound(d)
  BY <1>1, <1>2 DEF Sound, Apart, HoldsApart, BenchAlone, OneValve, VentFlag
<1>4. Owned(b) => Owned(d)
  BY <1>1, <1>2 DEF Owned, OwnedBy, Direct!OpenHoldValves
<1> QED BY <1>1, <1>2, <1>3, <1>4 DEF Keeps, d

LEMMA KeepsNoHold ==
  ASSUME NEW b, Sound(b), b.hold.active = {}
  PROVE  /\ Keeps(b, [b EXCEPT !.hold = Direct!NoHold])
         /\ [b EXCEPT !.hold = Direct!NoHold].hold.open = {}
<1> DEFINE d == [b EXCEPT !.hold = Direct!NoHold]
<1>0. b \in Direct!Board /\ b.hold.open = {} BY DEF Sound, HoldsApart
<1>1. /\ d \in Direct!Board /\ d.hold.open = {} /\ d.hold.active = {}
      /\ d.eng = b.eng /\ d.test = b.test /\ d.stopped = b.stopped
      /\ d.manValve = b.manValve /\ d.vent = b.vent /\ d.valve = b.valve
  BY <1>0 DEF Direct!Board, Direct!NoHold
<1> HIDE DEF d
<1>2. Sound(d)
  BY <1>1 DEF Sound, Apart, HoldsApart, BenchAlone, OneValve, VentFlag
<1>3. Owned(b) => Owned(d) BY <1>0, <1>1 DEF Owned, OwnedBy
<1> QED BY <1>1, <1>2, <1>3 DEF Keeps, d

LEMMA KeepsHoldApply ==
  ASSUME NEW b, Sound(b), ~Direct!Busy(b), b.test = Direct!NoTest,
         NEW want \in SUBSET b.hold.active
  PROVE  Keeps(b, Direct!HoldApply(b, want)) /\ ~Direct!Busy(Direct!HoldApply(b, want))
<1> DEFINE d == Direct!HoldApply(b, want)
           shut == [b.hold EXCEPT !.open = @ \ want]
           new  == [b.hold EXCEPT !.open = want \ @]
<1>0. /\ b \in Direct!Board /\ b.manPump = {} /\ b.manValve = {}
      /\ \A s \in Direct!Sides : b.eng[s].pending = {} /\ b.eng[s].open = {}
  <2>1. b \in Direct!Board /\ b.manPump = {} /\ b.manValve = {} BY DEF Sound, Direct!Busy
  <2>2. \A s \in Direct!Sides : b.eng[s].pending = {} /\ b.eng[s].open = {}
    BY DEF Sound, Direct!Busy, Direct!EngineShape
  <2> QED BY <2>1, <2>2
<1>1. /\ d.hold.open = want /\ d.hold.active = b.hold.active /\ d.hold.vac = b.hold.vac
      /\ d.hold.last = [s \in Direct!Sides |-> Direct!OfSide(b.hold, want, s) # {}]
      /\ d.hold = [b.hold EXCEPT !.open = want, !.last = d.hold.last]
      /\ d.valve = (b.valve \ Direct!OpenHoldValves(shut)) \cup Direct!OpenHoldValves(new)
      /\ d.eng = b.eng /\ d.test = b.test /\ d.stopped = b.stopped /\ d.manPump = b.manPump
      /\ d.manValve = b.manValve /\ d.vent = b.vent /\ d = [b EXCEPT !.valve = d.valve, !.hold = d.hold]
  BY <1>0 DEF Direct!HoldApply, Direct!Board
<1>2. /\ shut.open = b.hold.open \ want /\ shut.vac = b.hold.vac
      /\ new.open = want \ b.hold.open /\ new.vac = b.hold.vac
  BY <1>0 DEF Direct!Board
<1> HIDE DEF d, shut, new
<1>3. Direct!OpenHoldValves(new) \subseteq Direct!Both(Direct!Chambers)
  BY <1>0, <1>2 DEF Direct!OpenHoldValves, Direct!HoldSide, Direct!Both, Direct!Sides, Direct!Board
<1>4. d \in Direct!Board
  <2>1. d.hold.last \in [Direct!Sides -> BOOLEAN] BY <1>1
  <2>2. d.valve \in SUBSET Direct!Both(Direct!Chambers) BY <1>0, <1>1, <1>3 DEF Direct!Board
  <2> QED BY <1>0, <1>1, <2>1, <2>2 DEF Direct!Board
<1>5. Sound(d)
  BY <1>0, <1>1, <1>4 DEF Sound, Apart, HoldsApart, BenchAlone, OneValve, VentFlag
<1>6. Owned(b) => Owned(d)
  BY <1>0, <1>1, <1>2 DEF Owned, OwnedBy, Direct!OpenHoldValves, Direct!HoldSide
<1>7. ~Direct!Busy(d) BY <1>1 DEF Direct!Busy
<1> QED BY <1>1, <1>5, <1>6, <1>7 DEF Keeps, d

LEMMA KeepsActOn ==
  ASSUME NEW b, Sound(b), b.test = Direct!NoTest, NEW s \in Direct!Sides,
         NEW e \in Direct!TickOutcomes(b.eng[s])
  PROVE  Keeps(b, Direct!ActOn(b, s, e))
<1> DEFINE closed == b.eng[s].open \ e.open
           opened == e.open \ b.eng[s].open
           d == Direct!ActOn(b, s, e)
<1>0. b \in Direct!Board /\ b.eng[s] \in Direct!Engine /\ Direct!EngineShape(b.eng[s])
  BY DEF Sound, Direct!Board
<1>1. /\ e \in Direct!Engine /\ Direct!EngineShape(e) /\ e.pending \subseteq b.eng[s].pending
      /\ opened \subseteq e.pending /\ opened \subseteq Direct!Chambers
  <2>1. e \in Direct!Engine /\ Direct!EngineShape(e) /\ e.pending \subseteq b.eng[s].pending
    BY <1>0, TickEngine
  <2> QED BY <2>1 DEF Direct!EngineShape, Direct!Engine
<1>2. /\ d.eng = [b.eng EXCEPT ![s] = e]
      /\ d.valve = (b.valve \ Direct!Both(closed \cup opened)) \cup (opened \X {s})
      /\ d.act = [c \in Direct!Chambers |-> IF c \in closed THEN "idle"
                                            ELSE IF c \in opened THEN s ELSE b.act[c]]
      /\ d.hold = b.hold /\ d.test = b.test /\ d.stopped = b.stopped
      /\ d.manValve = b.manValve /\ d.vent = b.vent
      /\ d = [b EXCEPT !.eng = d.eng, !.valve = d.valve, !.act = d.act]
  BY <1>0 DEF Direct!ActOn, Direct!Board
<1>3. /\ \A c, t : <<c, t>> \in opened \X {s} <=> c \in opened /\ t = s
      /\ \A c, t : <<c, t>> \in Direct!Both(closed \cup opened)
                     <=> c \in closed \cup opened /\ t \in Direct!Sides
  BY DEF Direct!Both
<1>9. closed = b.eng[s].open \ e.open /\ opened = e.open \ b.eng[s].open OBVIOUS
<1> HIDE DEF d, closed, opened
<1>4. d \in Direct!Board
  <2>1. opened \X {s} \subseteq Direct!Both(Direct!Chambers) BY <1>1 DEF Direct!Both
  <2>2. d.valve \in SUBSET Direct!Both(Direct!Chambers) BY <1>0, <1>2, <2>1 DEF Direct!Board
  <2>5. /\ b.act \in [Direct!Chambers -> {"idle"} \cup Direct!Sides]
        /\ b.eng \in [Direct!Sides -> Direct!Engine]
    BY <1>0 DEF Direct!Board
  <2>6. /\ d.act = [c \in Direct!Chambers |-> IF c \in closed THEN "idle"
                                             ELSE IF c \in opened THEN s ELSE b.act[c]]
        /\ d.eng = [b.eng EXCEPT ![s] = e] /\ e \in Direct!Engine
    BY <1>1, <1>2
  <2>3. d.act \in [Direct!Chambers -> {"idle"} \cup Direct!Sides] BY <2>5, <2>6
  <2>4. d.eng \in [Direct!Sides -> Direct!Engine] BY <2>5, <2>6
  <2> QED BY <1>0, <1>2, <2>2, <2>3, <2>4 DEF Direct!Board
<1>5. d.eng[s] = e /\ \A t \in Direct!Sides \ {s} : d.eng[t] = b.eng[t]
  BY <1>0, <1>2 DEF Direct!Board
<1>6. Sound(d)
  <2>1. Apart(d) BY <1>1, <1>5 DEF Sound, Apart, Direct!Sides
  <2>2. HoldsApart(d) BY ZenonT(40), <1>1, <1>2, <1>5 DEF Sound, HoldsApart
  <2>3. BenchAlone(d) BY <1>2 DEF BenchAlone
  <2>4. OneValve(d)
    <3> SUFFICES ASSUME NEW t \in Direct!Sides, NEW c \in d.eng[t].open,
                        <<c, Direct!Other(t)>> \in d.valve
                 PROVE  FALSE
      BY DEF OneValve
    <3>0. Direct!Other(t) # t /\ Direct!Other(t) \in Direct!Sides BY DEF Direct!Other, Direct!Sides
    <3>1. CASE t = s
      <4>1. c \in e.open BY <1>5, <3>1
      <4>2. <<c, Direct!Other(t)>> \notin opened \X {s} BY <1>3, <3>0, <3>1
      <4>3. <<c, Direct!Other(t)>> \in b.valve /\ c \notin opened BY <1>2, <1>3, <3>0, <4>2
      <4>4. c \in b.eng[t].open BY <1>9, <3>1, <4>1, <4>3
      <4> QED BY <4>3, <4>4 DEF Sound, OneValve
    <3>2. CASE t # s
      <4>1. c \in b.eng[t].open BY <1>5, <3>2
      <4>2. c \in b.eng[t].pending BY <4>1 DEF Sound, Direct!EngineShape
      <4>3. c \notin opened BY <1>1, <3>2, <4>2 DEF Sound, Apart, Direct!Sides
      <4>4. <<c, Direct!Other(t)>> \in b.valve BY <1>2, <1>3, <4>3
      <4> QED BY <4>1, <4>4 DEF Sound, OneValve
    <3> QED BY <3>1, <3>2
  <2>5. VentFlag(d) /\ \A t \in Direct!Sides : Direct!EngineShape(d.eng[t])
    BY <1>1, <1>2, <1>5 DEF Sound, VentFlag
  <2> QED BY <1>4, <2>1, <2>2, <2>3, <2>4, <2>5 DEF Sound
<1>7. ASSUME Owned(b), NEW c \in Direct!Chambers, NEW t \in Direct!Sides, <<c, t>> \in d.valve
      PROVE  OwnedBy(d, c, t)
  <2>1. CASE c \in opened /\ t = s BY <1>5, <1>9, <2>1 DEF OwnedBy
  <2>2. CASE ~(c \in opened /\ t = s)
    <3>1. <<c, t>> \in b.valve /\ c \notin closed \cup opened BY <1>2, <1>3, <1>7, <2>2
    <3>2. OwnedBy(b, c, t) BY <1>7, <3>1 DEF Owned
    <3> QED BY <1>2, <1>5, <1>9, <3>1, <3>2 DEF OwnedBy
  <2> QED BY <2>1, <2>2
<1>8. Owned(b) => Owned(d) BY <1>7 DEF Owned
<1> QED BY <1>2, <1>6, <1>8 DEF Keeps, d

LEMMA KeepsEngTicks ==
  ASSUME NEW b, Sound(b), b.test = Direct!NoTest, NEW s \in Direct!Sides,
         NEW d \in Direct!EngTicks(b, s)
  PROVE  Keeps(b, d)
<1>1. PICK e \in Direct!TickOutcomes(b.eng[s]) :
        d \in {Direct!ActOn(b, s, e), Direct!RecalcPumps(Direct!ActOn(b, s, e))}
  BY DEF Direct!EngTicks
<1> DEFINE a == Direct!ActOn(b, s, e)
<1>2. Keeps(b, a) BY KeepsActOn
<1> HIDE DEF a
<1>3. Keeps(a, Direct!RecalcPumps(a)) BY <1>2, KeepsRecalc DEF Keeps
<1>4. d = a \/ d = Direct!RecalcPumps(a) BY <1>1 DEF a
<1> QED BY <1>2, <1>3, <1>4, KeepsTrans

\* Ending a bench run, or an emergency stop, leaves every valve closed.
LEMMA TestStopSound ==
  ASSUME NEW b, Sound(b)
  PROVE  /\ Sound(Direct!TestStop(b)) /\ Owned(Direct!TestStop(b))
         /\ Direct!TestStop(b).test = Direct!NoTest /\ Direct!TestStop(b).stopped = b.stopped
<1> DEFINE d == Direct!TestStop(b)
<1>0. b \in Direct!Board BY DEF Sound
<1>1. Direct!NoTest \in [dir : Direct!Sides \cup {"off"}, on : SUBSET Direct!Chambers]
  BY DEF Direct!NoTest
<1>2. [s \in Direct!Sides |-> "off"] \in [Direct!Sides -> Direct!Duties] BY DEF Direct!Duties
<1>3. /\ d \in Direct!Board /\ d.valve = {} /\ d.hold = b.hold
      /\ d.eng = b.eng /\ d.test = Direct!NoTest /\ d.stopped = b.stopped
      /\ d.manValve = b.manValve /\ d.vent = b.vent
  BY <1>0, <1>1, <1>2 DEF Direct!TestStop, Direct!Board
<1> HIDE DEF d
<1>4. Sound(d)
  BY <1>3 DEF Sound, Apart, HoldsApart, BenchAlone, OneValve, VentFlag
<1>5. Owned(d) BY <1>3 DEF Owned
<1> QED BY <1>3, <1>4, <1>5 DEF d

-----------------------------------------------------------------------------
(* The fan-outs of the direct board *)

LEMMA ChambersFinite ==
  ASSUME NEW S \in SUBSET Direct!Chambers
  PROVE  S \in SUBSET Int /\ IsFiniteSet(S)
<1>1. NumChambers \in Nat \ {0} BY NodeAssumption DEF Direct!Parameters
<1>2. Direct!Chambers \subseteq Int /\ IsFiniteSet(Direct!Chambers)
  BY <1>1, FS_Interval DEF Direct!Chambers
<1> QED BY <1>2, FS_Subset

LEMMA KeptSet ==
  ASSUME NEW b, Sound(b)
  PROVE  /\ b \in {x \in Direct!Board : Keeps(b, x)} /\ b \in {x \in Direct!Board : Calms(b, x)}
         /\ \A x, y : Keeps(b, x) /\ Keeps(x, y) => y \in {z \in Direct!Board : Keeps(b, z)}
         /\ \A x, y : Calms(b, x) /\ Calms(x, y) => y \in {z \in Direct!Board : Calms(b, z)}
         /\ \A x : Keeps(b, x) \/ Calms(b, x) => Sound(x)
<1>1. \A x, y : Keeps(b, x) /\ Keeps(x, y) => Keeps(b, y) BY KeepsTrans
<1>2. \A x, y : Calms(b, x) /\ Calms(x, y) => Calms(b, y) BY CalmsTrans
<1> QED BY <1>1, <1>2 DEF Keeps, Calms, Sound

LEMMA KeepsApplyEach ==
  ASSUME NEW b, Sound(b), NEW S \in SUBSET Direct!Chambers,
         NEW f \in [S -> Direct!Sides \cup {"none", "hold"}]
  PROVE  Keeps(b, Direct!ApplyEach(b, S, f))
<1> DEFINE T == {x \in Direct!Board : Keeps(b, x)}
           step == [c \in S |-> [x \in Direct!Board |-> Direct!ApplyChamberCmd(x, c, f[c])]]
<1>1. \A c \in S, x \in T : step[c][x] \in T
  <2> SUFFICES ASSUME NEW c \in S, NEW x \in T PROVE Direct!ApplyChamberCmd(x, c, f[c]) \in T
    OBVIOUS
  <2> QED BY KeptSet, KeepsApplyChamberCmd
<1>2. b \in T /\ S \in SUBSET Int /\ IsFiniteSet(S) BY KeptSet, ChambersFinite
<1>3. Direct!ForEach(step, b, S) \in T
  <2> HIDE DEF T, step
  <2> QED BY <1>1, <1>2, ForEachKeeps
<1> QED BY <1>3 DEF Direct!ApplyEach

LEMMA CalmsHoldEach ==
  ASSUME NEW b, Sound(b), NEW S \in SUBSET Direct!Chambers
  PROVE  Calms(b, Direct!HoldEach(b, S))
<1> DEFINE T == {x \in Direct!Board : Calms(b, x)}
           step == [c \in S |-> [x \in Direct!Board |-> Direct!HoldChamber(x, c)]]
<1>1. \A c \in S, x \in T : step[c][x] \in T
  <2> SUFFICES ASSUME NEW c \in S, NEW x \in T PROVE Direct!HoldChamber(x, c) \in T
    OBVIOUS
  <2> QED BY KeptSet, CalmsHoldChamber
<1>2. b \in T /\ S \in SUBSET Int /\ IsFiniteSet(S) BY KeptSet, ChambersFinite
<1>3. Direct!ForEach(step, b, S) \in T
  <2> HIDE DEF T, step
  <2> QED BY <1>1, <1>2, ForEachKeeps
<1> QED BY <1>3 DEF Direct!HoldEach

LEMMA KeepsHoldDutyEach ==
  ASSUME NEW b, Sound(b), NEW S \in SUBSET Direct!Chambers, NEW s \in Direct!Sides
  PROVE  Keeps(b, Direct!HoldDutyEach(b, S, s))
<1> DEFINE T == {x \in Direct!Board : Keeps(b, x)}
           step == [c \in S |-> [x \in Direct!Board |-> Direct!HoldRequest(x, c, s)]]
<1>1. \A c \in S, x \in T : step[c][x] \in T
  <2> SUFFICES ASSUME NEW c \in S, NEW x \in T PROVE Direct!HoldRequest(x, c, s) \in T
    OBVIOUS
  <2> QED BY KeptSet, KeepsHoldRequest
<1>2. b \in T /\ S \in SUBSET Int /\ IsFiniteSet(S) BY KeptSet, ChambersFinite
<1>3. Direct!ForEach(step, b, S) \in T
  <2> HIDE DEF T, step
  <2> QED BY <1>1, <1>2, ForEachKeeps
<1> QED BY <1>3 DEF Direct!HoldDutyEach

LEMMA KeepsVentEach ==
  ASSUME NEW b, Sound(b), NEW S \in SUBSET Direct!Chambers, NEW open \in BOOLEAN
  PROVE  Keeps(b, Direct!VentEach(b, S, open))
<1> DEFINE T == {x \in Direct!Board : Keeps(b, x)}
           step == [c \in S |-> [x \in Direct!Board |-> Direct!Vent(x, c, open)]]
<1>1. \A c \in S, x \in T : step[c][x] \in T
  <2> SUFFICES ASSUME NEW c \in S, NEW x \in T PROVE Direct!Vent(x, c, open) \in T
    OBVIOUS
  <2> QED BY KeptSet, KeepsVent
<1>2. b \in T /\ S \in SUBSET Int /\ IsFiniteSet(S) BY KeptSet, ChambersFinite
<1>3. Direct!ForEach(step, b, S) \in T
  <2> HIDE DEF T, step
  <2> QED BY <1>1, <1>2, ForEachKeeps
<1> QED BY <1>3 DEF Direct!VentEach

LEMMA CalmsDeadmanEach ==
  ASSUME NEW b, Sound(b), NEW valves
  PROVE  Calms(b, Direct!DeadmanEach(b, valves))
<1> DEFINE T == {x \in Direct!Board : Calms(b, x)}
           S == Direct!Chambers
           step == [c \in S |-> [x \in Direct!Board |-> Direct!DeadmanOf(x, c, valves)]]
<1>1. \A c \in S, x \in T : step[c][x] \in T
  <2> SUFFICES ASSUME NEW c \in S, NEW x \in T PROVE Direct!DeadmanOf(x, c, valves) \in T
    OBVIOUS
  <2> QED BY KeptSet, CalmsDeadmanOf
<1>2. b \in T /\ S \in SUBSET Int /\ IsFiniteSet(S) BY KeptSet, ChambersFinite
<1>3. Direct!ForEach(step, b, S) \in T
  <2> HIDE DEF T, step, S
  <2> QED BY <1>1, <1>2, ForEachKeeps
<1> QED BY <1>3 DEF Direct!DeadmanEach

-----------------------------------------------------------------------------
(* The direct board: its inductive invariant *)

\* What an emergency stop leaves, and the latch keeps.
Off(b) == /\ b.valve = {} /\ b.duty = [s \in Direct!Sides |-> "off"]
          /\ b.eng = [s \in Direct!Sides |-> Direct!IdleEngine]
          /\ b.act = [c \in Direct!Chambers |-> "idle"]
          /\ b.hold = Direct!NoHold /\ b.holdMask = [s \in Direct!Sides |-> {}]
          /\ b.manPump = {} /\ b.manValve = {} /\ b.vent = {} /\ b.test = Direct!NoTest

Loop == {"ready", "commands", "hold", "manual", "watch"}
Resting == at \in {"manual", "watch"} \/ Direct!Settled

DirectInv == /\ Sound(board) /\ scene \in Scenes /\ at \in Loop
             /\ board.stopped => Off(board)
             /\ board.stopped \/ board.test # Direct!NoTest => at \in {"ready", "commands"}
             /\ Resting => Yielding(board)

LEMMA SceneTypes ==
  ASSUME scene \in Scenes
  PROVE  /\ scene.to \in SUBSET Direct!Chambers
         /\ \A S \in Direct!Targets : S \in SUBSET Direct!Chambers
BY NodeAssumption DEF Direct!Parameters, Direct!Targets

\* After a command nothing more is asked of the board than that.
LEMMA CommandInv ==
  ASSUME Sound(board'), scene \in Scenes, scene' = scene, at' = "commands",
         board'.stopped => Off(board')
  PROVE  DirectInv'
BY DEF DirectInv, Loop, Resting, Direct!Settled

\* A command that a latched board refuses.
LEMMA AcceptedInv ==
  ASSUME DirectInv, NEW d, Keeps(board, d), Direct!Between(d), scene' = scene, ~board.stopped
  PROVE  DirectInv' /\ (Owned(board) => Owned(board'))
BY CommandInv DEF DirectInv, Keeps, Direct!Between, Owned, OwnedBy

LEMMA OffSound ==
  ASSUME NEW b \in Direct!Board, Off(b)
  PROVE  Sound(b) /\ Owned(b)
<1>1. /\ \A s \in Direct!Sides : b.eng[s] = Direct!IdleEngine
      /\ b.hold.open = {} /\ b.hold.active = {}
  BY DEF Off, Direct!NoHold
<1>2. Direct!EngineShape(Direct!IdleEngine) BY IdleIsEngine
<1>3. Direct!IdleEngine.pending = {} /\ Direct!IdleEngine.open = {} BY DEF Direct!IdleEngine
<1>4. Apart(b) /\ HoldsApart(b) /\ BenchAlone(b) /\ OneValve(b) /\ VentFlag(b)
  BY <1>1, <1>3 DEF Off, Apart, HoldsApart, BenchAlone, OneValve, VentFlag, Direct!Sides
<1> QED BY <1>1, <1>2, <1>4 DEF Sound, Owned, Off

LEMMA HoldAbortType ==
  ASSUME NEW b \in Direct!Board
  PROVE  Direct!HoldAbort(b) \in Direct!Board
<1>1. /\ Direct!NoHold \in [active : SUBSET Direct!Chambers, open : SUBSET Direct!Chambers,
                            vac : SUBSET Direct!Chambers, last : [Direct!Sides -> BOOLEAN]]
      /\ [s \in Direct!Sides |-> {}] \in [Direct!Sides -> SUBSET Direct!Chambers]
      /\ [s \in Direct!Sides |-> FALSE] \in [Direct!Sides -> BOOLEAN]
  BY DEF Direct!NoHold
<1> QED BY <1>1 DEF Direct!HoldAbort, Direct!Board

LEMMA StopIsOff ==
  ASSUME NEW b \in Direct!Board
  PROVE  /\ Direct!EmergencyStopAll(b) \in Direct!Board /\ Off(Direct!EmergencyStopAll(b))
         /\ Direct!EmergencyStopAll(b).stopped = b.stopped
<1> DEFINE d == Direct!EmergencyStopAll(b)
<1>1. /\ d.valve = {} /\ d.duty = [s \in Direct!Sides |-> "off"]
      /\ d.eng = [s \in Direct!Sides |-> Direct!IdleEngine]
      /\ d.act = [c \in Direct!Chambers |-> "idle"]
      /\ d.hold = Direct!NoHold /\ d.holdMask = [s \in Direct!Sides |-> {}]
      /\ d.holdDuty = [s \in Direct!Sides |-> FALSE]
      /\ d.manPump = {} /\ d.manValve = {} /\ d.vent = {} /\ d.test = Direct!NoTest
      /\ d.stopped = b.stopped
  BY DEF Direct!EmergencyStopAll, Direct!AbortEngines, Direct!HoldAbort, Direct!Board
<1>2. /\ [s \in Direct!Sides |-> "off"] \in [Direct!Sides -> Direct!Duties]
      /\ [s \in Direct!Sides |-> Direct!IdleEngine] \in [Direct!Sides -> Direct!Engine]
      /\ [c \in Direct!Chambers |-> "idle"] \in [Direct!Chambers -> {"idle"} \cup Direct!Sides]
      /\ Direct!NoTest \in [dir : Direct!Sides \cup {"off"}, on : SUBSET Direct!Chambers]
      /\ [s \in Direct!Sides |-> {}] \in [Direct!Sides -> SUBSET Direct!Chambers]
      /\ [s \in Direct!Sides |-> FALSE] \in [Direct!Sides -> BOOLEAN]
  BY IdleIsEngine DEF Direct!Duties, Direct!NoTest
<1>3. Direct!HoldAbort(b) \in Direct!Board BY HoldAbortType
<1>4. Direct!AbortEngines(Direct!HoldAbort(b)) \in Direct!Board
  BY <1>2, <1>3 DEF Direct!AbortEngines, Direct!Board
<1>5. d \in Direct!Board
  <2> DEFINE a == Direct!AbortEngines(Direct!HoldAbort(b))
  <2>1. d = [a EXCEPT !.test = Direct!NoTest, !.duty = [s \in Direct!Sides |-> "off"],
               !.valve = {}, !.manValve = {}, !.manPump = {}, !.vent = {},
               !.act = [c \in Direct!Chambers |-> "idle"]]
    BY DEF Direct!EmergencyStopAll
  <2> HIDE DEF a, d
  <2> QED BY <1>2, <1>4, <2>1 DEF Direct!Board, a
<1> QED BY <1>1, <1>5 DEF Off, d

LEMMA InvFill ==
  ASSUME DirectInv, scene' = scene,
         Direct!CmdInflateDeflate \/ Direct!CmdSetPressure \/ Direct!CmdHold
  PROVE  DirectInv' /\ (Owned(board) => Owned(board'))
<1>0. Sound(board) /\ \A S \in Direct!Targets : S \in SUBSET Direct!Chambers
  BY SceneTypes DEF DirectInv
<1>1. CASE Direct!CmdInflateDeflate
  <2>4. PICK S \in Direct!Targets, s \in Direct!Sides :
          \E f \in [S -> {s, "none"}] : Direct!Between(Direct!ApplyEach(board, S, f))
    BY <1>1 DEF Direct!CmdInflateDeflate
  <2>1. PICK f \in [S -> {s, "none"}] : Direct!Between(Direct!ApplyEach(board, S, f))
    BY <2>4
  <2>2. f \in [S -> Direct!Sides \cup {"none", "hold"}] OBVIOUS
  <2>3. Keeps(board, Direct!ApplyEach(board, S, f)) BY <1>0, <2>2, KeepsApplyEach
  <2> QED BY <1>1, <2>1, <2>3, AcceptedInv DEF Direct!CmdInflateDeflate, Direct!Accepting
<1>2. CASE Direct!CmdSetPressure
  <2>4. PICK S \in Direct!Targets :
          \E f \in [S -> Direct!Sides \cup {"hold"}] : Direct!Between(Direct!ApplyEach(board, S, f))
    BY <1>2 DEF Direct!CmdSetPressure
  <2>1. PICK f \in [S -> Direct!Sides \cup {"hold"}] : Direct!Between(Direct!ApplyEach(board, S, f))
    BY <2>4
  <2>2. f \in [S -> Direct!Sides \cup {"none", "hold"}] OBVIOUS
  <2>3. Keeps(board, Direct!ApplyEach(board, S, f)) BY <1>0, <2>2, KeepsApplyEach
  <2> QED BY <1>2, <2>1, <2>3, AcceptedInv DEF Direct!CmdSetPressure, Direct!Accepting
<1>3. CASE Direct!CmdHold
  <2>1. PICK S \in Direct!Targets : Direct!Between(Direct!HoldEach(board, S))
    BY <1>3 DEF Direct!CmdHold
  <2>2. Keeps(board, Direct!HoldEach(board, S)) BY <1>0, CalmsHoldEach DEF Calms
  <2> QED BY <1>3, <2>1, <2>2, AcceptedInv DEF Direct!CmdHold, Direct!Accepting
<1> QED BY <1>1, <1>2, <1>3

LEMMA InvLimit ==
  ASSUME DirectInv, scene' = scene, Direct!CmdLimit
  PROVE  DirectInv' /\ (Owned(board) => Owned(board'))
<1>1. PICK c \in scene.to : board.act[c] # "idle" /\ Direct!Between(Direct!HoldChamber(board, c))
  BY DEF Direct!CmdLimit
<1>2. c \in Direct!Chambers BY SceneTypes DEF DirectInv
<1>3. ~board.stopped BY <1>1, <1>2 DEF DirectInv, Off
<1>4. Keeps(board, Direct!HoldChamber(board, c)) BY <1>2, CalmsHoldChamber DEF DirectInv, Calms
<1> QED BY <1>1, <1>3, <1>4, AcceptedInv

LEMMA InvHoldDuty ==
  ASSUME DirectInv, scene' = scene, Direct!CmdHoldDuty \/ Direct!CmdHoldDutyOff
  PROVE  DirectInv' /\ (Owned(board) => Owned(board'))
<1>0. Sound(board) /\ scene.to \in SUBSET Direct!Chambers
      /\ \A S \in Direct!Targets : S \in SUBSET Direct!Chambers
  BY SceneTypes DEF DirectInv
<1>1. CASE Direct!CmdHoldDuty
  <2>1. PICK S \in Direct!Targets, s \in Direct!Sides :
          Direct!Between(Direct!HoldDutyEach(board, S, s))
    BY <1>1 DEF Direct!CmdHoldDuty
  <2>2. Keeps(board, Direct!HoldDutyEach(board, S, s)) BY <1>0, KeepsHoldDutyEach
  <2> QED BY <1>1, <2>1, <2>2, AcceptedInv DEF Direct!CmdHoldDuty, Direct!Accepting
<1>2. CASE Direct!CmdHoldDutyOff
  <2>1. PICK c \in scene.to : Direct!Between(Direct!HoldDrop(board, c))
    BY <1>2 DEF Direct!CmdHoldDutyOff
  <2>2. {c} \in SUBSET Direct!Chambers BY <1>0
  <2>3. Keeps(board, Direct!HoldDrop(board, c))
    BY <1>0, <2>2, KeepsHoldDropAll DEF Direct!HoldDrop
  <2> QED BY <1>2, <2>1, <2>3, AcceptedInv DEF Direct!CmdHoldDutyOff, Direct!Accepting
<1> QED BY <1>1, <1>2

LEMMA HoldAbortSound ==
  ASSUME NEW b, Sound(b)
  PROVE  /\ Sound(Direct!HoldAbort(b))
         /\ Direct!HoldAbort(b).stopped = b.stopped /\ Direct!HoldAbort(b).test = b.test
         /\ Direct!HoldAbort(b).valve = b.valve /\ Direct!HoldAbort(b).eng = b.eng
         /\ Direct!HoldAbort(b).manValve = b.manValve
<1> DEFINE d == Direct!HoldAbort(b)
<1>0. b \in Direct!Board BY DEF Sound
<1>1. d \in Direct!Board BY <1>0, HoldAbortType
<1>2. /\ d.hold.open = {} /\ d.hold.active = {} /\ d.eng = b.eng /\ d.test = b.test
      /\ d.stopped = b.stopped /\ d.manValve = b.manValve /\ d.vent = b.vent /\ d.valve = b.valve
  BY <1>0 DEF Direct!HoldAbort, Direct!NoHold, Direct!Board
<1> HIDE DEF d
<1>3. Sound(d)
  BY <1>1, <1>2 DEF Sound, Apart, HoldsApart, BenchAlone, OneValve, VentFlag
<1> QED BY <1>2, <1>3 DEF d

\* Releasing every hold keeps all but the owners of the valves it leaves open.
LEMMA InvHoldDutyOffAll ==
  ASSUME DirectInv, scene' = scene, Direct!CmdHoldDutyOffAll
  PROVE  /\ DirectInv'
         /\ Direct!Forgets(Direct!OpenHoldValves(board.hold)) /\ Owned(board) => Owned(board)'
<1> DEFINE d == Direct!HoldAbort(board)
<1>1. board' = d /\ at' = "commands" /\ ~board.stopped
  BY DEF Direct!CmdHoldDutyOffAll, Direct!Accepting, Direct!Between
<1>2. /\ Sound(d) /\ d.stopped = board.stopped
      /\ d.valve = board.valve /\ d.eng = board.eng /\ d.manValve = board.manValve
      /\ d.test = board.test
  BY HoldAbortSound DEF DirectInv
<1> HIDE DEF d
<1>3. DirectInv' BY <1>1, <1>2, CommandInv DEF DirectInv
<1>4. ASSUME forgotten' = (forgotten \cup Direct!OpenHoldValves(board.hold)) \cap board'.valve,
             Owned(board)
      PROVE  Owned(board)'
  <2>1. ASSUME board.test = Direct!NoTest, NEW c \in Direct!Chambers, NEW s \in Direct!Sides,
               <<c, s>> \in board.valve
        PROVE  <<c, s>> \in forgotten' \/ c \in board.eng[s].open \/ <<c, s>> \in board.manValve
    <3>1. OwnedBy(board, c, s) BY <1>4, <2>1 DEF Owned
    <3>2. board'.valve = board.valve BY <1>1, <1>2
    <3>3. CASE c \in board.hold.open /\ Direct!HoldSide(board.hold, c) = s
      <4>1. <<c, s>> \in Direct!OpenHoldValves(board.hold) BY <3>3 DEF Direct!OpenHoldValves
      <4> QED BY <1>4, <2>1, <3>2, <4>1
    <3> QED BY <1>4, <2>1, <3>1, <3>2, <3>3 DEF OwnedBy
  <2> QED BY <1>1, <1>2, <2>1 DEF Owned, OwnedBy
<1> QED BY <1>3, <1>4 DEF Direct!Forgets

LEMMA InvManual ==
  ASSUME DirectInv, scene' = scene,
         Direct!CmdValveManual \/ Direct!CmdPumpManual \/ Direct!CmdVent
  PROVE  DirectInv' /\ (Owned(board) => Owned(board'))
<1>0. Sound(board) /\ scene.to \in SUBSET Direct!Chambers
      /\ \A S \in Direct!Targets : S \in SUBSET Direct!Chambers
  BY SceneTypes DEF DirectInv
<1>1. CASE Direct!CmdValveManual
  <2>1. PICK c \in scene.to, s \in Direct!Sides, open \in BOOLEAN :
          LET closed == \E t \in Direct!Sides : c \in board.eng[t].open
          IN  Direct!Between(Direct!SetManualValve(
                Direct!RecalcIf(Direct!LeaveEngines(board, c), closed), c, s, open))
    BY <1>1 DEF Direct!CmdValveManual
  <2> DEFINE closed == \E t \in Direct!Sides : c \in board.eng[t].open
             b1 == Direct!LeaveEngines(board, c)
             b2 == Direct!RecalcIf(b1, closed)
             b3 == Direct!SetManualValve(b2, c, s, open)
  <2>2. c \in Direct!Chambers BY <1>0
  <2>3. Keeps(board, b1) /\ Free(b1, c) BY <1>0, <2>2, CalmsLeaveEngines DEF Calms
  <2> HIDE DEF b1
  <2>4. Keeps(b1, b2) /\ b2.eng = b1.eng
    <3>1. Sound(b1) /\ b1 \in Direct!Board BY <2>3 DEF Keeps, Sound
    <3>2. Direct!RecalcPumps(b1).eng = b1.eng BY <3>1 DEF Direct!RecalcPumps, Direct!Board
    <3> QED BY <3>1, <3>2, KeepsRecalcIf DEF Direct!RecalcIf
  <2> HIDE DEF b2
  <2>5. Sound(b2) /\ Free(b2, c) BY <2>3, <2>4 DEF Keeps, Free
  <2>6. Keeps(b2, b3)
    BY <2>2, <2>5, KeepsManualOpen, CalmsSetManualValve DEF Calms
  <2>7. Keeps(board, b3) BY <2>3, <2>4, <2>6, KeepsTrans
  <2>8. Direct!Between(b3) BY <2>1 DEF b2, b1
  <2> HIDE DEF b3
  <2> QED BY <1>1, <2>7, <2>8, AcceptedInv DEF Direct!CmdValveManual, Direct!Accepting
<1>2. CASE Direct!CmdPumpManual
  <2>1. PICK s \in Direct!Sides, on \in BOOLEAN :
          Direct!Between(Direct!SetManualPump(board, s, on))
    BY <1>2 DEF Direct!CmdPumpManual
  <2>2. Keeps(board, Direct!SetManualPump(board, s, on)) BY <1>0, KeepsSetManualPump
  <2> QED BY <1>2, <2>1, <2>2, AcceptedInv DEF Direct!CmdPumpManual, Direct!Accepting
<1>3. CASE Direct!CmdVent
  <2>1. PICK S \in Direct!Targets, open \in BOOLEAN :
          Direct!Between(Direct!VentEach(board, S, open))
    BY <1>3 DEF Direct!CmdVent
  <2>2. Keeps(board, Direct!VentEach(board, S, open)) BY <1>0, KeepsVentEach
  <2> QED BY <1>3, <2>1, <2>2, AcceptedInv DEF Direct!CmdVent, Direct!Accepting
<1> QED BY <1>1, <1>2, <1>3

LEMMA AbortEnginesSound ==
  ASSUME NEW b, Sound(b)
  PROVE  /\ Sound(Direct!AbortEngines(b))
         /\ Direct!AbortEngines(b).stopped = b.stopped /\ Direct!AbortEngines(b).test = b.test
         /\ \A s \in Direct!Sides : Direct!AbortEngines(b).eng[s] = Direct!IdleEngine
<1> DEFINE d == Direct!AbortEngines(b)
<1>0. b \in Direct!Board BY DEF Sound
<1>1. /\ [s \in Direct!Sides |-> Direct!IdleEngine] \in [Direct!Sides -> Direct!Engine]
      /\ Direct!EngineShape(Direct!IdleEngine)
      /\ Direct!IdleEngine.pending = {} /\ Direct!IdleEngine.open = {}
  BY IdleIsEngine DEF Direct!IdleEngine
<1>2. /\ d \in Direct!Board /\ d.hold = b.hold /\ d.test = b.test /\ d.stopped = b.stopped
      /\ d.manValve = b.manValve /\ d.vent = b.vent /\ d.valve = b.valve
      /\ \A s \in Direct!Sides : d.eng[s] = Direct!IdleEngine
  BY <1>0, <1>1 DEF Direct!AbortEngines, Direct!Board
<1> HIDE DEF d
<1>3. Sound(d)
  BY <1>1, <1>2 DEF Sound, Apart, HoldsApart, BenchAlone, OneValve, VentFlag, Direct!Sides
<1> QED BY <1>2, <1>3 DEF d

LEMMA TestRunSound ==
  ASSUME NEW b, Sound(b), \A s \in Direct!Sides : b.eng[s] = Direct!IdleEngine,
         NEW s \in Direct!Sides, NEW S \in SUBSET Direct!Chambers
  PROVE  /\ Sound(Direct!TestRun(b, s, S)) /\ Owned(Direct!TestRun(b, s, S))
         /\ Direct!TestRun(b, s, S).stopped = b.stopped
<1> DEFINE run == [dir |-> s, on |-> S]
           a == Direct!HoldAbort(b)
           d == [a EXCEPT !.test = run, !.manPump = {}, !.manValve = {}, !.vent = {},
                          !.duty = [t \in Direct!Sides |-> IF t = s THEN "full" ELSE "off"],
                          !.valve = S \X {s}]
<1>0. run # Direct!NoTest BY DEF Direct!NoTest, Direct!Sides
<1>1. CASE b.test = run
  BY <1>0, <1>1 DEF Direct!TestRun, Owned
<1>2. CASE b.test # run
  <2>1. Direct!TestRun(b, s, S) = d BY <1>2 DEF Direct!TestRun
  <2>2. /\ a \in Direct!Board /\ a.stopped = b.stopped /\ a.eng = b.eng
        /\ a.hold.open = {} /\ a.hold.active = {}
    BY HoldAbortType DEF Sound, Direct!HoldAbort, Direct!NoHold, Direct!Board
  <2> HIDE DEF a
  <2>3. /\ run \in [dir : Direct!Sides \cup {"off"}, on : SUBSET Direct!Chambers]
        /\ [t \in Direct!Sides |-> IF t = s THEN "full" ELSE "off"] \in [Direct!Sides -> Direct!Duties]
        /\ S \X {s} \in SUBSET Direct!Both(Direct!Chambers)
    BY DEF Direct!Duties, Direct!Both
  <2> HIDE DEF run
  <2>4. /\ d \in Direct!Board /\ d.test = run /\ d.hold = a.hold /\ d.eng = a.eng
        /\ d.stopped = a.stopped /\ d.manValve = {}
    BY <2>2, <2>3 DEF Direct!Board
  <2> HIDE DEF d
  <2>5. Direct!IdleEngine.pending = {} /\ Direct!IdleEngine.open = {} BY DEF Direct!IdleEngine
  <2>6. Sound(d)
    BY <2>2, <2>4, <2>5, IdleIsEngine DEF Sound, Apart, HoldsApart, BenchAlone, OneValve, VentFlag, Direct!Sides
  <2>7. Owned(d) BY <1>0, <2>4 DEF Owned
  <2> QED BY <2>1, <2>2, <2>4, <2>6, <2>7
<1> QED BY <1>1, <1>2

LEMMA InvTest ==
  ASSUME DirectInv, scene' = scene, Direct!CmdTestRun \/ Direct!CmdTestStop
  PROVE  DirectInv' /\ Owned(board')
<1>0. Sound(board) BY DEF DirectInv
<1>1. CASE Direct!CmdTestRun
  <2>1. PICK S \in Direct!Targets, s \in Direct!Sides :
          Direct!Between(Direct!TestRun(Direct!AbortEngines(board), s, S))
    BY <1>1 DEF Direct!CmdTestRun
  <2> DEFINE a == Direct!AbortEngines(board)
             d == Direct!TestRun(a, s, S)
  <2>2. S \in SUBSET Direct!Chambers BY SceneTypes DEF DirectInv
  <2>3. Sound(a) /\ a.stopped = board.stopped /\ \A t \in Direct!Sides : a.eng[t] = Direct!IdleEngine
    BY <1>0, AbortEnginesSound
  <2>4. board' = d /\ at' = "commands" /\ ~board.stopped
    BY <1>1, <2>1 DEF Direct!Between, Direct!CmdTestRun, Direct!Accepting
  <2> HIDE DEF a
  <2>5. Sound(d) /\ Owned(d) /\ d.stopped = a.stopped BY <2>2, <2>3, TestRunSound
  <2> HIDE DEF d
  <2>6. DirectInv' BY <2>3, <2>4, <2>5, CommandInv DEF DirectInv
  <2> QED BY <2>4, <2>5, <2>6 DEF Owned, OwnedBy
<1>2. CASE Direct!CmdTestStop
  <2> DEFINE d == Direct!TestStop(board)
  <2>1. board' = d /\ at' = "commands" BY <1>2 DEF Direct!CmdTestStop, Direct!Between
  <2>2. Sound(d) /\ Owned(d) /\ d.test = Direct!NoTest /\ d.stopped = board.stopped
    BY <1>0, TestStopSound
  <2>3. d.stopped => Off(d)
    BY <1>0, <2>2 DEF DirectInv, Off, Sound, Direct!TestStop, Direct!Board
  <2> HIDE DEF d
  <2>4. DirectInv' BY <2>1, <2>2, <2>3, CommandInv DEF DirectInv
  <2> QED BY <2>1, <2>2, <2>4 DEF Owned, OwnedBy
<1> QED BY <1>1, <1>2

LEMMA InvStop ==
  ASSUME DirectInv, scene' = scene, Direct!CmdStop \/ Direct!CmdResume \/ Direct!LatchedPass
  PROVE  DirectInv' /\ (Owned(board) => Owned(board'))
<1>0. Sound(board) /\ board \in Direct!Board BY DEF DirectInv, Sound
<1>1. CASE Direct!CmdStop
  <2> DEFINE b == [board EXCEPT !.stopped = TRUE]
             d == Direct!EmergencyStopAll(b)
  <2>1. b \in Direct!Board BY <1>0 DEF Direct!Board
  <2>2. board' = d /\ at' = "commands" BY <1>1 DEF Direct!CmdStop, Direct!Between
  <2> HIDE DEF b
  <2>3. d \in Direct!Board /\ Off(d) BY <2>1, StopIsOff
  <2> HIDE DEF d
  <2>4. Sound(d) /\ Owned(d) BY <2>3, OffSound
  <2>5. DirectInv' BY <2>2, <2>3, <2>4, CommandInv DEF DirectInv
  <2> QED BY <2>2, <2>4, <2>5 DEF Owned, OwnedBy
<1>2. CASE Direct!CmdResume
  <2> DEFINE d == [board EXCEPT !.stopped = FALSE]
  <2>1. board' = d /\ at' = "commands" BY <1>2 DEF Direct!CmdResume, Direct!Between
  <2>2. /\ d \in Direct!Board /\ ~d.stopped /\ d.hold = board.hold /\ d.eng = board.eng
        /\ d.test = board.test /\ d.valve = board.valve /\ d.manValve = board.manValve
        /\ d.vent = board.vent
    BY <1>0 DEF Direct!Board
  <2> HIDE DEF d
  <2>3. Sound(d) BY <1>0, <2>2 DEF Sound, Apart, HoldsApart, BenchAlone, OneValve, VentFlag
  <2>4. Owned(board) => Owned(d) BY <2>2 DEF Owned, OwnedBy
  <2>5. DirectInv' BY <2>1, <2>2, <2>3, CommandInv DEF DirectInv
  <2> QED BY <2>1, <2>4, <2>5 DEF Owned, OwnedBy
<1>3. CASE Direct!LatchedPass
  <2> DEFINE d == Direct!EmergencyStopAll(board)
  <2>1. board' = d /\ at' = "ready" /\ board.stopped BY <1>3 DEF Direct!LatchedPass
  <2>2. d \in Direct!Board /\ Off(d) /\ d.stopped = board.stopped BY <1>0, StopIsOff
  <2> HIDE DEF d
  <2>3. Sound(d) /\ Owned(d) BY <2>2, OffSound
  <2>4. ~Resting' BY <2>1, <2>2 DEF Resting, Direct!Settled
  <2>5. DirectInv' BY <2>1, <2>2, <2>3, <2>4 DEF DirectInv, Loop
  <2> QED BY <2>1, <2>3, <2>5 DEF Owned, OwnedBy
<1> QED BY <1>1, <1>2, <1>3

LEMMA InvControl ==
  ASSUME DirectInv, scene' = scene, Direct!ControlTick
  PROVE  DirectInv' /\ (Owned(board) => Owned(board'))
<1> DEFINE b == IF board.test = Direct!NoTest THEN board ELSE Direct!TestStop(board)
<1>1. /\ Sound(b) /\ (Owned(board) => Owned(b)) /\ b.test = Direct!NoTest /\ ~b.stopped
  BY TestStopSound DEF DirectInv, Direct!ControlTick
<1>2. PICK b1 \in Direct!EngTicks(b, "inflate") : board' \in Direct!EngTicks(b1, "deflate")
  BY DEF Direct!ControlTick
<1> HIDE DEF b
<1>3. Keeps(b, b1) BY <1>1, <1>2, KeepsEngTicks DEF Direct!Sides
<1>4. Sound(b1) /\ b1.test = Direct!NoTest BY <1>1, <1>3 DEF Keeps
<1>5. Keeps(b1, board') BY <1>2, <1>4, KeepsEngTicks DEF Direct!Sides
<1>6. Keeps(b, board') BY <1>3, <1>5, KeepsTrans
<1>7. at' = "hold" BY DEF Direct!ControlTick
<1>8. DirectInv'
  BY <1>1, <1>6, <1>7 DEF DirectInv, Keeps, Loop, Resting, Direct!Settled
<1> QED BY <1>1, <1>6, <1>8 DEF Keeps, Owned, OwnedBy

LEMMA InvHoldTick ==
  ASSUME DirectInv, scene' = scene, Direct!HoldTick
  PROVE  DirectInv' /\ (Owned(board) => Owned(board'))
<1>1. PICK expired \in SUBSET board.hold.active, retuned \in BOOLEAN :
        LET b == Direct!HoldDropAll(board, expired)
        IN  CASE b.hold.active = {} ->
                   board' = Direct!HoldMirror([b EXCEPT !.hold = Direct!NoHold], FALSE)
              [] b.hold.active # {} /\ Direct!Busy(b) ->
                   board' = Direct!HoldMirror(Direct!HoldSuspend(b), FALSE)
              [] OTHER ->
                   \/ board' = Direct!HoldMirror(b, FALSE)
                   \/ \E want \in SUBSET b.hold.active :
                        board' = Direct!HoldMirror(Direct!HoldApply(b, want), retuned /\ want # {})
  BY DEF Direct!HoldTick
<1> DEFINE b == Direct!HoldDropAll(board, expired)
<1>0. at = "hold" /\ at' = "manual" BY DEF Direct!HoldTick
<1>2. expired \in SUBSET Direct!Chambers BY DEF DirectInv, Sound, Direct!Board
<1>3. ~board.stopped /\ board.test = Direct!NoTest BY <1>0 DEF DirectInv
<1>4. Keeps(board, b) BY <1>2, KeepsHoldDropAll DEF DirectInv
<1>5. /\ b.hold.active = {} => board' = Direct!HoldMirror([b EXCEPT !.hold = Direct!NoHold], FALSE)
      /\ b.hold.active # {} /\ Direct!Busy(b) =>
           board' = Direct!HoldMirror(Direct!HoldSuspend(b), FALSE)
      /\ b.hold.active # {} /\ ~Direct!Busy(b) =>
           \/ board' = Direct!HoldMirror(b, FALSE)
           \/ \E want \in SUBSET b.hold.active :
                board' = Direct!HoldMirror(Direct!HoldApply(b, want), retuned /\ want # {})
  BY <1>1
<1> HIDE DEF b
<1>6. Sound(b) /\ b.test = Direct!NoTest BY <1>3, <1>4 DEF Keeps
<1>7. \E x : Keeps(b, x) /\ Yielding(x) /\ Calms(x, board')
  <2>1. CASE b.hold.active = {}
    <3> DEFINE x == [b EXCEPT !.hold = Direct!NoHold]
    <3>1. Keeps(b, x) /\ x.hold.open = {} BY <1>6, <2>1, KeepsNoHold
    <3>2. board' = Direct!HoldMirror(x, FALSE) BY <1>5, <2>1
    <3> HIDE DEF x
    <3>3. Calms(x, board') BY <3>1, <3>2, CalmsHoldMirror DEF Keeps
    <3> QED BY <3>1, <3>3 DEF Yielding
  <2>2. CASE b.hold.active # {} /\ Direct!Busy(b)
    <3> DEFINE x == Direct!HoldSuspend(b)
    <3>1. Keeps(b, x) /\ x.hold.open = {} BY <1>6, KeepsHoldSuspend
    <3>2. board' = Direct!HoldMirror(x, FALSE) BY <1>5, <2>2
    <3> HIDE DEF x
    <3>3. Calms(x, board') BY <3>1, <3>2, CalmsHoldMirror DEF Keeps
    <3> QED BY <3>1, <3>3 DEF Yielding
  <2>3. CASE b.hold.active # {} /\ ~Direct!Busy(b) /\ board' = Direct!HoldMirror(b, FALSE)
    <3>1. Keeps(b, b) BY <1>6 DEF Keeps
    <3>2. Calms(b, board') BY <1>6, <2>3, CalmsHoldMirror
    <3> QED BY <2>3, <3>1, <3>2 DEF Yielding
  <2>4. ASSUME b.hold.active # {}, ~Direct!Busy(b), NEW want \in SUBSET b.hold.active,
               board' = Direct!HoldMirror(Direct!HoldApply(b, want), retuned /\ want # {})
        PROVE  \E x : Keeps(b, x) /\ Yielding(x) /\ Calms(x, board')
    <3> DEFINE x == Direct!HoldApply(b, want)
    <3>1. Keeps(b, x) /\ ~Direct!Busy(x) BY <1>6, <2>4, KeepsHoldApply
    <3>2. \E r \in BOOLEAN : board' = Direct!HoldMirror(x, r) BY <2>4
    <3> HIDE DEF x
    <3>3. Calms(x, board') BY <3>1, <3>2, CalmsHoldMirror DEF Keeps
    <3> QED BY <3>1, <3>3 DEF Yielding
  <2> QED BY <1>5, <2>1, <2>2, <2>3, <2>4
<1>8. Keeps(board, board') /\ Yielding(board')
  BY <1>4, <1>7, KeepsTrans DEF Calms, Yielding
<1>9. DirectInv'
  BY <1>0, <1>3, <1>8 DEF DirectInv, Keeps, Loop, Resting, Yielding, Direct!Busy
<1> QED BY <1>8, <1>9 DEF Keeps, Owned, OwnedBy

LEMMA InvSafetyTick ==
  ASSUME DirectInv, scene' = scene, Direct!ManualSafetyTick
  PROVE  DirectInv' /\ (Owned(board) => Owned(board'))
<1>1. PICK pumps \in SUBSET board.manPump, valves \in SUBSET board.manValve,
           past \in [Direct!Sides -> SUBSET scene.to] :
        LET b1 == [board EXCEPT
                     !.manPump = @ \ pumps,
                     !.duty = [s \in Direct!Sides |-> IF s \in pumps THEN "off" ELSE @[s]]]
            b2 == Direct!DeadmanEach(b1, valves)
            b3 == Direct!RecalcIf(b2, valves # {} /\ b2.manPump = {})
        IN  board' = Direct!HardCut(Direct!HardCut(b3, "inflate", past["inflate"]),
                                    "deflate", past["deflate"])
  BY DEF Direct!ManualSafetyTick
<1> DEFINE f == [s \in Direct!Sides |-> IF s \in pumps THEN "off" ELSE board.duty[s]]
           b1 == [board EXCEPT !.manPump = @ \ pumps, !.duty = f]
           b2 == Direct!DeadmanEach(b1, valves)
           b3 == Direct!RecalcIf(b2, valves # {} /\ b2.manPump = {})
           b4 == Direct!HardCut(b3, "inflate", past["inflate"])
           b5 == Direct!HardCut(b4, "deflate", past["deflate"])
<1>2. /\ Sound(board) /\ board \in Direct!Board /\ ~board.stopped
      /\ board.test = Direct!NoTest /\ Yielding(board) /\ at' = "watch"
  BY DEF DirectInv, Direct!ManualSafetyTick, Sound, Resting
<1>3. pumps \in SUBSET Direct!Sides /\ f \in [Direct!Sides -> Direct!Duties]
  BY <1>2 DEF Direct!Board, Direct!Duties
<1>4. \A s \in Direct!Sides : past[s] \in SUBSET Direct!Chambers
  BY SceneTypes DEF DirectInv
<1>5. board' = b5 BY <1>1
<1> HIDE DEF f
<1>6. Calms(board, b1) BY <1>2, <1>3, CalmsPumpOff
<1> HIDE DEF b1
<1>7. Calms(b1, b2) BY <1>6, CalmsDeadmanEach DEF Calms, Keeps
<1> HIDE DEF b2
<1>8. Calms(b2, b3) BY <1>7, CalmsRecalc, KeptSet DEF Direct!RecalcIf, Calms, Keeps
<1> HIDE DEF b3
<1>9. Calms(b3, b4) BY <1>4, <1>8, CalmsHardCut DEF Calms, Keeps, Direct!Sides
<1> HIDE DEF b4
<1>10. Calms(b4, b5) BY <1>4, <1>9, CalmsHardCut DEF Calms, Keeps, Direct!Sides
<1> HIDE DEF b5
<1>11. Calms(board, b5) BY <1>6, <1>7, <1>8, <1>9, <1>10, CalmsTrans
<1>12. DirectInv'
  BY <1>2, <1>5, <1>11 DEF DirectInv, Calms, Keeps, Loop, Yielding, Direct!Busy
<1> QED BY <1>5, <1>11, <1>12 DEF Calms, Keeps, Owned, OwnedBy

LEMMA InvWatchdog ==
  ASSUME DirectInv, scene' = scene, Direct!ActuationWatchdog
  PROVE  DirectInv' /\ (Owned(board) => Owned(board'))
<1>1. PICK S \in SUBSET {c \in Direct!Chambers : board.act[c] # "idle"} :
        board' = Direct!HoldEach(board, S)
  BY DEF Direct!ActuationWatchdog
<1>2. /\ Sound(board) /\ ~board.stopped
      /\ board.test = Direct!NoTest /\ Yielding(board) /\ at' = "ready"
  BY DEF DirectInv, Direct!ActuationWatchdog, Resting
<1>3. Calms(board, board') BY <1>1, <1>2, CalmsHoldEach
<1>4. DirectInv'
  BY <1>2, <1>3 DEF DirectInv, Calms, Keeps, Loop, Yielding, Direct!Busy
<1> QED BY <1>3, <1>4 DEF Calms, Keeps, Owned, OwnedBy

LEMMA InvTestPass ==
  ASSUME DirectInv, scene' = scene, Direct!TestPass
  PROVE  DirectInv' /\ (Owned(board) => Owned(board'))
<1>1. board' = board /\ at' = "ready" /\ board.test # Direct!NoTest BY DEF Direct!TestPass
<1>2. DirectInv' BY <1>1 DEF DirectInv, Loop, Resting, Direct!Settled, Off, Sound
<1> QED BY <1>1, <1>2 DEF Owned, OwnedBy

LEMMA DirectInit ==
  ASSUME Direct!Init
  PROVE  DirectInv /\ Owned(board)
<1>1. /\ board = Direct!BootBoard /\ at = "ready" /\ scene \in Scenes
      /\ Direct!IdleEngine \in Direct!Engine
  BY IdleIsEngine DEF Direct!Init
<1>2. board \in Direct!Board
  BY <1>1 DEF Direct!BootBoard, Direct!Board, Direct!Duties, Direct!NoHold, Direct!NoTest, Direct!Both
<1>3. Off(board) /\ ~board.stopped
  BY <1>1 DEF Direct!BootBoard, Off
<1>4. Sound(board) /\ Owned(board) BY <1>2, <1>3, OffSound
<1>5. Yielding(board) BY <1>3 DEF Off, Yielding, Direct!NoHold
<1>6. board.test = Direct!NoTest BY <1>3 DEF Off
<1> QED BY <1>1, <1>3, <1>4, <1>5, <1>6 DEF DirectInv, Loop

LEMMA DirectNext ==
  ASSUME DirectInv, Direct!Next
  PROVE  DirectInv' /\ (Owned(board) => Owned(board)')
<1>0. scene' = scene BY DEF Direct!Next
<1>1. Direct!Command => DirectInv' /\ (Owned(board) => Owned(board'))
  BY <1>0, InvFill, InvLimit, InvHoldDuty, InvManual, InvTest, InvStop
  DEF Direct!Command
<1>2. Direct!Pass => DirectInv' /\ (Owned(board) => Owned(board'))
  BY <1>0, InvStop, InvTestPass, InvControl, InvHoldTick, InvSafetyTick, InvWatchdog
  DEF Direct!Pass
<1>3. CASE (Direct!Command \/ Direct!Pass) /\ Direct!Forgets({})
  <2>1. forgotten' = forgotten \cap board'.valve BY <1>3 DEF Direct!Forgets
  <2>2. Owned(board') => Owned(board)' BY <2>1 DEF Owned, OwnedBy
  <2> QED BY <1>1, <1>2, <1>3, <2>2
<1>4. CASE Direct!CmdHoldDutyOffAll /\ Direct!Forgets(Direct!OpenHoldValves(board.hold))
  BY <1>0, <1>4, InvHoldDutyOffAll
<1> QED BY <1>3, <1>4 DEF Direct!Next

LEMMA DirectStay ==
  ASSUME DirectInv, UNCHANGED directVars
  PROVE  DirectInv' /\ (Owned(board) => Owned(board)')
BY DEF DirectInv, directVars, Resting, Direct!Settled, Owned, OwnedBy, Yielding, Direct!Busy, Off,
   Sound, Apart, HoldsApart, BenchAlone, OneValve, VentFlag

-----------------------------------------------------------------------------
(* What the invariant of the direct board gives *)

LEMMA DirectLatched == ASSUME DirectInv PROVE Direct!StoppedIsOff
BY DEF DirectInv, Off, Direct!StoppedIsOff, Direct!NoHold

LEMMA DirectYields == ASSUME DirectInv PROVE Direct!HoldYields
<1>1. Direct!Settled /\ Direct!Busy(board) => board.hold.open = {}
  BY DEF DirectInv, Resting, Yielding
<1>2. \A s \in Direct!Sides : board.eng[s].open \cap board.hold.open = {}
  BY DEF DirectInv, Sound, HoldsApart, Direct!EngineShape
<1> QED BY <1>1, <1>2 DEF Direct!HoldYields

LEMMA DirectOwned ==
  ASSUME DirectInv, Owned(board)
  PROVE  Direct!NoOrphanValve
<1> SUFFICES ASSUME Direct!Settled, NEW v \in board.valve \ forgotten
             PROVE  \/ v[1] \in board.eng[v[2]].open
                    \/ v \in Direct!OpenHoldValves(board.hold)
                    \/ v \in board.manValve
  BY DEF Direct!NoOrphanValve
<1>1. board.valve \subseteq Direct!Chambers \X Direct!Sides /\ board.test = Direct!NoTest
  BY DEF DirectInv, Sound, Direct!Board, Direct!Both, Direct!Settled
<1>2. PICK c \in Direct!Chambers, s \in Direct!Sides : v = <<c, s>> BY <1>1
<1>3. OwnedBy(board, c, s) BY <1>1, <1>2 DEF Owned
<1> QED BY <1>2, <1>3 DEF OwnedBy, Direct!OpenHoldValves

LEMMA DirectOneWay ==
  ASSUME DirectInv, Owned(board)
  PROVE  Direct!OneWay
<1>1. Direct!OneDirection BY DEF DirectInv, Sound, Apart, Direct!OneDirection
<1>2. ASSUME Direct!Settled, NEW c \in Direct!Chambers,
             Direct!Both({c}) \subseteq board.valve \ forgotten
      PROVE  c \in board.vent
  <2>0. "inflate" \in Direct!Sides /\ "deflate" \in Direct!Sides
        /\ Direct!Other("inflate") = "deflate" /\ Direct!Other("deflate") = "inflate"
    BY DEF Direct!Sides, Direct!Other
  <2>1. /\ <<c, "inflate">> \in board.valve \ forgotten
        /\ <<c, "deflate">> \in board.valve \ forgotten
    BY <1>2, <2>0 DEF Direct!Both
  <2>2. c \notin board.eng["inflate"].open /\ c \notin board.eng["deflate"].open
    BY <2>0, <2>1 DEF DirectInv, Sound, OneValve
  <2>3. OwnedBy(board, c, "inflate") /\ OwnedBy(board, c, "deflate")
    BY <1>2, <2>0, <2>1 DEF Owned, Direct!Settled
  <2>4. board.manValve # {} => board.hold.open = {}
    BY <1>2 DEF DirectInv, Resting, Yielding, Direct!Busy
  <2>5. <<c, "inflate">> \in board.manValve /\ <<c, "deflate">> \in board.manValve
    BY <2>1, <2>2, <2>3, <2>4 DEF OwnedBy
  <2> QED BY <2>5 DEF DirectInv, Sound, VentFlag
<1> QED BY <1>1, <1>2 DEF Direct!OneWay, Direct!NoCrossFlow

-----------------------------------------------------------------------------
(* The direct board under an activity: engines, valves, pumps and masks agree *)

\* Nothing of the bench's is on.
Bare(b) == b.manPump = {} /\ b.manValve = {} /\ b.vent = {} /\ b.test = Direct!NoTest
Seen(b) == \A s \in Direct!Sides : \A c \in b.eng[s].open :
             <<c, s>> \in b.valve /\ b.act[c] = s
Watched(b) == \A c \in Direct!Chambers : b.act[c] # "idle" => c \in b.eng[b.act[c]].open
Held(b) == Direct!OpenHoldValves(b.hold) \subseteq b.valve
Frame(b) == Sound(b) /\ Bare(b) /\ Seen(b) /\ Watched(b) /\ Held(b)

\* A valve the hold engine closed keeps its bit of the mask, and with it the
\* duty of its pump, until the engine next mirrors its state.
Open(b, s) == {c \in Direct!Chambers : <<c, s>> \in b.valve}
HoldOpen(b, s) == Direct!OfSide(b.hold, b.hold.open, s)
Masked(b) == \A s \in Direct!Sides : HoldOpen(b, s) \subseteq b.holdMask[s]
Mirrored(b) == \A s \in Direct!Sides : HoldOpen(b, s) = b.holdMask[s]
Pumping(b) == \A s \in Direct!Sides :
  /\ Open(b, s) = {} /\ b.holdMask[s] = {} => b.duty[s] = "off"
  /\ b.duty[s] = "hold" => b.holdMask[s] # {}
  /\ ~(b.eng[s].open \subseteq b.holdMask[s]) =>
       b.duty[s] \in (IF s = "deflate" THEN {"full", "floor"} ELSE {"full"})
Runs(b) == Frame(b) /\ Masked(b) /\ Pumping(b)

\* What the duty rule gives for the valves that are open.
LEMMA DutyIs ==
  ASSUME NEW b \in Direct!Board, b.vent = {}, NEW s \in Direct!Sides
  PROVE  /\ Open(b, s) = {} => Direct!RecalcDuty(b, s) = "off"
         /\ Direct!RecalcDuty(b, s) = "hold" => b.holdMask[s] # {}
         /\ ~(Open(b, s) \subseteq b.holdMask[s]) =>
              Direct!RecalcDuty(b, s) \in (IF s = "deflate" THEN {"full", "floor"} ELSE {"full"})
         /\ Direct!RecalcDuty(b, s) \in Direct!Duties
<1>1. Direct!FlowPath(b, s) = Open(b, s) BY DEF Direct!FlowPath, Open
<1>2. CASE Open(b, s) = {}
  <2>1. Direct!RecalcDuty(b, s) = "off" BY <1>1, <1>2 DEF Direct!RecalcDuty
  <2> QED BY <1>2, <2>1 DEF Direct!Duties
<1>3. CASE Open(b, s) # {} /\ Open(b, s) \subseteq b.holdMask[s]
  <2>1. Direct!RecalcDuty(b, s) = IF b.holdDuty[s] THEN "hold" ELSE "off"
    BY <1>1, <1>3 DEF Direct!RecalcDuty
  <2> QED BY <1>3, <2>1 DEF Direct!Duties
<1>4. CASE ~(Open(b, s) \subseteq b.holdMask[s])
  <2>1. Open(b, s) # {} BY <1>4
  <2>2. Direct!RecalcDuty(b, s) =
          IF s = "deflate" /\ Open(b, s) \subseteq b.eng[s].floor THEN "floor" ELSE "full"
    BY <1>1, <1>4, <2>1 DEF Direct!RecalcDuty
  <2> QED BY <1>4, <2>1, <2>2 DEF Direct!Duties
<1> QED BY <1>2, <1>3, <1>4

LEMMA RunRecalc ==
  ASSUME NEW b, Frame(b)
  PROVE  /\ Frame(Direct!RecalcPumps(b)) /\ Pumping(Direct!RecalcPumps(b))
         /\ Direct!RecalcPumps(b).hold = b.hold /\ Direct!RecalcPumps(b).eng = b.eng
         /\ Direct!RecalcPumps(b).holdMask = b.holdMask
         /\ Direct!RecalcPumps(b).stopped = b.stopped
<1> DEFINE d == Direct!RecalcPumps(b)
<1>0. b \in Direct!Board BY DEF Frame, Sound
<1>1. /\ d.hold = b.hold /\ d.eng = b.eng /\ d.valve = b.valve /\ d.act = b.act
      /\ d.holdMask = b.holdMask /\ d.manPump = b.manPump /\ d.manValve = b.manValve
      /\ d.vent = b.vent /\ d.test = b.test /\ d.stopped = b.stopped
      /\ d.duty = [s \in Direct!Sides |-> Direct!RecalcDuty(b, s)]
  BY <1>0 DEF Direct!RecalcPumps, Direct!Board
<1>2. Sound(d) BY KeepsRecalc DEF Frame, Keeps
<1> HIDE DEF d
<1>3. Frame(d) BY <1>1, <1>2 DEF Frame, Bare, Seen, Watched, Held
<1>4. \A s \in Direct!Sides : b.eng[s].open \subseteq Open(b, s)
  <2>1. \A s \in Direct!Sides : b.eng[s].open \subseteq Direct!Chambers
    BY <1>0 DEF Direct!Board, Direct!Engine
  <2> QED BY <2>1 DEF Frame, Seen, Open
<1>5. ASSUME NEW s \in Direct!Sides
      PROVE  /\ Open(d, s) = {} /\ d.holdMask[s] = {} => d.duty[s] = "off"
             /\ d.duty[s] = "hold" => d.holdMask[s] # {}
             /\ ~(d.eng[s].open \subseteq d.holdMask[s]) =>
                  d.duty[s] \in (IF s = "deflate" THEN {"full", "floor"} ELSE {"full"})
  <2>1. Open(d, s) = Open(b, s) /\ d.duty[s] = Direct!RecalcDuty(b, s) BY <1>1 DEF Open
  <2>2. b.vent = {} BY DEF Frame, Bare
  <2>3. ~(b.eng[s].open \subseteq b.holdMask[s]) => ~(Open(b, s) \subseteq b.holdMask[s])
    BY <1>4
  <2> QED BY <1>0, <1>1, <2>1, <2>2, <2>3, DutyIs
<1> QED BY <1>1, <1>3, <1>5 DEF Pumping, d

\* The hold engine moves its own valves and leaves the rest of the board alone.
Elsewhere(b, d) == /\ d.eng = b.eng /\ d.act = b.act /\ d.duty = b.duty
                   /\ d.holdMask = b.holdMask
                   /\ d.manPump = b.manPump /\ d.manValve = b.manValve
                   /\ d.vent = b.vent /\ d.test = b.test

LEMMA RunHoldMoves ==
  ASSUME NEW b, NEW d, Runs(b), Sound(d), Elsewhere(b, d),
         b.valve \ d.valve \subseteq Direct!OpenHoldValves(b.hold),
         Direct!OpenHoldValves(d.hold) \subseteq d.valve
  PROVE  Frame(d) /\ Pumping(d)
<1>0. Sound(b) /\ Seen(b) /\ Watched(b) /\ Bare(b) BY DEF Runs, Frame
<1>1. \A c, s : <<c, s>> \in Direct!OpenHoldValves(b.hold)
                  <=> c \in b.hold.open /\ s = Direct!HoldSide(b.hold, c)
  BY DEF Direct!OpenHoldValves
<1>2. \A s \in Direct!Sides : b.eng[s].open \cap b.hold.open = {}
  BY <1>0 DEF Sound, HoldsApart, Direct!EngineShape
<1>3. Seen(d)
  <2> SUFFICES ASSUME NEW s \in Direct!Sides, NEW c \in d.eng[s].open
               PROVE  <<c, s>> \in d.valve /\ d.act[c] = s
    BY DEF Seen
  <2>1. c \in b.eng[s].open /\ <<c, s>> \in b.valve /\ b.act[c] = s
    BY <1>0 DEF Elsewhere, Seen
  <2>2. <<c, s>> \notin Direct!OpenHoldValves(b.hold) BY <1>1, <1>2, <2>1
  <2> QED BY <2>1, <2>2 DEF Elsewhere
<1>4. Bare(d) /\ Watched(d) BY <1>0 DEF Elsewhere, Bare, Watched
<1>5. ASSUME NEW s \in Direct!Sides, Open(d, s) = {}, d.holdMask[s] = {}
      PROVE  Open(b, s) = {}
  <2> SUFFICES ASSUME NEW c \in Open(b, s) PROVE FALSE OBVIOUS
  <2>1. c \in Direct!Chambers /\ <<c, s>> \in b.valve /\ <<c, s>> \notin d.valve
    BY <1>5 DEF Open
  <2>2. c \in b.hold.open /\ s = Direct!HoldSide(b.hold, c) BY <1>1, <2>1
  <2>3. c \in HoldOpen(b, s) BY <2>2 DEF HoldOpen, Direct!OfSide
  <2> QED BY <1>5, <2>3 DEF Runs, Masked, Elsewhere
<1>6. Pumping(d) BY <1>5 DEF Runs, Pumping, Elsewhere
<1> QED BY <1>3, <1>4, <1>6 DEF Frame, Held

\* Closing holds keeps the rest, and leaves no more of them open on a side.
LEMMA RunHoldDropAll ==
  ASSUME NEW b, Runs(b), NEW S \in SUBSET Direct!Chambers
  PROVE  /\ Runs(Direct!HoldDropAll(b, S))
         /\ Direct!HoldDropAll(b, S).holdMask = b.holdMask
         /\ Direct!HoldDropAll(b, S).stopped = b.stopped
<1> DEFINE d == Direct!HoldDropAll(b, S)
<1>0. Sound(b) /\ b \in Direct!Board BY DEF Runs, Frame, Sound
<1>1. d.hold.open = b.hold.open \ S /\ d.hold.vac = b.hold.vac \ S
  BY <1>0 DEF Direct!HoldDropAll, Direct!Board
<1>2. d.valve = b.valve \ {v \in Direct!OpenHoldValves(b.hold) : v[1] \in S}
  BY <1>0 DEF Direct!HoldDropAll, Direct!Board
<1>3. Elsewhere(b, d) /\ d.stopped = b.stopped
  BY <1>0 DEF Elsewhere, Direct!HoldDropAll, Direct!Board
<1>4. Sound(d) BY <1>0, KeepsHoldDropAll DEF Keeps
<1> HIDE DEF d
<1>5. \A c \in d.hold.open : c \in b.hold.open /\ c \notin S
        /\ Direct!HoldSide(d.hold, c) = Direct!HoldSide(b.hold, c)
  BY <1>1 DEF Direct!HoldSide
<1>6. Direct!OpenHoldValves(d.hold) \subseteq d.valve
  <2> SUFFICES ASSUME NEW c \in d.hold.open PROVE <<c, Direct!HoldSide(d.hold, c)>> \in d.valve
    BY DEF Direct!OpenHoldValves
  <2>1. <<c, Direct!HoldSide(d.hold, c)>> \in b.valve
    BY <1>5 DEF Runs, Frame, Held, Direct!OpenHoldValves
  <2> QED BY <1>2, <1>5, <2>1
<1>7. b.valve \ d.valve \subseteq Direct!OpenHoldValves(b.hold) BY <1>2
<1>8. Frame(d) /\ Pumping(d) BY <1>3, <1>4, <1>6, <1>7, RunHoldMoves
<1>9. \A s \in Direct!Sides : HoldOpen(d, s) \subseteq HoldOpen(b, s)
  BY <1>5 DEF HoldOpen, Direct!OfSide
<1>10. Masked(d) BY <1>3, <1>9 DEF Runs, Masked, Elsewhere
<1> QED BY <1>3, <1>8, <1>10 DEF Runs, Elsewhere, d

LEMMA RunHoldRequest ==
  ASSUME NEW b, Runs(b), NEW s \in Direct!Sides, NEW c \in Direct!Chambers
  PROVE  Runs(Direct!HoldRequest(b, c, s))
<1> DEFINE d == Direct!HoldRequest(b, c, s)
           flipped == c \in b.hold.active /\ Direct!HoldSide(b.hold, c) # s /\ c \in b.hold.open
<1>0. Sound(b) /\ b \in Direct!Board BY DEF Runs, Frame, Sound
<1>1. /\ d.hold.open = IF flipped THEN b.hold.open \ {c} ELSE b.hold.open
      /\ d.hold.vac = IF s = "deflate" THEN b.hold.vac \cup {c} ELSE b.hold.vac \ {c}
  BY <1>0 DEF Direct!HoldRequest, Direct!Board
<1>2. d.valve = IF flipped THEN b.valve \ {<<c, Direct!HoldSide(b.hold, c)>>} ELSE b.valve
  BY <1>0 DEF Direct!HoldRequest, Direct!Board
<1>3. Elsewhere(b, d)
  BY <1>0 DEF Elsewhere, Direct!HoldRequest, Direct!Board
<1>4. Sound(d) BY <1>0, KeepsHoldRequest DEF Keeps
<1> HIDE DEF d
<1>5. \A k \in b.hold.open : flipped \/ k # c \/ Direct!HoldSide(b.hold, c) = s
  BY <1>0 DEF Sound, HoldsApart
<1>6. \A k \in d.hold.open : /\ k \in b.hold.open /\ (flipped => k # c)
                             /\ Direct!HoldSide(d.hold, k) = Direct!HoldSide(b.hold, k)
  BY <1>1, <1>5 DEF Direct!HoldSide, Direct!Sides
<1>7. Direct!OpenHoldValves(d.hold) \subseteq d.valve
  <2> SUFFICES ASSUME NEW k \in d.hold.open PROVE <<k, Direct!HoldSide(d.hold, k)>> \in d.valve
    BY DEF Direct!OpenHoldValves
  <2>1. <<k, Direct!HoldSide(d.hold, k)>> \in b.valve
    BY <1>6 DEF Runs, Frame, Held, Direct!OpenHoldValves
  <2> QED BY <1>2, <1>6, <2>1
<1>8. b.valve \ d.valve \subseteq Direct!OpenHoldValves(b.hold)
  BY <1>2 DEF Direct!OpenHoldValves
<1>9. Frame(d) /\ Pumping(d) BY <1>3, <1>4, <1>7, <1>8, RunHoldMoves
<1>10. \A t \in Direct!Sides : HoldOpen(d, t) \subseteq HoldOpen(b, t)
  BY <1>6 DEF HoldOpen, Direct!OfSide
<1>11. Masked(d) BY <1>3, <1>10 DEF Runs, Masked, Elsewhere
<1> QED BY <1>9, <1>11 DEF Runs, d

\* The three ways the hold engine's tick leaves its valves before it mirrors them.
LEMMA RunHoldTicks ==
  ASSUME NEW b, Runs(b)
  PROVE  /\ Frame(Direct!HoldSuspend(b)) /\ Pumping(Direct!HoldSuspend(b))
         /\ b.hold.active = {} => /\ Frame([b EXCEPT !.hold = Direct!NoHold])
                                  /\ Pumping([b EXCEPT !.hold = Direct!NoHold])
         /\ ~Direct!Busy(b) => \A want \in SUBSET b.hold.active :
              Frame(Direct!HoldApply(b, want)) /\ Pumping(Direct!HoldApply(b, want))
<1>0. Sound(b) /\ b \in Direct!Board /\ b.test = Direct!NoTest BY DEF Runs, Frame, Bare, Sound
<1>1. Frame(Direct!HoldSuspend(b)) /\ Pumping(Direct!HoldSuspend(b))
  <2> DEFINE d == Direct!HoldSuspend(b)
  <2>1. Elsewhere(b, d) /\ d.valve = b.valve \ Direct!OpenHoldValves(b.hold)
    BY <1>0 DEF Elsewhere, Direct!HoldSuspend, Direct!Board
  <2>2. Sound(d) /\ d.hold.open = {} BY <1>0, KeepsHoldSuspend DEF Keeps
  <2> HIDE DEF d
  <2>3. Direct!OpenHoldValves(d.hold) = {} BY <2>2 DEF Direct!OpenHoldValves
  <2>4. Frame(d) /\ Pumping(d) BY <2>1, <2>2, <2>3, RunHoldMoves
  <2> QED BY <2>4 DEF d
<1>2. ASSUME b.hold.active = {}
      PROVE  Frame([b EXCEPT !.hold = Direct!NoHold]) /\ Pumping([b EXCEPT !.hold = Direct!NoHold])
  <2> DEFINE d == [b EXCEPT !.hold = Direct!NoHold]
  <2>1. Elsewhere(b, d) /\ d.valve = b.valve BY <1>0 DEF Elsewhere, Direct!Board
  <2>2. Sound(d) /\ d.hold.open = {} BY <1>0, <1>2, KeepsNoHold DEF Keeps
  <2> HIDE DEF d
  <2>3. Direct!OpenHoldValves(d.hold) = {} BY <2>2 DEF Direct!OpenHoldValves
  <2>4. Frame(d) /\ Pumping(d) BY <2>1, <2>2, <2>3, RunHoldMoves
  <2> QED BY <2>4 DEF d
<1>3. ASSUME ~Direct!Busy(b), NEW want \in SUBSET b.hold.active
      PROVE  Frame(Direct!HoldApply(b, want)) /\ Pumping(Direct!HoldApply(b, want))
  <2> DEFINE d == Direct!HoldApply(b, want)
             shut == [b.hold EXCEPT !.open = @ \ want]
             new  == [b.hold EXCEPT !.open = want \ @]
  <2>1. /\ Elsewhere(b, d) /\ d.hold.open = want /\ d.hold.vac = b.hold.vac
        /\ d.valve = (b.valve \ Direct!OpenHoldValves(shut)) \cup Direct!OpenHoldValves(new)
    BY <1>0 DEF Elsewhere, Direct!HoldApply, Direct!Board
  <2>2. /\ shut.open = b.hold.open \ want /\ shut.vac = b.hold.vac
        /\ new.open = want \ b.hold.open /\ new.vac = b.hold.vac
    BY <1>0 DEF Direct!Board
  <2>3. Sound(d) BY <1>0, <1>3, KeepsHoldApply DEF Keeps
  <2> HIDE DEF d, shut, new
  <2>4. \A c : /\ Direct!HoldSide(d.hold, c) = Direct!HoldSide(b.hold, c)
               /\ Direct!HoldSide(shut, c) = Direct!HoldSide(b.hold, c)
               /\ Direct!HoldSide(new, c) = Direct!HoldSide(b.hold, c)
    BY <2>1, <2>2 DEF Direct!HoldSide
  <2>5. b.valve \ d.valve \subseteq Direct!OpenHoldValves(b.hold)
    BY <2>1, <2>2, <2>4 DEF Direct!OpenHoldValves
  <2>6. Direct!OpenHoldValves(d.hold) \subseteq d.valve
    <3> SUFFICES ASSUME NEW c \in want PROVE <<c, Direct!HoldSide(b.hold, c)>> \in d.valve
      BY <2>1, <2>4 DEF Direct!OpenHoldValves
    <3>1. CASE c \in b.hold.open
      <4>1. <<c, Direct!HoldSide(b.hold, c)>> \in b.valve
        BY <3>1 DEF Runs, Frame, Held, Direct!OpenHoldValves
      <4>2. <<c, Direct!HoldSide(b.hold, c)>> \notin Direct!OpenHoldValves(shut)
        BY <2>2 DEF Direct!OpenHoldValves
      <4> QED BY <2>1, <4>1, <4>2
    <3>2. CASE c \notin b.hold.open
      <4>1. <<c, Direct!HoldSide(b.hold, c)>> \in Direct!OpenHoldValves(new)
        BY <2>2, <2>4, <3>2 DEF Direct!OpenHoldValves
      <4> QED BY <2>1, <4>1
    <3> QED BY <3>1, <3>2
  <2>7. Frame(d) /\ Pumping(d) BY <2>1, <2>3, <2>5, <2>6, RunHoldMoves
  <2> QED BY <2>7 DEF d
<1> QED BY <1>1, <1>2, <1>3

\* Mirroring makes the masks those of the valves the hold engine has open.
LEMMA RunHoldMirror ==
  ASSUME NEW b, Frame(b), Pumping(b), NEW retuned \in BOOLEAN
  PROVE  Runs(Direct!HoldMirror(b, retuned)) /\ Mirrored(Direct!HoldMirror(b, retuned))
<1> DEFINE mask == [s \in Direct!Sides |-> HoldOpen(b, s)]
           d == [b EXCEPT !.holdMask = mask, !.holdDuty = b.hold.last]
<1>0. b \in Direct!Board BY DEF Frame, Sound
<1>1. CASE mask = b.holdMask /\ b.hold.last = b.holdDuty /\ ~retuned
  <2>1. Direct!HoldMirror(b, retuned) = b BY <1>1 DEF Direct!HoldMirror, HoldOpen
  <2>2. Mirrored(b) BY <1>1 DEF Mirrored
  <2> QED BY <2>1, <2>2 DEF Runs, Masked, Mirrored
<1>2. CASE ~(mask = b.holdMask /\ b.hold.last = b.holdDuty /\ ~retuned)
  <2>1. Direct!HoldMirror(b, retuned) = Direct!RecalcPumps(d)
    BY <1>2 DEF Direct!HoldMirror, HoldOpen
  <2>2. mask \in [Direct!Sides -> SUBSET Direct!Chambers]
        /\ b.hold.last \in [Direct!Sides -> BOOLEAN]
    BY <1>0 DEF HoldOpen, Direct!OfSide, Direct!Board
  <2>3. \A s \in Direct!Sides : mask[s] = HoldOpen(b, s) OBVIOUS
  <2> HIDE DEF mask
  <2>4. /\ d \in Direct!Board /\ d.eng = b.eng /\ d.hold = b.hold /\ d.test = b.test
        /\ d.valve = b.valve /\ d.act = b.act /\ d.manValve = b.manValve
        /\ d.vent = b.vent /\ d.manPump = b.manPump /\ d.holdMask = mask
    BY <1>0, <2>2 DEF Direct!Board
  <2> HIDE DEF d
  <2>5. Sound(d)
    BY <2>4 DEF Frame, Sound, Apart, HoldsApart, BenchAlone, OneValve, VentFlag
  <2>6. Frame(d) BY <2>4, <2>5 DEF Frame, Bare, Seen, Watched, Held
  <2> DEFINE r == Direct!RecalcPumps(d)
  <2>7. Frame(r) /\ Pumping(r) /\ r.hold = b.hold /\ r.holdMask = mask
    BY <2>4, <2>6, RunRecalc
  <2> HIDE DEF r
  <2>8. Mirrored(r) BY <2>3, <2>7 DEF Mirrored, HoldOpen
  <2>9. Masked(r) BY <2>8 DEF Mirrored, Masked
  <2> QED BY <2>1, <2>7, <2>8, <2>9 DEF Runs, r
<1> QED BY <1>1, <1>2

\* A chamber leaving an engine closes its valve; the pumps follow with the next
\* recalculation, at once when nothing was open.
LEMMA RunEngDrop ==
  ASSUME NEW b, Frame(b), NEW s \in Direct!Sides, NEW c \in Direct!Chambers
  PROVE  /\ Frame(Direct!EngDrop(b, s, c))
         /\ Masked(b) => Masked(Direct!EngDrop(b, s, c))
         /\ c \notin b.eng[s].open /\ Pumping(b) => Pumping(Direct!EngDrop(b, s, c))
         /\ \A t \in Direct!Sides : Direct!EngDrop(b, s, c).eng[t].open =
              IF t = s THEN b.eng[t].open \ {c} ELSE b.eng[t].open
         /\ Direct!EngDrop(b, s, c).hold = b.hold
         /\ Direct!EngDrop(b, s, c).holdMask = b.holdMask
<1> DEFINE e == Direct!Drop(b.eng[s], c)
           d == Direct!EngDrop(b, s, c)
           gone == c \in b.eng[s].open
<1>0. /\ b \in Direct!Board /\ Sound(b) /\ Bare(b) /\ Seen(b) /\ Watched(b) /\ Held(b)
      /\ b.eng[s] \in Direct!Engine /\ Direct!EngineShape(b.eng[s])
  BY DEF Frame, Sound, Direct!Board
<1>1. e.open = b.eng[s].open \ {c} BY <1>0, DropEngine
<1>2. /\ d.eng = [b.eng EXCEPT ![s] = e] /\ d.hold = b.hold /\ d.holdMask = b.holdMask
      /\ d.manPump = b.manPump /\ d.manValve = b.manValve /\ d.vent = b.vent /\ d.test = b.test
      /\ d.duty = b.duty
      /\ d.valve = (IF gone THEN b.valve \ Direct!Both({c}) ELSE b.valve)
      /\ d.act = (IF gone THEN [b.act EXCEPT ![c] = "idle"] ELSE b.act)
  BY <1>0 DEF Direct!EngDrop, Direct!Stop, Direct!Board
<1>3. Sound(d) BY <1>0, KeepsEngDrop DEF Keeps
<1> HIDE DEF e
<1>4. \A t \in Direct!Sides : d.eng[t].open = IF t = s THEN b.eng[t].open \ {c} ELSE b.eng[t].open
  BY <1>0, <1>1, <1>2 DEF Direct!Board
<1>5. /\ \A k \in Direct!Chambers : d.act[k] = IF gone /\ k = c THEN "idle" ELSE b.act[k]
      /\ \A k \in Direct!Chambers, t \in Direct!Sides :
           <<k, t>> \in d.valve <=> <<k, t>> \in b.valve /\ ~(gone /\ k = c)
  BY <1>0, <1>2 DEF Direct!Both, Direct!Board
<1> HIDE DEF d
<1>6. \A t \in Direct!Sides : b.eng[t].open \subseteq Direct!Chambers
  BY <1>0 DEF Direct!Board, Direct!Engine
<1>7. Seen(d)
  <2> SUFFICES ASSUME NEW t \in Direct!Sides, NEW k \in d.eng[t].open
               PROVE  <<k, t>> \in d.valve /\ d.act[k] = t
    BY DEF Seen
  <2>1. k \in b.eng[t].open /\ (t = s => k # c) /\ k \in Direct!Chambers BY <1>4, <1>6
  <2>2. <<k, t>> \in b.valve /\ b.act[k] = t BY <1>0, <2>1 DEF Seen
  <2>3. gone => b.act[c] = s BY <1>0 DEF Seen
  <2>4. ~(gone /\ k = c) BY <2>1, <2>2, <2>3
  <2> QED BY <1>5, <2>1, <2>2, <2>4
<1>8. Watched(d)
  <2> SUFFICES ASSUME NEW k \in Direct!Chambers, d.act[k] # "idle"
               PROVE  k \in d.eng[d.act[k]].open
    BY DEF Watched
  <2>1. d.act[k] = b.act[k] /\ ~(gone /\ k = c) BY <1>5
  <2>2. k \in b.eng[b.act[k]].open BY <1>0, <2>1 DEF Watched
  <2>3. b.act[k] \in Direct!Sides BY <1>0, <2>1 DEF Direct!Board
  <2> QED BY <1>4, <2>1, <2>2, <2>3
<1>9. Held(d)
  <2> SUFFICES ASSUME NEW k \in b.hold.open PROVE <<k, Direct!HoldSide(b.hold, k)>> \in d.valve
    BY <1>2 DEF Held, Direct!OpenHoldValves
  <2>1. <<k, Direct!HoldSide(b.hold, k)>> \in b.valve BY <1>0 DEF Held, Direct!OpenHoldValves
  <2>2. Direct!HoldSide(b.hold, k) \in Direct!Sides /\ k \in Direct!Chambers
    BY <1>0 DEF Direct!HoldSide, Direct!Sides, Direct!Board
  <2>3. ~(gone /\ k = c) BY <1>0 DEF Sound, HoldsApart, Direct!EngineShape
  <2> QED BY <1>5, <2>1, <2>2, <2>3
<1>10. Frame(d) BY <1>0, <1>2, <1>3, <1>7, <1>8, <1>9 DEF Frame, Bare
<1>11. Masked(b) => Masked(d) BY <1>2 DEF Masked, HoldOpen
<1>12. ~gone /\ Pumping(b) => Pumping(d)
  <2> SUFFICES ASSUME ~gone, Pumping(b) PROVE Pumping(d) OBVIOUS
  <2>1. \A t \in Direct!Sides : d.eng[t].open = b.eng[t].open BY <1>4
  <2>2. d.valve = b.valve BY <1>2
  <2> QED BY <1>2, <2>1, <2>2 DEF Pumping, Open
<1> QED BY <1>2, <1>4, <1>10, <1>11, <1>12 DEF d

LEMMA RunRequestSide ==
  ASSUME NEW b, Runs(b), NEW s \in Direct!Sides, NEW c \in Direct!Chambers
  PROVE  Runs(Direct!RequestSide(b, c, s))
<1> DEFINE o       == Direct!Other(s)
           held    == Direct!HoldDrop(b, c)
           dropped == Direct!EngDrop(held, o, c)
           clear   == Direct!RecalcIf(dropped, c \in held.eng[o].open)
           e       == Direct!Request(clear.eng[s], c)
           d       == [clear EXCEPT !.eng[s] = e]
<1>0. o \in Direct!Sides BY DEF Direct!Other, Direct!Sides
<1>1. Runs(held) BY RunHoldDropAll DEF Direct!HoldDrop
<1> HIDE DEF o, held
<1>2. /\ Frame(dropped) /\ Masked(dropped)
      /\ c \notin held.eng[o].open => Pumping(dropped)
  BY <1>0, <1>1, RunEngDrop DEF Runs
<1> HIDE DEF dropped
<1>3. Runs(clear)
  <2>1. CASE c \in held.eng[o].open
    <3>1. clear = Direct!RecalcPumps(dropped) BY <2>1 DEF Direct!RecalcIf
    <3> HIDE DEF clear
    <3> DEFINE r == Direct!RecalcPumps(dropped)
    <3>2. Frame(r) /\ Pumping(r) /\ r.hold = dropped.hold /\ r.holdMask = dropped.holdMask
      BY <1>2, RunRecalc
    <3> HIDE DEF r
    <3>3. Masked(r) BY <1>2, <3>2 DEF Masked, HoldOpen
    <3> QED BY <3>1, <3>2, <3>3 DEF Runs, r
  <2>2. CASE c \notin held.eng[o].open
    <3>1. clear = dropped BY <2>2 DEF Direct!RecalcIf
    <3> QED BY <1>2, <2>2, <3>1 DEF Runs
  <2> QED BY <2>1, <2>2
<1> HIDE DEF clear
<1>4. /\ clear \in Direct!Board /\ clear.eng[s] \in Direct!Engine
      /\ Direct!EngineShape(clear.eng[s])
  BY <1>3 DEF Runs, Frame, Sound, Direct!Board
<1>5. e.open = clear.eng[s].open BY <1>4, RequestEngine
<1> HIDE DEF e
<1>6. /\ d.eng = [clear.eng EXCEPT ![s] = e] /\ d.hold = clear.hold
      /\ d.holdMask = clear.holdMask /\ d.manPump = clear.manPump
      /\ d.manValve = clear.manValve /\ d.vent = clear.vent /\ d.test = clear.test
      /\ d.duty = clear.duty /\ d.valve = clear.valve /\ d.act = clear.act
  BY <1>4 DEF Direct!Board
<1>7. Direct!RequestSide(b, c, s) = d
  BY DEF Direct!RequestSide, d, e, clear, dropped, held, o
<1> HIDE DEF d
<1>8. \A t \in Direct!Sides : d.eng[t].open = clear.eng[t].open
  BY <1>4, <1>5, <1>6 DEF Direct!Board
<1>9. Sound(d)
  <2>1. Sound(b) BY DEF Runs, Frame
  <2> QED BY <1>7, <2>1, KeepsRequestSide DEF Keeps
<1>10. Seen(d)
  <2> SUFFICES ASSUME NEW t \in Direct!Sides, NEW k \in d.eng[t].open
               PROVE  <<k, t>> \in d.valve /\ d.act[k] = t
    BY DEF Seen
  <2>1. k \in clear.eng[t].open BY <1>8
  <2>2. <<k, t>> \in clear.valve /\ clear.act[k] = t BY <1>3, <2>1 DEF Runs, Frame, Seen
  <2> QED BY <1>6, <2>2
<1>11. Watched(d)
  <2> SUFFICES ASSUME NEW k \in Direct!Chambers, d.act[k] # "idle"
               PROVE  k \in d.eng[d.act[k]].open
    BY DEF Watched
  <2>1. k \in clear.eng[clear.act[k]].open BY <1>3, <1>6 DEF Runs, Frame, Watched
  <2>2. clear.act[k] \in Direct!Sides BY <1>4, <1>6 DEF Direct!Board
  <2> QED BY <1>6, <1>8, <2>1, <2>2
<1>12. Bare(d) /\ Held(d) BY <1>3, <1>6 DEF Runs, Frame, Bare, Held
<1>13. Masked(d) BY <1>3, <1>6 DEF Runs, Masked, HoldOpen
<1>14. Pumping(d) BY <1>3, <1>6, <1>8 DEF Runs, Pumping, Open
<1> QED BY <1>7, <1>9, <1>10, <1>11, <1>12, <1>13, <1>14 DEF Runs, Frame

LEMMA RunHoldChamber ==
  ASSUME NEW b, Runs(b), NEW c \in Direct!Chambers
  PROVE  /\ Runs(Direct!HoldChamber(b, c))
         /\ Direct!HoldChamber(b, c).holdMask = b.holdMask
<1> DEFINE b1 == Direct!HoldDrop(b, c)
           b2 == Direct!EngDrop(b1, "inflate", c)
           b3 == Direct!EngDrop(b2, "deflate", c)
           b4 == Direct!Stop(b3, c)
           b5 == Direct!RecalcPumps(b4)
<1>0. "inflate" \in Direct!Sides /\ "deflate" \in Direct!Sides
      /\ Direct!Sides = {"inflate", "deflate"}
  BY DEF Direct!Sides
<1>1. Runs(b1) /\ c \notin b1.hold.open /\ b1.holdMask = b.holdMask
  BY RunHoldDropAll, KeepsHoldDropAll DEF Direct!HoldDrop, Runs, Frame
<1>9. Direct!HoldChamber(b, c) = b5 BY DEF Direct!HoldChamber
<1> HIDE DEF b1
<1>2. /\ Frame(b2) /\ Masked(b2) /\ c \notin b2.eng["inflate"].open
      /\ b2.hold = b1.hold /\ b2.holdMask = b1.holdMask
  BY <1>0, <1>1, RunEngDrop DEF Runs
<1> HIDE DEF b2
<1>3. /\ Frame(b3) /\ Masked(b3) /\ \A t \in Direct!Sides : c \notin b3.eng[t].open
      /\ b3.hold = b1.hold /\ b3.holdMask = b1.holdMask
  BY <1>0, <1>2, RunEngDrop
<1> HIDE DEF b3
<1>4. b3 \in Direct!Board /\ Sound(b3) BY <1>3 DEF Frame, Sound
<1>5. /\ b4.eng = b3.eng /\ b4.hold = b3.hold /\ b4.holdMask = b3.holdMask
      /\ b4.manPump = b3.manPump /\ b4.manValve = b3.manValve /\ b4.vent = b3.vent
      /\ b4.test = b3.test /\ b4.valve = b3.valve \ Direct!Both({c})
      /\ b4.act = [b3.act EXCEPT ![c] = "idle"]
  BY <1>4 DEF Direct!Stop, Direct!Board
<1>6. /\ \A k \in Direct!Chambers : b4.act[k] = IF k = c THEN "idle" ELSE b3.act[k]
      /\ \A k \in Direct!Chambers, t \in Direct!Sides :
           <<k, t>> \in b4.valve <=> <<k, t>> \in b3.valve /\ k # c
  BY <1>4, <1>5 DEF Direct!Both, Direct!Board
<1>7. Sound(b4) BY <1>4, KeepsStop DEF Keeps
<1> HIDE DEF b4
<1>8. Frame(b4)
  <2>1. Seen(b4)
    <3>1. \A t \in Direct!Sides : b3.eng[t].open \subseteq Direct!Chambers
      BY <1>4 DEF Direct!Board, Direct!Engine
    <3> QED BY <1>3, <1>5, <1>6, <3>1 DEF Frame, Seen
  <2>2. Watched(b4) BY <1>3, <1>5, <1>6 DEF Frame, Watched
  <2>3. Held(b4)
    <3> SUFFICES ASSUME NEW k \in b3.hold.open PROVE <<k, Direct!HoldSide(b3.hold, k)>> \in b4.valve
      BY <1>5 DEF Held, Direct!OpenHoldValves
    <3>1. <<k, Direct!HoldSide(b3.hold, k)>> \in b3.valve
      BY <1>3 DEF Frame, Held, Direct!OpenHoldValves
    <3>2. Direct!HoldSide(b3.hold, k) \in Direct!Sides /\ k \in Direct!Chambers /\ k # c
      BY <1>1, <1>3, <1>4 DEF Direct!HoldSide, Direct!Sides, Direct!Board
    <3> QED BY <1>6, <3>1, <3>2
  <2> QED BY <1>3, <1>5, <1>7, <2>1, <2>2, <2>3 DEF Frame, Bare
<1>10. Frame(b5) /\ Pumping(b5) /\ b5.hold = b4.hold /\ b5.holdMask = b4.holdMask
  BY <1>8, RunRecalc
<1> HIDE DEF b5
<1>11. Masked(b5) BY <1>3, <1>5, <1>10 DEF Masked, HoldOpen
<1> QED BY <1>1, <1>3, <1>5, <1>9, <1>10, <1>11 DEF Runs

-----------------------------------------------------------------------------
(* The fan-outs and the passes of a running activity *)

LEMMA RunApplyEach ==
  ASSUME NEW b, Runs(b), NEW S \in SUBSET Direct!Chambers,
         NEW f \in [S -> Direct!Sides \cup {"none", "hold"}]
  PROVE  Runs(Direct!ApplyEach(b, S, f))
<1> DEFINE T == {x \in Direct!Board : Runs(x)}
           step == [c \in S |-> [x \in Direct!Board |-> Direct!ApplyChamberCmd(x, c, f[c])]]
<1>0. \A x : Runs(x) => x \in T BY DEF Runs, Frame, Sound
<1>1. \A c \in S, x \in T : step[c][x] \in T
  <2> SUFFICES ASSUME NEW c \in S, NEW x \in T PROVE Runs(Direct!ApplyChamberCmd(x, c, f[c]))
    BY <1>0
  <2>1. CASE f[c] = "none"
    <3>1. Direct!ApplyChamberCmd(x, c, f[c]) = x
      BY <2>1 DEF Direct!ApplyChamberCmd, Direct!Sides
    <3> QED BY <3>1
  <2>2. CASE f[c] = "hold"
    <3>1. Direct!ApplyChamberCmd(x, c, f[c]) = Direct!HoldChamber(x, c)
      BY <2>2 DEF Direct!ApplyChamberCmd, Direct!Sides
    <3> QED BY <3>1, RunHoldChamber
  <2>3. CASE f[c] \in Direct!Sides
    <3>1. Direct!ApplyChamberCmd(x, c, f[c]) = Direct!RequestSide(x, c, f[c])
      BY <2>3 DEF Direct!ApplyChamberCmd, Direct!Sides
    <3> QED BY <2>3, <3>1, RunRequestSide
  <2> QED BY <2>1, <2>2, <2>3
<1>2. b \in T /\ S \in SUBSET Int /\ IsFiniteSet(S) BY <1>0, ChambersFinite
<1>3. Direct!ForEach(step, b, S) \in T
  <2> HIDE DEF T, step
  <2> QED BY <1>1, <1>2, ForEachKeeps
<1> QED BY <1>3 DEF Direct!ApplyEach

LEMMA RunHoldDutyEach ==
  ASSUME NEW b, Runs(b), NEW S \in SUBSET Direct!Chambers, NEW s \in Direct!Sides
  PROVE  Runs(Direct!HoldDutyEach(b, S, s))
<1> DEFINE T == {x \in Direct!Board : Runs(x)}
           step == [c \in S |-> [x \in Direct!Board |-> Direct!HoldRequest(x, c, s)]]
<1>0. \A x : Runs(x) => x \in T BY DEF Runs, Frame, Sound
<1>1. \A c \in S, x \in T : step[c][x] \in T
  <2> SUFFICES ASSUME NEW c \in S, NEW x \in T PROVE Runs(Direct!HoldRequest(x, c, s))
    BY <1>0
  <2> QED BY RunHoldRequest
<1>2. b \in T /\ S \in SUBSET Int /\ IsFiniteSet(S) BY <1>0, ChambersFinite
<1>3. Direct!ForEach(step, b, S) \in T
  <2> HIDE DEF T, step
  <2> QED BY <1>1, <1>2, ForEachKeeps
<1> QED BY <1>3 DEF Direct!HoldDutyEach

\* Stopping chambers leaves the masks alone, and of none leaves everything alone.
LEMMA RunHoldEach ==
  ASSUME NEW b, Runs(b), NEW S \in SUBSET Direct!Chambers
  PROVE  /\ Runs(Direct!HoldEach(b, S)) /\ Direct!HoldEach(b, S).holdMask = b.holdMask
         /\ S = {} => Direct!HoldEach(b, S) = b
<1> DEFINE T == {x \in Direct!Board : Runs(x) /\ x.holdMask = b.holdMask}
           step == [c \in S |-> [x \in Direct!Board |-> Direct!HoldChamber(x, c)]]
<1>0. \A x : Runs(x) /\ x.holdMask = b.holdMask => x \in T BY DEF Runs, Frame, Sound
<1>1. \A c \in S, x \in T : step[c][x] \in T
  <2> SUFFICES ASSUME NEW c \in S, NEW x \in T
               PROVE  /\ Runs(Direct!HoldChamber(x, c))
                      /\ Direct!HoldChamber(x, c).holdMask = b.holdMask
    BY <1>0
  <2> QED BY RunHoldChamber
<1>2. b \in T /\ S \in SUBSET Int /\ IsFiniteSet(S) BY <1>0, ChambersFinite
<1>3. Direct!ForEach(step, b, S) \in T
  <2> HIDE DEF T, step
  <2> QED BY <1>1, <1>2, ForEachKeeps
<1>4. ASSUME S = {} PROVE Direct!ForEach(step, b, S) \in {b}
  <2>1. \A c \in S, x \in {b} : step[c][x] \in {b} BY <1>4
  <2> HIDE DEF step
  <2> QED BY <1>2, <2>1, ForEachKeeps
<1> QED BY <1>3, <1>4 DEF Direct!HoldEach

\* Forgetting holds none of which is open, or about to be mirrored so.
LEMMA RunHoldAbort ==
  ASSUME NEW b, Runs(b), b.hold.open = {}, \A s \in Direct!Sides : b.holdMask[s] = {}
  PROVE  Runs(Direct!HoldAbort(b))
<1> DEFINE d == Direct!HoldAbort(b)
<1>0. b \in Direct!Board /\ Sound(b) BY DEF Runs, Frame, Sound
<1>1. /\ d.hold = Direct!NoHold /\ d.holdMask = [s \in Direct!Sides |-> {}]
      /\ d.eng = b.eng /\ d.act = b.act /\ d.duty = b.duty /\ d.valve = b.valve
      /\ d.manPump = b.manPump /\ d.manValve = b.manValve /\ d.vent = b.vent /\ d.test = b.test
  BY <1>0 DEF Direct!HoldAbort, Direct!Board
<1>2. Sound(d) BY <1>0, HoldAbortSound
<1> HIDE DEF d
<1>3. \A s \in Direct!Sides : d.holdMask[s] = b.holdMask[s] BY <1>1
<1>4. d.hold.open = {} BY <1>1 DEF Direct!NoHold
<1>5. Held(d) BY <1>4 DEF Held, Direct!OpenHoldValves
<1>6. Seen(d)
  <2>1. d.eng = b.eng /\ d.valve = b.valve /\ d.act = b.act BY <1>1
  <2> QED BY <2>1 DEF Runs, Frame, Seen
<1>7. Watched(d) /\ Bare(d) BY <1>1 DEF Runs, Frame, Watched, Bare
<1>8. Masked(d) BY <1>4 DEF Masked, HoldOpen, Direct!OfSide
<1>9. Pumping(d) BY <1>1, <1>3 DEF Runs, Pumping, Open
<1> QED BY <1>2, <1>5, <1>6, <1>7, <1>8, <1>9 DEF Runs, Frame, d

\* An engine tick acts on the valves of the chambers it opened or closed.
LEMMA RunActOn ==
  ASSUME NEW b, Runs(b), NEW s \in Direct!Sides, NEW e \in Direct!TickOutcomes(b.eng[s])
  PROVE  /\ Frame(Direct!ActOn(b, s, e)) /\ Masked(Direct!ActOn(b, s, e))
         /\ e.open = b.eng[s].open => Pumping(Direct!ActOn(b, s, e))
<1> DEFINE closed == b.eng[s].open \ e.open
           opened == e.open \ b.eng[s].open
           d == Direct!ActOn(b, s, e)
<1>0. /\ b \in Direct!Board /\ Sound(b) /\ b.test = Direct!NoTest
      /\ b.eng[s] \in Direct!Engine /\ Direct!EngineShape(b.eng[s])
  BY DEF Runs, Frame, Bare, Sound, Direct!Board
<1>1. /\ e \in Direct!Engine /\ Direct!EngineShape(e) /\ e.pending \subseteq b.eng[s].pending
  BY <1>0, TickEngine
<1>2. /\ closed \subseteq b.eng[s].pending /\ opened \subseteq b.eng[s].pending
      /\ opened \subseteq Direct!Chambers
  BY <1>0, <1>1 DEF Direct!EngineShape, Direct!Engine
<1>3. /\ d.eng = [b.eng EXCEPT ![s] = e]
      /\ d.valve = (b.valve \ Direct!Both(closed \cup opened)) \cup (opened \X {s})
      /\ d.act = [c \in Direct!Chambers |-> IF c \in closed THEN "idle"
                                            ELSE IF c \in opened THEN s ELSE b.act[c]]
      /\ d.hold = b.hold /\ d.holdMask = b.holdMask /\ d.duty = b.duty
      /\ d.manPump = b.manPump /\ d.manValve = b.manValve /\ d.vent = b.vent /\ d.test = b.test
  BY <1>0 DEF Direct!ActOn, Direct!Board
<1>4. Sound(d) BY <1>0, KeepsActOn DEF Keeps
<1>5. closed = b.eng[s].open \ e.open /\ opened = e.open \ b.eng[s].open OBVIOUS
<1> HIDE DEF d, closed, opened
<1>6. \A t \in Direct!Sides : d.eng[t] = IF t = s THEN e ELSE b.eng[t]
  BY <1>0, <1>3 DEF Direct!Board
<1>7. \A c \in Direct!Chambers, t \in Direct!Sides : <<c, t>> \in d.valve <=>
        \/ c \in opened /\ t = s
        \/ <<c, t>> \in b.valve /\ c \notin closed \cup opened
  BY <1>3 DEF Direct!Both
<1>8. \A c \in Direct!Chambers : d.act[c] = IF c \in closed THEN "idle"
                                            ELSE IF c \in opened THEN s ELSE b.act[c]
  BY <1>3
<1>9. /\ \A t \in Direct!Sides : b.eng[t].open \subseteq b.eng[t].pending
                                 /\ b.eng[t].open \subseteq Direct!Chambers
      /\ \A t \in Direct!Sides \ {s} : b.eng[t].pending \cap b.eng[s].pending = {}
      /\ b.hold.open \cap b.eng[s].pending = {}
  <2>1. \A t \in Direct!Sides : b.eng[t].open \subseteq b.eng[t].pending
                                 /\ b.eng[t].open \subseteq Direct!Chambers
    BY <1>0 DEF Sound, Direct!EngineShape, Direct!Board, Direct!Engine
  <2>2. \A t \in Direct!Sides \ {s} : b.eng[t].pending \cap b.eng[s].pending = {}
    BY <1>0 DEF Sound, Apart, Direct!Sides
  <2> QED BY <1>0, <2>1, <2>2 DEF Sound, HoldsApart
<1>10. Seen(d)
  <2> SUFFICES ASSUME NEW t \in Direct!Sides, NEW k \in d.eng[t].open
               PROVE  <<k, t>> \in d.valve /\ d.act[k] = t
    BY DEF Seen
  <2>1. CASE t = s /\ k \in opened
    BY <1>2, <1>5, <1>7, <1>8, <2>1
  <2>2. CASE k \in b.eng[t].open
    <3>1. <<k, t>> \in b.valve /\ b.act[k] = t /\ k \in Direct!Chambers
      BY <1>9, <2>2 DEF Runs, Frame, Seen
    <3>2. k \notin closed \cup opened
      <4>1. CASE t = s BY <1>5, <1>6, <2>2, <4>1
      <4>2. CASE t # s BY <1>2, <1>9, <2>2, <4>2
      <4> QED BY <4>1, <4>2
    <3> QED BY <1>7, <1>8, <3>1, <3>2
  <2> QED BY <1>5, <1>6, <2>1, <2>2
<1>11. Watched(d)
  <2> SUFFICES ASSUME NEW k \in Direct!Chambers, d.act[k] # "idle"
               PROVE  k \in d.eng[d.act[k]].open
    BY DEF Watched
  <2>1. k \notin closed BY <1>8
  <2>2. CASE k \in opened BY <1>5, <1>6, <1>8, <2>1, <2>2
  <2>3. CASE k \notin opened
    <3>1. d.act[k] = b.act[k] BY <1>8, <2>1, <2>3
    <3>2. k \in b.eng[b.act[k]].open BY <3>1 DEF Runs, Frame, Watched
    <3>3. b.act[k] \in Direct!Sides BY <1>0, <3>1 DEF Direct!Board
    <3> QED BY <1>5, <1>6, <2>1, <3>1, <3>2, <3>3
  <2> QED BY <2>2, <2>3
<1>12. Held(d)
  <2> SUFFICES ASSUME NEW k \in b.hold.open PROVE <<k, Direct!HoldSide(b.hold, k)>> \in d.valve
    <3>1. d.hold = b.hold BY <1>3
    <3> QED BY <3>1 DEF Held, Direct!OpenHoldValves
  <2>1. <<k, Direct!HoldSide(b.hold, k)>> \in b.valve
    BY DEF Runs, Frame, Held, Direct!OpenHoldValves
  <2>2. Direct!HoldSide(b.hold, k) \in Direct!Sides /\ k \in Direct!Chambers
    BY <1>0 DEF Direct!HoldSide, Direct!Sides, Direct!Board
  <2>3. k \notin closed \cup opened BY <1>2, <1>9
  <2> QED BY <1>7, <2>1, <2>2, <2>3
<1>13. Bare(d) /\ Masked(d)
  BY <1>3 DEF Runs, Frame, Bare, Masked, HoldOpen
<1>14. e.open = b.eng[s].open => Pumping(d)
  <2> SUFFICES ASSUME e.open = b.eng[s].open PROVE Pumping(d) OBVIOUS
  <2>1. \A t \in Direct!Sides : d.eng[t].open = b.eng[t].open BY <1>6
  <2>2. opened = {} /\ closed = {} BY <1>5
  <2>3. \A t \in Direct!Sides : Open(d, t) = Open(b, t) BY <1>7, <2>2 DEF Open
  <2> QED BY <1>3, <2>1, <2>3 DEF Runs, Pumping
<1> QED BY <1>4, <1>10, <1>11, <1>12, <1>13, <1>14 DEF Frame, d

\* A tick that recalculates nothing moved no valve.
LEMMA SilentTick ==
  ASSUME NEW e \in Direct!Engine, Direct!EngineShape(e), NEW x \in Direct!TickOutcomes(e),
         Direct!MayBeSilent(e, x)
  PROVE  x.open = e.open
<1>1. CASE x = e BY <1>1
<1>2. CASE e.phase = "settling" /\ x.phase = "idle"
  <2>1. e.open = {} BY <1>2 DEF Direct!EngineShape
  <2>2. Direct!EngineShape(x) BY TickEngine
  <2>3. x.open = {} BY <1>2, <2>2 DEF Direct!EngineShape
  <2> QED BY <2>1, <2>3
<1> QED BY <1>1, <1>2 DEF Direct!MayBeSilent

LEMMA RunEngTicks ==
  ASSUME NEW b, Runs(b), NEW s \in Direct!Sides, NEW d \in Direct!EngTicks(b, s)
  PROVE  Runs(d)
<1>1. PICK e \in Direct!TickOutcomes(b.eng[s]) :
        \/ d = Direct!RecalcPumps(Direct!ActOn(b, s, e))
        \/ d = Direct!ActOn(b, s, e) /\ Direct!MayBeSilent(b.eng[s], e)
  BY DEF Direct!EngTicks
<1> DEFINE a == Direct!ActOn(b, s, e)
<1>2. Frame(a) /\ Masked(a) /\ (e.open = b.eng[s].open => Pumping(a)) BY RunActOn
<1>3. b.eng[s] \in Direct!Engine /\ Direct!EngineShape(b.eng[s])
  BY DEF Runs, Frame, Sound, Direct!Board
<1>4. d = Direct!RecalcPumps(a) \/ (d = a /\ Direct!MayBeSilent(b.eng[s], e)) BY <1>1
<1> HIDE DEF a
<1>5. CASE d = Direct!RecalcPumps(a)
  <2>1. Frame(d) /\ Pumping(d) /\ d.hold = a.hold /\ d.holdMask = a.holdMask
    BY <1>2, <1>5, RunRecalc
  <2>2. Masked(d) BY <1>2, <2>1 DEF Masked, HoldOpen
  <2> QED BY <2>1, <2>2 DEF Runs
<1>6. CASE d = a /\ Direct!MayBeSilent(b.eng[s], e)
  <2>1. e.open = b.eng[s].open BY <1>3, <1>6, SilentTick
  <2> QED BY <1>2, <1>6, <2>1 DEF Runs
<1> QED BY <1>4, <1>5, <1>6

LEMMA OffRuns ==
  ASSUME NEW b \in Direct!Board, Off(b)
  PROVE  Runs(b) /\ Mirrored(b)
<1>1. /\ \A s \in Direct!Sides : b.eng[s].open = {} /\ b.holdMask[s] = {} /\ b.duty[s] = "off"
      /\ b.hold.open = {} /\ b.valve = {} /\ \A c \in Direct!Chambers : b.act[c] = "idle"
  BY DEF Off, Direct!NoHold, Direct!IdleEngine
<1>2. Sound(b) BY OffSound
<1>3. Seen(b) /\ Watched(b) /\ Bare(b) BY <1>1 DEF Seen, Watched, Bare, Off
<1>4. Held(b) BY <1>1 DEF Held, Direct!OpenHoldValves
<1>5. Mirrored(b) /\ Masked(b) BY <1>1 DEF Mirrored, Masked, HoldOpen, Direct!OfSide
<1>6. Pumping(b) BY <1>1 DEF Pumping
<1> QED BY <1>2, <1>3, <1>4, <1>5, <1>6 DEF Runs, Frame

\* Without an override the manual safety tick has nothing to close.
LEMMA RunSafetyTick ==
  ASSUME NEW b, Runs(b), NEW past
  PROVE  LET b1 == [b EXCEPT
                      !.manPump = @ \ {},
                      !.duty = [s \in Direct!Sides |-> IF s \in {} THEN "off" ELSE @[s]]]
             b2 == Direct!DeadmanEach(b1, {})
             b3 == Direct!RecalcIf(b2, {} # {} /\ b2.manPump = {})
         IN  Direct!HardCut(Direct!HardCut(b3, "inflate", past["inflate"]),
                            "deflate", past["deflate"]) = b
<1> DEFINE f == [s \in Direct!Sides |-> IF s \in {} THEN "off" ELSE b.duty[s]]
           b1 == [b EXCEPT !.manPump = @ \ {}, !.duty = f]
           b2 == Direct!DeadmanEach(b1, {})
           b3 == Direct!RecalcIf(b2, {} # {} /\ b2.manPump = {})
<1>0. b \in Direct!Board /\ b.manPump = {} BY DEF Runs, Frame, Bare, Sound
<1>1. f = b.duty BY <1>0 DEF Direct!Board
<1> HIDE DEF f
<1>2. b1 = b
  <2>1. b.manPump \ {} = b.manPump OBVIOUS
  <2> QED BY <1>0, <1>1, <2>1 DEF Direct!Board
<1>3. Direct!DeadmanEach(b, {}) = b
  <2> DEFINE S == Direct!Chambers
             step == [c \in S |-> [x \in Direct!Board |-> Direct!DeadmanOf(x, c, {})]]
  <2>1. \A c \in S, x \in {b} : step[c][x] \in {b} BY <1>0 DEF Direct!DeadmanOf
  <2>2. S \in SUBSET Int /\ IsFiniteSet(S) BY ChambersFinite
  <2>3. Direct!ForEach(step, b, S) \in {b}
    <3> HIDE DEF step, S
    <3> QED BY <2>1, <2>2, ForEachKeeps
  <2> QED BY <2>3 DEF Direct!DeadmanEach
<1>4. b2 = b BY <1>2, <1>3
<1>5. b3 = b BY <1>4 DEF Direct!RecalcIf
<1>6. \A s, p : Direct!HardCut(b, s, p) = b BY <1>0 DEF Direct!HardCut
<1> HIDE DEF b3
<1>7. Direct!HardCut(Direct!HardCut(b3, "inflate", past["inflate"]),
                     "deflate", past["deflate"]) = b
  BY <1>5, <1>6
<1> QED BY <1>7 DEF b3, b2, b1, f

-----------------------------------------------------------------------------
(* The invariant of a running activity *)

RunInv == Direct!Runtime => Runs(board) /\ (Resting => Mirrored(board))

\* While commands are taken, or a pass is under way, nothing need be mirrored.
LEMMA RunMoving ==
  ASSUME Runs(board'), at' \in {"commands", "hold"}
  PROVE  RunInv'
BY DEF RunInv, Resting, Direct!Settled

LEMMA RunCommand ==
  ASSUME DirectInv, RunInv, scene' = scene, Direct!Command \/ Direct!CmdHoldDutyOffAll
  PROVE  RunInv'
<1> SUFFICES ASSUME Direct!Runtime PROVE Runs(board') /\ at' = "commands"
  BY RunMoving DEF RunInv, Direct!Runtime
<1>0. /\ Runs(board) /\ board \in Direct!Board /\ scene.to \in SUBSET Direct!Chambers
      /\ \A S \in Direct!Targets : S \in SUBSET Direct!Chambers
  BY SceneTypes DEF RunInv, DirectInv, Sound
<1>1. CASE Direct!CmdInflateDeflate
  <2>1. PICK S \in Direct!Targets, s \in Direct!Sides :
          \E f \in [S -> {s, "none"}] : Direct!Between(Direct!ApplyEach(board, S, f))
    BY <1>1 DEF Direct!CmdInflateDeflate
  <2>2. PICK f \in [S -> {s, "none"}] : Direct!Between(Direct!ApplyEach(board, S, f))
    BY <2>1
  <2>3. f \in [S -> Direct!Sides \cup {"none", "hold"}] OBVIOUS
  <2>4. Runs(Direct!ApplyEach(board, S, f)) BY <1>0, <2>3, RunApplyEach
  <2> QED BY <2>2, <2>4 DEF Direct!Between
<1>2. CASE Direct!CmdSetPressure
  <2>1. PICK S \in Direct!Targets :
          \E f \in [S -> Direct!Sides \cup {"hold"}] : Direct!Between(Direct!ApplyEach(board, S, f))
    BY <1>2 DEF Direct!CmdSetPressure
  <2>2. PICK f \in [S -> Direct!Sides \cup {"hold"}] : Direct!Between(Direct!ApplyEach(board, S, f))
    BY <2>1
  <2>3. f \in [S -> Direct!Sides \cup {"none", "hold"}] OBVIOUS
  <2>4. Runs(Direct!ApplyEach(board, S, f)) BY <1>0, <2>3, RunApplyEach
  <2> QED BY <2>2, <2>4 DEF Direct!Between
<1>3. CASE Direct!CmdHold
  <2>1. PICK S \in Direct!Targets : Direct!Between(Direct!HoldEach(board, S))
    BY <1>3 DEF Direct!CmdHold
  <2>2. Runs(Direct!HoldEach(board, S)) BY <1>0, RunHoldEach
  <2> QED BY <2>1, <2>2 DEF Direct!Between
<1>4. CASE Direct!CmdLimit
  <2>1. PICK c \in scene.to : Direct!Between(Direct!HoldChamber(board, c))
    BY <1>4 DEF Direct!CmdLimit
  <2>2. Runs(Direct!HoldChamber(board, c)) BY <1>0, RunHoldChamber
  <2> QED BY <2>1, <2>2 DEF Direct!Between
<1>5. CASE Direct!CmdHoldDuty
  <2>1. PICK S \in Direct!Targets, s \in Direct!Sides :
          Direct!Between(Direct!HoldDutyEach(board, S, s))
    BY <1>5 DEF Direct!CmdHoldDuty
  <2>2. Runs(Direct!HoldDutyEach(board, S, s)) BY <1>0, RunHoldDutyEach
  <2> QED BY <2>1, <2>2 DEF Direct!Between
<1>6. CASE Direct!CmdHoldDutyOff
  <2>1. PICK c \in scene.to : Direct!Between(Direct!HoldDrop(board, c))
    BY <1>6 DEF Direct!CmdHoldDutyOff
  <2>2. {c} \in SUBSET Direct!Chambers BY <1>0
  <2>3. Runs(Direct!HoldDrop(board, c)) BY <1>0, <2>2, RunHoldDropAll DEF Direct!HoldDrop
  <2> QED BY <2>1, <2>3 DEF Direct!Between
<1>7. CASE Direct!CmdHoldDutyOffAll
  <2>1. board.hold.open = {} /\ \A s \in Direct!Sides : board.holdMask[s] = {}
    BY <1>7 DEF Direct!CmdHoldDutyOffAll, Direct!Accepting, Direct!Runtime
  <2>2. Runs(Direct!HoldAbort(board)) BY <1>0, <2>1, RunHoldAbort
  <2> QED BY <1>7, <2>2 DEF Direct!CmdHoldDutyOffAll, Direct!Between
<1>8. CASE Direct!CmdStop
  <2> DEFINE b == [board EXCEPT !.stopped = TRUE]
             d == Direct!EmergencyStopAll(b)
  <2>1. b \in Direct!Board BY <1>0 DEF Direct!Board
  <2>2. board' = d /\ at' = "commands" BY <1>8 DEF Direct!CmdStop, Direct!Between
  <2> HIDE DEF b
  <2>3. d \in Direct!Board /\ Off(d) BY <2>1, StopIsOff
  <2> HIDE DEF d
  <2> QED BY <2>2, <2>3, OffRuns
<1>9. CASE Direct!CmdResume
  <2>1. board' \in Direct!Board /\ Off(board')
    <3>1. Off(board) /\ board' = [board EXCEPT !.stopped = FALSE]
      BY <1>9 DEF Direct!CmdResume, Direct!Between, DirectInv
    <3> QED BY <1>0, <3>1 DEF Off, Direct!Board
  <2> QED BY <1>9, <2>1, OffRuns DEF Direct!CmdResume, Direct!Between
<1>10. ~(\/ Direct!CmdValveManual \/ Direct!CmdPumpManual \/ Direct!CmdVent
         \/ Direct!CmdTestRun \/ Direct!CmdTestStop)
  BY DEF Direct!CmdValveManual, Direct!CmdPumpManual, Direct!CmdVent, Direct!CmdTestRun,
     Direct!CmdTestStop, Direct!Accepting, Direct!Runtime
<1> QED BY <1>1, <1>2, <1>3, <1>4, <1>5, <1>6, <1>7, <1>8, <1>9, <1>10 DEF Direct!Command

LEMMA RunPass ==
  ASSUME DirectInv, RunInv, Direct!Pass, scene' = scene
  PROVE  RunInv'
<1> SUFFICES ASSUME Direct!Runtime PROVE Runs(board') /\ (Resting' => Mirrored(board'))
  BY DEF RunInv, Direct!Runtime
<1>0. /\ Runs(board) /\ board \in Direct!Board /\ Sound(board) /\ board.test = Direct!NoTest
      /\ scene.to \in SUBSET Direct!Chambers
  BY SceneTypes DEF RunInv, DirectInv, Sound, Runs, Frame, Bare
<1>1. CASE Direct!LatchedPass
  <2> DEFINE d == Direct!EmergencyStopAll(board)
  <2>1. board' = d BY <1>1 DEF Direct!LatchedPass
  <2>2. d \in Direct!Board /\ Off(d) BY <1>0, StopIsOff
  <2> HIDE DEF d
  <2> QED BY <2>1, <2>2, OffRuns
<1>2. ~Direct!TestPass BY <1>0 DEF Direct!TestPass
<1>3. CASE Direct!ControlTick
  <2>1. PICK b1 \in Direct!EngTicks(board, "inflate") : board' \in Direct!EngTicks(b1, "deflate")
    BY <1>0, <1>3 DEF Direct!ControlTick
  <2>2. Runs(b1) BY <1>0, <2>1, RunEngTicks DEF Direct!Sides
  <2>3. Runs(board') BY <2>1, <2>2, RunEngTicks DEF Direct!Sides
  <2>4. ~Resting' BY <1>3 DEF Direct!ControlTick, Resting, Direct!Settled
  <2> QED BY <2>3, <2>4
<1>4. CASE Direct!HoldTick
  <2>1. PICK expired \in SUBSET board.hold.active, retuned \in BOOLEAN :
          LET b == Direct!HoldDropAll(board, expired)
          IN  CASE b.hold.active = {} ->
                     board' = Direct!HoldMirror([b EXCEPT !.hold = Direct!NoHold], FALSE)
                [] b.hold.active # {} /\ Direct!Busy(b) ->
                     board' = Direct!HoldMirror(Direct!HoldSuspend(b), FALSE)
                [] OTHER ->
                     \/ board' = Direct!HoldMirror(b, FALSE)
                     \/ \E want \in SUBSET b.hold.active :
                          board' = Direct!HoldMirror(Direct!HoldApply(b, want), retuned /\ want # {})
    BY <1>4 DEF Direct!HoldTick
  <2> DEFINE b == Direct!HoldDropAll(board, expired)
  <2>2. /\ b.hold.active = {} => board' = Direct!HoldMirror([b EXCEPT !.hold = Direct!NoHold], FALSE)
        /\ b.hold.active # {} /\ Direct!Busy(b) =>
             board' = Direct!HoldMirror(Direct!HoldSuspend(b), FALSE)
        /\ b.hold.active # {} /\ ~Direct!Busy(b) =>
             \/ board' = Direct!HoldMirror(b, FALSE)
             \/ \E want \in SUBSET b.hold.active :
                  board' = Direct!HoldMirror(Direct!HoldApply(b, want), retuned /\ want # {})
    BY <2>1
  <2>3. expired \in SUBSET Direct!Chambers BY <1>0 DEF Direct!Board
  <2>4. Runs(b) BY <1>0, <2>3, RunHoldDropAll
  <2> HIDE DEF b
  <2>5. \E x, r : r \in BOOLEAN /\ Frame(x) /\ Pumping(x) /\ board' = Direct!HoldMirror(x, r)
    <3>1. CASE b.hold.active = {} BY <2>2, <2>4, <3>1, RunHoldTicks
    <3>2. CASE b.hold.active # {} /\ Direct!Busy(b) BY <2>2, <2>4, <3>2, RunHoldTicks
    <3>3. CASE b.hold.active # {} /\ ~Direct!Busy(b) /\ board' = Direct!HoldMirror(b, FALSE)
      BY <2>4, <3>3 DEF Runs
    <3>4. ASSUME ~Direct!Busy(b), NEW want \in SUBSET b.hold.active,
                 board' = Direct!HoldMirror(Direct!HoldApply(b, want), retuned /\ want # {})
          PROVE  \E x, r : r \in BOOLEAN /\ Frame(x) /\ Pumping(x) /\ board' = Direct!HoldMirror(x, r)
      <4>1. Frame(Direct!HoldApply(b, want)) /\ Pumping(Direct!HoldApply(b, want))
        BY <2>4, <3>4, RunHoldTicks
      <4>2. (retuned /\ want # {}) \in BOOLEAN OBVIOUS
      <4> QED BY <3>4, <4>1, <4>2
    <3> QED BY <2>2, <3>1, <3>2, <3>3, <3>4
  <2> QED BY <2>5, RunHoldMirror
<1>5. CASE Direct!ManualSafetyTick
  <2>1. PICK pumps \in SUBSET board.manPump, valves \in SUBSET board.manValve,
             past \in [Direct!Sides -> SUBSET scene.to] :
          LET b1 == [board EXCEPT
                       !.manPump = @ \ pumps,
                       !.duty = [s \in Direct!Sides |-> IF s \in pumps THEN "off" ELSE @[s]]]
              b2 == Direct!DeadmanEach(b1, valves)
              b3 == Direct!RecalcIf(b2, valves # {} /\ b2.manPump = {})
          IN  board' = Direct!HardCut(Direct!HardCut(b3, "inflate", past["inflate"]),
                                      "deflate", past["deflate"])
    BY <1>5 DEF Direct!ManualSafetyTick
  <2>2. pumps = {} /\ valves = {} BY <1>0 DEF Runs, Frame, Bare
  <2>3. board' = board BY <1>0, <2>1, <2>2, RunSafetyTick
  <2>4. Resting BY <1>5 DEF Direct!ManualSafetyTick, Resting
  <2> QED BY <1>0, <2>3, <2>4 DEF RunInv
<1>6. CASE Direct!ActuationWatchdog
  <2>1. PICK S \in SUBSET {c \in Direct!Chambers : board.act[c] # "idle"} :
          board' = Direct!HoldEach(board, S)
    BY <1>6 DEF Direct!ActuationWatchdog
  <2>2. S \in SUBSET Direct!Chambers OBVIOUS
  <2>3. /\ Runs(board') /\ board'.holdMask = board.holdMask /\ (S = {} => board' = board)
        /\ board'.hold.open \subseteq board.hold.open
    BY <1>0, <2>1, <2>2, RunHoldEach, CalmsHoldEach DEF Calms
  <2>4. Mirrored(board) /\ Yielding(board)
    BY <1>6 DEF Direct!ActuationWatchdog, Resting, RunInv, DirectInv
  <2>5. CASE S # {}
    <3>1. PICK c \in Direct!Chambers : board.act[c] # "idle" BY <2>5
    <3>2. c \in board.eng[board.act[c]].open /\ board.act[c] \in Direct!Sides
      BY <1>0, <3>1 DEF Runs, Frame, Watched, Direct!Board
    <3>3. board.eng[board.act[c]].phase # "idle"
      BY <1>0, <3>2 DEF Sound, Direct!EngineShape
    <3>4. board.hold.open = {} BY <2>4, <3>2, <3>3 DEF Yielding, Direct!Busy
    <3>5. board'.hold.open = {} BY <2>3, <3>4
    <3>6. Mirrored(board') BY <2>3, <2>4, <3>4, <3>5 DEF Mirrored, HoldOpen, Direct!OfSide
    <3> QED BY <2>3, <3>6
  <2>6. CASE S = {} BY <2>3, <2>4, <2>6
  <2> QED BY <2>5, <2>6
<1> QED BY <1>1, <1>2, <1>3, <1>4, <1>5, <1>6 DEF Direct!Pass

LEMMA RunInit == ASSUME Direct!Init PROVE RunInv
<1>1. board \in Direct!Board /\ Off(board)
  BY DirectInit DEF DirectInv, Sound, Direct!Init, Direct!BootBoard, Off
<1> QED BY <1>1, OffRuns DEF RunInv

LEMMA RunNext == ASSUME DirectInv, RunInv, Direct!Next PROVE RunInv'
BY RunCommand, RunPass DEF Direct!Next

LEMMA RunStay == ASSUME RunInv, UNCHANGED directVars PROVE RunInv'
BY DEF RunInv, directVars, Direct!Runtime, Resting, Direct!Settled

\* What it says of a finished pass.
LEMMA DirectAgrees ==
  ASSUME DirectInv, RunInv, forgotten \subseteq board.valve
  PROVE  Direct!RecordsAgree
<1>1. Direct!TypeOK BY DEF DirectInv, Sound, Loop, Direct!TypeOK
<1> SUFFICES ASSUME Direct!Runtime, Direct!Settled, NEW s \in Direct!Sides
             PROVE  /\ \A c \in board.eng[s].open : <<c, s>> \in board.valve /\ board.act[c] = s
                    /\ board.duty[s] # "off" => \E c \in Direct!Chambers : <<c, s>> \in board.valve
                    /\ board.eng[s].open # {} =>
                         board.duty[s] \in (IF s = "deflate" THEN {"full", "floor"} ELSE {"full"})
                    /\ board.holdMask[s] = Direct!OfSide(board.hold, board.hold.open, s)
                    /\ board.duty[s] = "hold" => Direct!OfSide(board.hold, board.hold.open, s) # {}
  BY <1>1 DEF Direct!RecordsAgree, Direct!EngineSeesValves, Direct!NoDryPump,
     Direct!RoundIsPumped, Direct!HoldMirrored
<1>2. Runs(board) /\ Mirrored(board) /\ Yielding(board) /\ Sound(board)
  BY DEF RunInv, DirectInv, Resting
<1>3. HoldOpen(board, s) = board.holdMask[s] BY <1>2 DEF Mirrored
<1>4. HoldOpen(board, s) \subseteq Open(board, s)
  <2> SUFFICES ASSUME NEW c \in HoldOpen(board, s) PROVE c \in Open(board, s) OBVIOUS
  <2>1. c \in board.hold.open /\ s = Direct!HoldSide(board.hold, c)
    BY DEF HoldOpen, Direct!OfSide
  <2>2. c \in Direct!Chambers BY <1>2, <2>1 DEF Sound, Direct!Board
  <2> QED BY <1>2, <2>1, <2>2 DEF Runs, Frame, Held, Direct!OpenHoldValves, Open
<1>5. \A c \in board.eng[s].open : <<c, s>> \in board.valve /\ board.act[c] = s
  BY <1>2 DEF Runs, Frame, Seen
<1>6. board.duty[s] # "off" => \E c \in Direct!Chambers : <<c, s>> \in board.valve
  BY <1>2, <1>3, <1>4 DEF Runs, Pumping, Open
<1>7. ASSUME board.eng[s].open # {}
      PROVE  board.duty[s] \in (IF s = "deflate" THEN {"full", "floor"} ELSE {"full"})
  <2>1. board.eng[s].phase # "idle" BY <1>2, <1>7 DEF Sound, Direct!EngineShape
  <2>2. board.hold.open = {} BY <1>2, <2>1 DEF Yielding, Direct!Busy
  <2>3. board.holdMask[s] = {} BY <1>3, <2>2 DEF HoldOpen, Direct!OfSide
  <2> QED BY <1>2, <1>7, <2>3 DEF Runs, Pumping
<1>8. board.duty[s] = "hold" => board.holdMask[s] # {} BY <1>2 DEF Runs, Pumping
<1> QED BY <1>3, <1>5, <1>6, <1>7, <1>8 DEF HoldOpen

-----------------------------------------------------------------------------
(* The multiplexed board: its engines and lines *)

LEMMA MuxDropEngine ==
  ASSUME NEW e \in Mux!Engine, Mux!EngineShape(e), NEW c
  PROVE  /\ Mux!Drop(e, c) \in Mux!Engine /\ Mux!EngineShape(Mux!Drop(e, c))
         /\ Mux!Drop(e, c).pending = e.pending \ {c}
         /\ Mux!Drop(e, c).open = e.open \ {c}
         /\ Mux!Drop(e, c).phase # "idle" => e.phase # "idle"
BY DEF Mux!Drop, Mux!Engine, Mux!EngineShape, Mux!Phases

LEMMA MuxRequestEngine ==
  ASSUME NEW e \in Mux!Engine, Mux!EngineShape(e), NEW c \in Mux!Chambers
  PROVE  /\ Mux!Request(e, c) \in Mux!Engine /\ Mux!EngineShape(Mux!Request(e, c))
         /\ Mux!Request(e, c).pending = e.pending \cup {c}
         /\ Mux!Request(e, c).open = e.open
BY DEF Mux!Request, Mux!Engine, Mux!EngineShape, Mux!Phases

LEMMA MuxIdleIsEngine ==
  Mux!IdleEngine \in Mux!Engine /\ Mux!EngineShape(Mux!IdleEngine)
BY DEF Mux!IdleEngine, Mux!Engine, Mux!EngineShape, Mux!Phases

\* A tick closes valves, opens some of those wanted, and forgets some wishes.
LEMMA MuxTickEngine ==
  ASSUME NEW e \in Mux!Engine, Mux!EngineShape(e), NEW x \in Mux!TickOutcomes(e)
  PROVE  /\ x \in Mux!Engine /\ Mux!EngineShape(x)
         /\ x.pending \subseteq e.pending
         /\ x.open \subseteq e.open \/ e.open = {}
<1>1. Mux!IdleEngine \in Mux!Engine /\ Mux!EngineShape(Mux!IdleEngine)
      /\ Mux!IdleEngine.pending = {} /\ Mux!IdleEngine.open = {}
  BY MuxIdleIsEngine DEF Mux!IdleEngine
<1>2. CASE e.phase = "idle" BY <1>2 DEF Mux!TickOutcomes
<1>3. CASE e.phase = "grouping"
  BY <1>1, <1>3 DEF Mux!TickOutcomes, Mux!GroupOutcomes, Mux!OpenRound, Mux!Engine,
     Mux!EngineShape, Mux!Phases
<1>4. CASE e.phase = "filling"
  BY <1>1, <1>4 DEF Mux!TickOutcomes, Mux!FillOutcomes, Mux!Engine,
     Mux!EngineShape, Mux!Phases
<1>5. CASE e.phase = "settling"
  BY <1>1, <1>5 DEF Mux!TickOutcomes, Mux!SettleOutcomes, Mux!OpenRound, Mux!Engine,
     Mux!EngineShape, Mux!Phases
<1> QED BY <1>2, <1>3, <1>4, <1>5 DEF Mux!Engine, Mux!Phases

LEMMA MuxConstants ==
  /\ Mux!Chambers \subseteq Nat /\ IsFiniteSet(Mux!Chambers)
  /\ DOMAIN Manifolds \subseteq Nat /\ IsFiniteSet(DOMAIN Manifolds)
  /\ \A g, k \in DOMAIN Manifolds : g # k => Manifolds[g] \cap Manifolds[k] = {}
  /\ \A g \in DOMAIN Manifolds : Manifolds[g] \subseteq Mux!Chambers
  /\ \A x \in MuxScenes : x.to \in SUBSET Mux!Chambers
<1>1. \A g \in DOMAIN Manifolds : Manifolds[g] \subseteq Mux!Chambers BY DEF Mux!Chambers
<1>2. Mux!Parameters BY NodeAssumption
<1>6. \A S : Mux!IsFiniteSet(S) => IsFiniteSet(S) BY DEF IsFiniteSet, Mux!IsFiniteSet
<1>3. /\ Mux!Chambers \subseteq Nat /\ Mux!IsFiniteSet(Mux!Chambers)
      /\ DOMAIN Manifolds \subseteq Nat /\ Mux!IsFiniteSet(DOMAIN Manifolds)
      /\ MuxScenes \subseteq [commands : SUBSET Mux!CommandGroups, to : SUBSET Mux!Chambers]
  BY <1>2 DEF Mux!Parameters
<1>4. \A g, k \in DOMAIN Manifolds : g # k => Manifolds[g] \cap Manifolds[k] = {}
  BY <1>2 DEF Mux!Parameters
<1>5. \A x \in MuxScenes : x.to \in SUBSET Mux!Chambers BY <1>3
<1> QED BY <1>1, <1>3, <1>4, <1>5, <1>6

\* A chamber hangs on one group, and so on one line per side.
LEMMA LineIs ==
  ASSUME NEW c \in Mux!Chambers, NEW s \in Mux!Sides
  PROVE  /\ Mux!LineOf(c, s) \in Mux!Lines
         /\ c \in Manifolds[Mux!LineOf(c, s)[1]] /\ Mux!LineOf(c, s)[2] = s
         /\ \A l \in Mux!Lines : c \in Manifolds[l[1]] /\ l[2] = s => l = Mux!LineOf(c, s)
<1>1. PICK g \in DOMAIN Manifolds : c \in Manifolds[g] BY DEF Mux!Chambers
<1>2. <<g, s>> \in Mux!Lines /\ <<g, s>>[1] = g /\ <<g, s>>[2] = s BY DEF Mux!Lines
<1>3. \E l \in Mux!Lines : c \in Manifolds[l[1]] /\ l[2] = s BY <1>1, <1>2
<1>4. /\ Mux!LineOf(c, s) \in Mux!Lines
      /\ c \in Manifolds[Mux!LineOf(c, s)[1]] /\ Mux!LineOf(c, s)[2] = s
  BY <1>3 DEF Mux!LineOf
<1> HIDE DEF Mux!LineOf
<1>5. ASSUME NEW l \in Mux!Lines, NEW k \in Mux!Lines, c \in Manifolds[l[1]], l[2] = s,
             c \in Manifolds[k[1]], k[2] = s
      PROVE  l = k
  <2>1. PICK g1 \in DOMAIN Manifolds, s1 \in Mux!Sides : l = <<g1, s1>> BY DEF Mux!Lines
  <2>2. PICK g2 \in DOMAIN Manifolds, s2 \in Mux!Sides : k = <<g2, s2>> BY DEF Mux!Lines
  <2>3. g1 = g2 BY <1>5, <2>1, <2>2, MuxConstants
  <2> QED BY <1>5, <2>1, <2>2, <2>3
<1> QED BY <1>4, <1>5

\* Two lines that could claim one chamber are the two sides of one group.
LEMMA LinesApart ==
  ASSUME NEW k \in Mux!Lines, NEW l \in Mux!Lines, k # l,
         NEW c, c \in Manifolds[k[1]], c \in Manifolds[l[1]]
  PROVE  k[1] = l[1] /\ k[2] # l[2]
<1>1. PICK g1 \in DOMAIN Manifolds, s1 \in Mux!Sides : k = <<g1, s1>> BY DEF Mux!Lines
<1>2. PICK g2 \in DOMAIN Manifolds, s2 \in Mux!Sides : l = <<g2, s2>> BY DEF Mux!Lines
<1>3. g1 = g2 BY <1>1, <1>2, MuxConstants
<1> QED BY <1>1, <1>2, <1>3

-----------------------------------------------------------------------------
(* The multiplexed board: what every command and pass keeps *)

\* A line wants only chambers of its own group, and one side at a time.
OwnChambers(b) ==
  /\ \A l \in Mux!Lines : /\ Mux!EngineShape(b.eng[l])
                          /\ b.eng[l].pending \subseteq Manifolds[l[1]]
  /\ \A k, l \in Mux!Lines : k[1] = l[1] /\ k[2] # l[2] => b.eng[k].pending \cap b.eng[l].pending = {}
MuxAlone(b) ==
  /\ b.manual => /\ \A l \in Mux!Lines : b.eng[l] = Mux!IdleEngine
                 /\ \A c \in Mux!Chambers : b.act[c] = "idle"
  /\ ~b.manual => b.manPump = {} /\ b.manValve = {} /\ b.vent = {}
MuxOwned(b) ==
  \A c \in Mux!Chambers, s \in Mux!Sides : <<c, s>> \in b.valve =>
    \/ c \in b.eng[Mux!LineOf(c, s)].open
    \/ b.manual /\ <<c, s>> \in b.manValve
SeenOpen(b) ==
  \A l \in Mux!Lines : \A c \in b.eng[l].open : <<c, l[2]>> \in b.valve /\ b.act[c] = l[2]
MuxVentFlag(b) ==
  \A c \in Mux!Chambers :
    <<c, "inflate">> \in b.manValve /\ <<c, "deflate">> \in b.manValve => c \in b.vent
MuxSound(b) == /\ b \in Mux!Board /\ OwnChambers(b) /\ MuxAlone(b) /\ MuxOwned(b)
               /\ SeenOpen(b) /\ MuxVentFlag(b)

\* Without an override the pumps are those of the open valves.
Pumped(b) == ~b.manual => b.pump = {l \in Mux!Lines : Mux!Feeds(l, b.valve, b.vent)}

MuxKeeps(b, d) == /\ MuxSound(d)
                  /\ d.manual = b.manual /\ d.stopped = b.stopped
                  /\ d.configured = b.configured

LEMMA MuxKeepsTrans ==
  ASSUME NEW b, NEW d, NEW e, MuxKeeps(b, d), MuxKeeps(d, e)
  PROVE  MuxKeeps(b, e)
BY DEF MuxKeeps

LEMMA MuxRecalc ==
  ASSUME NEW b, MuxSound(b)
  PROVE  MuxKeeps(b, Mux!RecalcPumps(b)) /\ Pumped(Mux!RecalcPumps(b))
<1> DEFINE d == Mux!RecalcPumps(b)
<1>1. /\ d \in Mux!Board /\ d.eng = b.eng /\ d.valve = b.valve /\ d.act = b.act
      /\ d.manual = b.manual /\ d.manPump = b.manPump /\ d.manValve = b.manValve
      /\ d.vent = b.vent /\ d.stopped = b.stopped /\ d.configured = b.configured
      /\ d.pump = {l \in Mux!Lines : Mux!Feeds(l, b.valve, b.vent)}
  BY DEF MuxSound, Mux!Board, Mux!RecalcPumps
<1> HIDE DEF d
<1>2. MuxSound(d)
  BY <1>1 DEF MuxSound, OwnChambers, MuxAlone, MuxOwned, SeenOpen, MuxVentFlag
<1>3. Pumped(d) BY <1>1 DEF Pumped
<1> QED BY <1>1, <1>2, <1>3 DEF MuxKeeps, d

\* The line of an open chamber.
LEMMA OpenOnLine ==
  ASSUME NEW b, MuxSound(b), NEW l \in Mux!Lines, NEW c \in b.eng[l].pending
  PROVE  /\ c \in Mux!Chambers /\ c \in Manifolds[l[1]] /\ l[2] \in Mux!Sides
         /\ l = Mux!LineOf(c, l[2])
<1>1. c \in Manifolds[l[1]] BY DEF MuxSound, OwnChambers
<1>2. l[1] \in DOMAIN Manifolds /\ l[2] \in Mux!Sides BY DEF Mux!Lines
<1>3. c \in Mux!Chambers BY <1>1, <1>2, MuxConstants
<1> QED BY <1>1, <1>2, <1>3, LineIs

LEMMA MuxEngine ==
  ASSUME NEW b, MuxSound(b), NEW l \in Mux!Lines
  PROVE  /\ b.eng[l] \in Mux!Engine /\ Mux!EngineShape(b.eng[l])
         /\ b.eng[l].open \subseteq b.eng[l].pending
         /\ b.eng[l].pending \subseteq Manifolds[l[1]]
BY DEF MuxSound, OwnChambers, Mux!EngineShape, Mux!Board

LEMMA MuxEngDrop ==
  ASSUME NEW b, MuxSound(b), NEW c \in Mux!Chambers, NEW s \in Mux!Sides
  PROVE  LET d == Mux!EngDrop(b, c, s)
             l == Mux!LineOf(c, s)
         IN  /\ MuxKeeps(b, d) /\ c \notin d.eng[l].pending
             /\ \A k \in Mux!Lines \ {l} : d.eng[k] = b.eng[k]
             /\ d.pump = b.pump /\ d.vent = b.vent
             /\ c \notin b.eng[l].open => d.valve = b.valve
<1> DEFINE l == Mux!LineOf(c, s)
           S == b.eng[l].open \cap {c}
           d == [b EXCEPT !.eng[l] = Mux!Drop(@, c), !.valve = @ \ Mux!Both(S),
                   !.act = [k \in Mux!Chambers |-> IF k \in S THEN "idle" ELSE @[k]]]
<1>0. b \in Mux!Board BY DEF MuxSound
<1>1. l \in Mux!Lines /\ c \in Manifolds[l[1]] BY LineIs
<1>2. Mux!EngDrop(b, c, s) = d
  <2>1. CASE c \in b.eng[l].open
    <3>1. S = {c} BY <2>1
    <3> QED BY <1>0, <2>1, <3>1 DEF Mux!EngDrop, Mux!Stop, Mux!StopAll, Mux!Board
  <2>2. CASE c \notin b.eng[l].open
    <3>1. S = {} BY <2>2
    <3>2. Mux!Both(S) = {} BY <3>1 DEF Mux!Both
    <3>3. b.act = [k \in Mux!Chambers |-> IF k \in S THEN "idle" ELSE b.act[k]]
      BY <1>0, <3>1 DEF Mux!Board
    <3> QED BY <1>0, <2>2, <3>2, <3>3 DEF Mux!EngDrop, Mux!Board
  <2> QED BY <2>1, <2>2
<1>3. \A k \in Mux!Lines \ {l} : c \notin S \/ c \notin b.eng[k].open
  <2> SUFFICES ASSUME NEW k \in Mux!Lines, k # l, c \in b.eng[l].open, c \in b.eng[k].open
               PROVE  FALSE
    OBVIOUS
  <2>1. c \in b.eng[l].pending /\ c \in b.eng[k].pending /\ c \in Manifolds[k[1]]
    BY <1>1, MuxEngine
  <2>2. k[1] = l[1] /\ k[2] # l[2] BY <1>1, <2>1, LinesApart
  <2> QED BY <1>1, <2>1, <2>2 DEF MuxSound, OwnChambers
<1>4. S \in SUBSET {c} /\ b.eng[l].open \cap {c} \subseteq S
      /\ (c \notin b.eng[l].open => b.valve \ Mux!Both(S) = b.valve)
  BY DEF Mux!Both
<1>5. /\ d = [b EXCEPT !.eng = d.eng, !.valve = d.valve, !.act = d.act]
      /\ d.eng = [b.eng EXCEPT ![l] = Mux!Drop(b.eng[l], c)]
      /\ d.valve = b.valve \ Mux!Both(S)
      /\ d.act \in [Mux!Chambers -> {"idle"} \cup Mux!Sides]
      /\ \A k \in Mux!Chambers : d.act[k] = IF k \in S THEN "idle" ELSE b.act[k]
  BY <1>0 DEF Mux!Board
<1> DEFINE e == Mux!Drop(b.eng[l], c)
<1> HIDE DEF S, l, d
<1>7. b \in Mux!Board /\ b.eng \in [Mux!Lines -> Mux!Engine]
      /\ b.act \in [Mux!Chambers -> {"idle"} \cup Mux!Sides]
  BY DEF MuxSound, Mux!Board
<1>8. /\ e \in Mux!Engine /\ Mux!EngineShape(e)
      /\ e.pending = b.eng[l].pending \ {c} /\ e.open = b.eng[l].open \ {c}
  BY <1>1, MuxEngine, MuxDropEngine
<1>9. b.eng[l] = Mux!IdleEngine => e = Mux!IdleEngine
  BY DEF Mux!Drop, Mux!IdleEngine
<1> HIDE DEF e
<1>10. /\ d.eng = [b.eng EXCEPT ![l] = e] /\ d.valve = b.valve \ Mux!Both(S)
       /\ \A k \in Mux!Chambers : d.act[k] = IF k \in S THEN "idle" ELSE b.act[k]
       /\ d.pump = b.pump /\ d.manual = b.manual /\ d.manPump = b.manPump
       /\ d.manValve = b.manValve /\ d.vent = b.vent
       /\ d.stopped = b.stopped /\ d.configured = b.configured
  <2>1. d.eng = [b.eng EXCEPT ![l] = e] BY <1>5 DEF e
  <2>2. /\ d.pump = b.pump /\ d.manual = b.manual /\ d.manPump = b.manPump
        /\ d.manValve = b.manValve /\ d.vent = b.vent
        /\ d.stopped = b.stopped /\ d.configured = b.configured
    BY <1>0 DEF d, Mux!Board
  <2> QED BY <1>5, <2>1, <2>2
<1>11. d \in Mux!Board
  <2>1. d.eng \in [Mux!Lines -> Mux!Engine] BY <1>7, <1>8, <1>10
  <2>3. d.valve \in SUBSET Mux!Both(Mux!Chambers) BY <1>7, <1>10 DEF Mux!Board
  <2> QED BY <1>5, <1>7, <1>10, <2>1, <2>3 DEF Mux!Board
<1>12. d.eng[l] = e /\ \A k \in Mux!Lines \ {l} : d.eng[k] = b.eng[k] BY <1>1, <1>7, <1>10
<1>13. \A k, t : <<k, t>> \in Mux!Both(S) <=> k \in S /\ t \in Mux!Sides BY DEF Mux!Both
<1>14. OwnChambers(d)
  <2>1. \A k \in Mux!Lines : d.eng[k].pending \subseteq b.eng[k].pending BY <1>8, <1>12
  <2>2. \A k \in Mux!Lines : Mux!EngineShape(d.eng[k]) BY <1>8, <1>12, MuxEngine
  <2> QED BY <2>1, <2>2 DEF MuxSound, OwnChambers
<1>15. MuxAlone(d) BY <1>9, <1>10, <1>12 DEF MuxSound, MuxAlone
<1>16. MuxOwned(d)
  <2> SUFFICES ASSUME NEW k \in Mux!Chambers, NEW t \in Mux!Sides, <<k, t>> \in d.valve
               PROVE  \/ k \in d.eng[Mux!LineOf(k, t)].open
                      \/ d.manual /\ <<k, t>> \in d.manValve
    BY DEF MuxOwned
  <2>1. <<k, t>> \in b.valve /\ k \notin S BY <1>10, <1>13
  <2>2. CASE b.manual /\ <<k, t>> \in b.manValve BY <1>10, <2>2
  <2>3. CASE k \in b.eng[Mux!LineOf(k, t)].open
    <3>1. Mux!LineOf(k, t) \in Mux!Lines BY LineIs
    <3>2. CASE Mux!LineOf(k, t) = l BY <1>4, <1>8, <1>12, <2>1, <2>3, <3>2
    <3>3. CASE Mux!LineOf(k, t) # l BY <1>12, <2>3, <3>1, <3>3
    <3> QED BY <3>2, <3>3
  <2> QED BY <2>1, <2>2, <2>3 DEF MuxSound, MuxOwned
<1>17. SeenOpen(d)
  <2> SUFFICES ASSUME NEW k \in Mux!Lines, NEW x \in d.eng[k].open
               PROVE  <<x, k[2]>> \in d.valve /\ d.act[x] = k[2]
    BY DEF SeenOpen
  <2>1. x \in b.eng[k].open /\ x \notin S BY <1>1, <1>3, <1>4, <1>8, <1>12
  <2>2. <<x, k[2]>> \in b.valve /\ b.act[x] = k[2] BY <2>1 DEF MuxSound, SeenOpen
  <2>3. x \in Mux!Chambers BY <2>1, MuxEngine, OpenOnLine
  <2> QED BY <1>10, <1>13, <2>1, <2>2, <2>3
<1>18. MuxVentFlag(d) BY <1>10 DEF MuxSound, MuxVentFlag
<1> QED BY <1>2, <1>4, <1>8, <1>10, <1>11, <1>12, <1>14, <1>15, <1>16, <1>17, <1>18
  DEF MuxKeeps, MuxSound, l

LEMMA MuxStop ==
  ASSUME NEW b, MuxSound(b), NEW c \in Mux!Chambers,
         \A l \in Mux!Lines : c \notin b.eng[l].open
  PROVE  MuxKeeps(b, Mux!Stop(b, c))
<1> DEFINE d == Mux!Stop(b, c)
<1>0. /\ b \in Mux!Board /\ b.act \in [Mux!Chambers -> {"idle"} \cup Mux!Sides]
  BY DEF MuxSound, Mux!Board
<1>1. /\ d.eng = b.eng /\ d.valve = b.valve \ Mux!Both({c})
      /\ d.act = [k \in Mux!Chambers |-> IF k \in {c} THEN "idle" ELSE b.act[k]]
      /\ d.pump = b.pump /\ d.manual = b.manual /\ d.manPump = b.manPump
      /\ d.manValve = b.manValve /\ d.vent = b.vent
      /\ d.stopped = b.stopped /\ d.configured = b.configured
  BY <1>0 DEF Mux!Stop, Mux!StopAll, Mux!Board
<1>2. d \in Mux!Board
  <2>1. d.act \in [Mux!Chambers -> {"idle"} \cup Mux!Sides] BY <1>0, <1>1
  <2>2. d.valve \in SUBSET Mux!Both(Mux!Chambers) BY <1>0, <1>1 DEF Mux!Board
  <2>3. d = [b EXCEPT !.valve = d.valve, !.act = d.act]
    BY <1>0 DEF Mux!Stop, Mux!StopAll, Mux!Board
  <2> HIDE DEF d
  <2> QED BY <1>0, <2>1, <2>2, <2>3 DEF Mux!Board
<1> HIDE DEF d
<1>3. \A k, t : <<k, t>> \in Mux!Both({c}) <=> k = c /\ t \in Mux!Sides BY DEF Mux!Both
<1>4. OwnChambers(d) /\ MuxVentFlag(d) BY <1>1 DEF MuxSound, OwnChambers, MuxVentFlag
<1>5. MuxAlone(d) BY <1>1 DEF MuxSound, MuxAlone
<1>6. MuxOwned(d) BY <1>1 DEF MuxSound, MuxOwned
<1>7. SeenOpen(d)
  <2> SUFFICES ASSUME NEW k \in Mux!Lines, NEW x \in d.eng[k].open
               PROVE  <<x, k[2]>> \in d.valve /\ d.act[x] = k[2]
    BY DEF SeenOpen
  <2>1. x \in b.eng[k].open /\ x # c BY <1>1
  <2>2. <<x, k[2]>> \in b.valve /\ b.act[x] = k[2] BY <2>1 DEF MuxSound, SeenOpen
  <2>3. x \in Mux!Chambers BY <2>1, MuxEngine, OpenOnLine
  <2> QED BY <1>1, <1>3, <2>1, <2>2, <2>3
<1> QED BY <1>1, <1>2, <1>4, <1>5, <1>6, <1>7 DEF MuxKeeps, MuxSound, d

LEMMA MuxHoldChamber ==
  ASSUME NEW b, MuxSound(b), NEW c \in Mux!Chambers
  PROVE  MuxKeeps(b, Mux!HoldChamber(b, c)) /\ Pumped(Mux!HoldChamber(b, c))
<1> DEFINE b1 == Mux!EngDrop(b, c, "inflate")
           b2 == Mux!EngDrop(b1, c, "deflate")
           b3 == Mux!Stop(b2, c)
           L(s) == Mux!LineOf(c, s)
<1>0. "inflate" \in Mux!Sides /\ "deflate" \in Mux!Sides
      /\ \A s \in Mux!Sides : s = "inflate" \/ s = "deflate"
  BY DEF Mux!Sides
<1>1. MuxKeeps(b, b1) /\ c \notin b1.eng[L("inflate")].pending
  BY <1>0, MuxEngDrop
<1> HIDE DEF b1
<1>2. /\ MuxKeeps(b1, b2) /\ c \notin b2.eng[L("deflate")].pending
      /\ \A k \in Mux!Lines \ {L("deflate")} : b2.eng[k] = b1.eng[k]
  BY <1>0, <1>1, MuxEngDrop DEF MuxKeeps
<1> HIDE DEF b2
<1>3. MuxSound(b2) BY <1>2 DEF MuxKeeps
<1>4. L("inflate") \in Mux!Lines /\ L("inflate") # L("deflate") BY <1>0, LineIs
<1>5. c \notin b2.eng[L("inflate")].pending BY <1>1, <1>2, <1>4
<1>6. ASSUME NEW l \in Mux!Lines, c \in b2.eng[l].open PROVE FALSE
  <2>1. c \in b2.eng[l].pending BY <1>3, <1>6, MuxEngine
  <2>2. l = L(l[2]) /\ l[2] \in Mux!Sides BY <1>3, <2>1, OpenOnLine
  <2> QED BY <1>0, <1>2, <1>5, <2>1, <2>2
<1>7. MuxKeeps(b2, b3) BY <1>3, <1>6, MuxStop
<1> HIDE DEF b3
<1>8. MuxKeeps(b, b3) BY <1>1, <1>2, <1>7, MuxKeepsTrans
<1>9. MuxKeeps(b3, Mux!RecalcPumps(b3)) /\ Pumped(Mux!RecalcPumps(b3))
  BY <1>7, MuxRecalc DEF MuxKeeps
<1> QED BY <1>8, <1>9, MuxKeepsTrans DEF Mux!HoldChamber, b3, b2, b1

\* A wish of one line, once the other side of its chamber is out of the way.
LEMMA MuxWish ==
  ASSUME NEW b, MuxSound(b), ~b.manual, Pumped(b), NEW c \in Mux!Chambers, NEW s \in Mux!Sides,
         c \notin b.eng[Mux!LineOf(c, Mux!Other(s))].pending
  PROVE  LET d == [b EXCEPT !.eng[Mux!LineOf(c, s)] = Mux!Request(@, c)]
         IN  MuxKeeps(b, d) /\ Pumped(d)
<1> DEFINE l == Mux!LineOf(c, s)
           e == Mux!Request(b.eng[l], c)
           d == [b EXCEPT !.eng[l] = Mux!Request(@, c)]
<1>0. b \in Mux!Board /\ b.eng \in [Mux!Lines -> Mux!Engine] BY DEF MuxSound, Mux!Board
<1>1. /\ l \in Mux!Lines /\ c \in Manifolds[l[1]] /\ l[2] = s
      /\ \A x \in Mux!Lines : c \in Manifolds[x[1]] /\ x[2] = Mux!Other(s)
                                => x = Mux!LineOf(c, Mux!Other(s))
  <2>1. Mux!Other(s) \in Mux!Sides BY DEF Mux!Other, Mux!Sides
  <2> QED BY <2>1, LineIs
<1>2. /\ e \in Mux!Engine /\ Mux!EngineShape(e)
      /\ e.pending = b.eng[l].pending \cup {c} /\ e.open = b.eng[l].open
  BY <1>1, MuxEngine, MuxRequestEngine
<1> HIDE DEF l
<1>3. d.eng = [b.eng EXCEPT ![l] = e] BY <1>0 DEF Mux!Board
<1>4. /\ d.valve = b.valve /\ d.act = b.act /\ d.pump = b.pump /\ d.manual = b.manual
      /\ d.manPump = b.manPump /\ d.manValve = b.manValve /\ d.vent = b.vent
      /\ d.stopped = b.stopped /\ d.configured = b.configured
  BY <1>0 DEF Mux!Board
<1> HIDE DEF e
<1>5. d \in Mux!Board
  <2>1. d.eng \in [Mux!Lines -> Mux!Engine] BY <1>0, <1>2, <1>3
  <2>2. d = [b EXCEPT !.eng = d.eng] BY <1>0
  <2> HIDE DEF d
  <2> QED BY <1>0, <2>1, <2>2 DEF Mux!Board
<1> HIDE DEF d
<1>6. d.eng[l] = e /\ \A k \in Mux!Lines \ {l} : d.eng[k] = b.eng[k] BY <1>0, <1>1, <1>3
<1>12. \A k \in Mux!Lines : d.eng[k].open = b.eng[k].open BY <1>2, <1>6
<1>7. OwnChambers(d)
  <2>1. \A k \in Mux!Lines : Mux!EngineShape(d.eng[k]) /\ d.eng[k].pending \subseteq Manifolds[k[1]]
    BY <1>1, <1>2, <1>6, MuxEngine
  <2>2. ASSUME NEW k \in Mux!Lines, k[1] = l[1], k[2] # l[2]
        PROVE  e.pending \cap b.eng[k].pending = {}
    <3>1. k[2] \in Mux!Sides BY DEF Mux!Lines
    <3>2. k[2] = Mux!Other(s) BY <1>1, <2>2, <3>1 DEF Mux!Other, Mux!Sides
    <3>3. k = Mux!LineOf(c, Mux!Other(s)) BY <1>1, <2>2, <3>2
    <3>4. c \notin b.eng[k].pending BY <3>3
    <3>5. b.eng[l].pending \cap b.eng[k].pending = {} BY <1>1, <2>2 DEF MuxSound, OwnChambers
    <3> QED BY <1>2, <3>4, <3>5
  <2>3. ASSUME NEW k \in Mux!Lines, NEW m \in Mux!Lines, k[1] = m[1], k[2] # m[2]
        PROVE  d.eng[k].pending \cap d.eng[m].pending = {}
    <3>1. CASE k = l BY <1>6, <2>2, <2>3, <3>1
    <3>2. CASE m = l BY <1>6, <2>2, <2>3, <3>2
    <3>3. CASE k # l /\ m # l BY <1>6, <2>3, <3>3 DEF MuxSound, OwnChambers
    <3> QED BY <3>1, <3>2, <3>3
  <2> QED BY <2>1, <2>3 DEF OwnChambers
<1>8. MuxAlone(d) BY <1>4 DEF MuxSound, MuxAlone
<1>9. MuxOwned(d)
  <2>1. \A k \in Mux!Chambers, t \in Mux!Sides : Mux!LineOf(k, t) \in Mux!Lines BY LineIs
  <2> QED BY <1>4, <1>12, <2>1 DEF MuxSound, MuxOwned
<1>10. SeenOpen(d) /\ MuxVentFlag(d) BY <1>4, <1>12 DEF MuxSound, SeenOpen, MuxVentFlag
<1>11. Pumped(d) BY <1>4 DEF Pumped
<1> QED BY <1>4, <1>5, <1>7, <1>8, <1>9, <1>10, <1>11 DEF MuxKeeps, MuxSound, d, l

LEMMA MuxRequestSide ==
  ASSUME NEW b, MuxSound(b), ~b.manual, Pumped(b), NEW c \in Mux!Chambers, NEW s \in Mux!Sides
  PROVE  MuxKeeps(b, Mux!RequestSide(b, c, s)) /\ Pumped(Mux!RequestSide(b, c, s))
<1> DEFINE o == Mux!Other(s)
           dropped == Mux!EngDrop(b, c, o)
           reversed == c \in b.eng[Mux!LineOf(c, o)].open
           clear == IF reversed THEN Mux!RecalcPumps(dropped) ELSE dropped
<1>0. o \in Mux!Sides BY DEF Mux!Other, Mux!Sides
<1>1. /\ MuxKeeps(b, dropped) /\ c \notin dropped.eng[Mux!LineOf(c, o)].pending
      /\ dropped.pump = b.pump /\ dropped.vent = b.vent
      /\ ~reversed => dropped.valve = b.valve
  BY <1>0, MuxEngDrop
<1> HIDE DEF dropped
<1>2. MuxSound(dropped) /\ dropped \in Mux!Board BY <1>1 DEF MuxKeeps, MuxSound
<1>3. MuxKeeps(dropped, clear) /\ Pumped(clear) /\ clear.eng = dropped.eng
  <2>1. CASE reversed
    <3>1. Mux!RecalcPumps(dropped).eng = dropped.eng BY <1>2 DEF Mux!RecalcPumps, Mux!Board
    <3> QED BY <1>2, <2>1, <3>1, MuxRecalc
  <2>2. CASE ~reversed BY <1>1, <1>2, <2>2 DEF MuxKeeps, Pumped
  <2> QED BY <2>1, <2>2
<1>6. Mux!RequestSide(b, c, s) = [clear EXCEPT !.eng[Mux!LineOf(c, s)] = Mux!Request(@, c)]
  BY DEF Mux!RequestSide, dropped
<1> HIDE DEF clear, reversed
<1>4. MuxKeeps(b, clear) /\ MuxSound(clear) /\ ~clear.manual
  BY <1>1, <1>3, MuxKeepsTrans DEF MuxKeeps
<1>5. c \notin clear.eng[Mux!LineOf(c, Mux!Other(s))].pending BY <1>1, <1>3
<1> HIDE DEF o
<1>7. /\ MuxKeeps(clear, [clear EXCEPT !.eng[Mux!LineOf(c, s)] = Mux!Request(@, c)])
      /\ Pumped([clear EXCEPT !.eng[Mux!LineOf(c, s)] = Mux!Request(@, c)])
  BY <1>3, <1>4, <1>5, MuxWish
<1> QED BY <1>4, <1>6, <1>7, MuxKeepsTrans

LEMMA MuxActuate ==
  ASSUME NEW b, MuxSound(b), ~b.manual, Pumped(b), NEW c \in Mux!Chambers,
         NEW what \in Mux!Sides \cup {"none", "hold"}
  PROVE  MuxKeeps(b, Mux!Actuate(b, c, what)) /\ Pumped(Mux!Actuate(b, c, what))
<1>1. CASE what = "none"
  <2>1. Mux!Actuate(b, c, what) = b BY <1>1 DEF Mux!Actuate, Mux!Sides
  <2> QED BY <2>1 DEF MuxKeeps
<1>2. CASE what = "hold"
  <2>1. Mux!Actuate(b, c, what) = Mux!HoldChamber(b, c) BY <1>2 DEF Mux!Actuate, Mux!Sides
  <2> QED BY <2>1, MuxHoldChamber
<1>3. CASE what \in Mux!Sides
  <2>1. Mux!Actuate(b, c, what) = Mux!RequestSide(b, c, what) BY <1>3 DEF Mux!Actuate, Mux!Sides
  <2> QED BY <1>3, <2>1, MuxRequestSide
<1> QED BY <1>1, <1>2, <1>3

LEMMA MuxChambersFinite ==
  ASSUME NEW S \in SUBSET Mux!Chambers
  PROVE  S \in SUBSET Int /\ IsFiniteSet(S)
<1>1. Mux!Chambers \in SUBSET Int /\ IsFiniteSet(Mux!Chambers) BY MuxConstants
<1> QED BY <1>1, FS_Subset

LEMMA MuxActuateEach ==
  ASSUME NEW b, MuxSound(b), ~b.manual, Pumped(b), NEW S \in SUBSET Mux!Chambers,
         NEW f \in [S -> Mux!Sides \cup {"none", "hold"}]
  PROVE  MuxKeeps(b, Mux!ActuateEach(b, S, f)) /\ Pumped(Mux!ActuateEach(b, S, f))
<1> DEFINE T == {x \in Mux!Board : MuxKeeps(b, x) /\ Pumped(x)}
           step == [c \in S |-> [x \in Mux!Board |-> Mux!Actuate(x, c, f[c])]]
<1>1. \A c \in S, x \in T : step[c][x] \in T
  <2> SUFFICES ASSUME NEW c \in S, NEW x \in T PROVE Mux!Actuate(x, c, f[c]) \in T
    OBVIOUS
  <2>1. MuxSound(x) /\ ~x.manual /\ Pumped(x) /\ MuxKeeps(b, x) BY DEF MuxKeeps
  <2>2. MuxKeeps(x, Mux!Actuate(x, c, f[c])) /\ Pumped(Mux!Actuate(x, c, f[c]))
    BY <2>1, MuxActuate
  <2> QED BY <2>1, <2>2, MuxKeepsTrans DEF MuxKeeps, MuxSound
<1>2. b \in T /\ S \in SUBSET Int /\ IsFiniteSet(S)
  BY MuxChambersFinite DEF MuxKeeps, MuxSound
<1>3. Direct!ForEach(step, b, S) \in T
  <2> HIDE DEF T, step
  <2> QED BY <1>1, <1>2, ForEachKeeps
<1> QED BY <1>3, SameForEach DEF Mux!ActuateEach

LEMMA MuxHoldEach ==
  ASSUME NEW b, MuxSound(b), Pumped(b), NEW S \in SUBSET Mux!Chambers
  PROVE  MuxKeeps(b, Mux!HoldEach(b, S)) /\ Pumped(Mux!HoldEach(b, S))
<1> DEFINE T == {x \in Mux!Board : MuxKeeps(b, x) /\ Pumped(x)}
           step == [c \in S |-> [x \in Mux!Board |-> Mux!HoldChamber(x, c)]]
<1>1. \A c \in S, x \in T : step[c][x] \in T
  <2> SUFFICES ASSUME NEW c \in S, NEW x \in T PROVE Mux!HoldChamber(x, c) \in T
    OBVIOUS
  <2>1. MuxSound(x) /\ MuxKeeps(b, x) BY DEF MuxKeeps
  <2>2. MuxKeeps(x, Mux!HoldChamber(x, c)) /\ Pumped(Mux!HoldChamber(x, c))
    BY <2>1, MuxHoldChamber
  <2> QED BY <2>1, <2>2, MuxKeepsTrans DEF MuxKeeps, MuxSound
<1>2. b \in T /\ S \in SUBSET Int /\ IsFiniteSet(S)
  BY MuxChambersFinite DEF MuxKeeps, MuxSound
<1>3. Direct!ForEach(step, b, S) \in T
  <2> HIDE DEF T, step
  <2> QED BY <1>1, <1>2, ForEachKeeps
<1> QED BY <1>3, SameForEach DEF Mux!HoldEach

LEMMA MuxActOn ==
  ASSUME NEW b, MuxSound(b), ~b.manual, NEW l \in Mux!Lines,
         NEW e \in Mux!TickOutcomes(b.eng[l])
  PROVE  MuxKeeps(b, Mux!ActOn(b, l, e))
<1> DEFINE closed == b.eng[l].open \ e.open
           opened == e.open \ b.eng[l].open
           d == Mux!ActOn(b, l, e)
<1>0. /\ b \in Mux!Board /\ b.eng \in [Mux!Lines -> Mux!Engine]
      /\ b.act \in [Mux!Chambers -> {"idle"} \cup Mux!Sides]
      /\ l[2] \in Mux!Sides
  BY DEF MuxSound, Mux!Board, Mux!Lines
<1>1. /\ e \in Mux!Engine /\ Mux!EngineShape(e) /\ e.pending \subseteq b.eng[l].pending
      /\ e.open \subseteq b.eng[l].pending /\ b.eng[l].open \subseteq b.eng[l].pending
  <2>1. e \in Mux!Engine /\ Mux!EngineShape(e) /\ e.pending \subseteq b.eng[l].pending
    BY MuxEngine, MuxTickEngine
  <2> QED BY <2>1, MuxEngine DEF Mux!EngineShape
<1>2. /\ d.eng = [b.eng EXCEPT ![l] = e]
      /\ d.valve = (b.valve \ Mux!Both(closed \cup opened)) \cup (opened \X {l[2]})
      /\ d.act = [c \in Mux!Chambers |-> IF c \in closed THEN "idle"
                                         ELSE IF c \in opened THEN l[2] ELSE b.act[c]]
      /\ d.pump = b.pump /\ d.manual = b.manual /\ d.manPump = b.manPump
      /\ d.manValve = b.manValve /\ d.vent = b.vent
      /\ d.stopped = b.stopped /\ d.configured = b.configured
  BY <1>0 DEF Mux!ActOn, Mux!Board
<1>13. d = [b EXCEPT !.eng = d.eng, !.valve = d.valve, !.act = d.act]
  BY <1>0 DEF Mux!ActOn, Mux!Board
<1>14. \A c \in Mux!Chambers : d.act[c] = IF c \in closed THEN "idle"
                                          ELSE IF c \in opened THEN l[2] ELSE b.act[c]
  BY <1>2
<1>3. /\ \A c, t : <<c, t>> \in opened \X {l[2]} <=> c \in opened /\ t = l[2]
      /\ \A c, t : <<c, t>> \in Mux!Both(closed \cup opened)
                     <=> c \in closed \cup opened /\ t \in Mux!Sides
  BY DEF Mux!Both
<1>4. closed = b.eng[l].open \ e.open /\ opened = e.open \ b.eng[l].open OBVIOUS
<1> HIDE DEF d, closed, opened
<1>5. /\ closed \cup opened \subseteq b.eng[l].pending
      /\ \A c \in b.eng[l].pending : c \in Mux!Chambers /\ c \in Manifolds[l[1]]
                                     /\ l = Mux!LineOf(c, l[2])
  BY <1>1, <1>4, OpenOnLine
<1>6. d \in Mux!Board
  <2>1. opened \X {l[2]} \subseteq Mux!Both(Mux!Chambers) BY <1>0, <1>5 DEF Mux!Both
  <2>2. d.valve \in SUBSET Mux!Both(Mux!Chambers) BY <1>0, <1>2, <2>1 DEF Mux!Board
  <2>3. d.act = [c \in Mux!Chambers |-> IF c \in closed THEN "idle"
                                        ELSE IF c \in opened THEN l[2] ELSE b.act[c]]
    BY <1>2
  <2>4. d.act \in [Mux!Chambers -> {"idle"} \cup Mux!Sides] BY <1>0, <2>3
  <2>5. d.eng = [b.eng EXCEPT ![l] = e] BY <1>2
  <2>6. d.eng \in [Mux!Lines -> Mux!Engine] BY <1>0, <1>1, <2>5
  <2> QED BY <1>0, <1>13, <2>2, <2>4, <2>6 DEF Mux!Board
<1>7. d.eng[l] = e /\ \A k \in Mux!Lines \ {l} : d.eng[k] = b.eng[k] BY <1>0, <1>2
<1>8. OwnChambers(d)
  <2>1. \A k \in Mux!Lines : d.eng[k].pending \subseteq b.eng[k].pending BY <1>1, <1>7
  <2>2. \A k \in Mux!Lines : Mux!EngineShape(d.eng[k]) BY <1>1, <1>7, MuxEngine
  <2> QED BY <2>1, <2>2 DEF MuxSound, OwnChambers
<1>9. MuxAlone(d) BY <1>2 DEF MuxSound, MuxAlone
<1>10. MuxOwned(d)
  <2> SUFFICES ASSUME NEW c \in Mux!Chambers, NEW t \in Mux!Sides, <<c, t>> \in d.valve
               PROVE  c \in d.eng[Mux!LineOf(c, t)].open
    BY DEF MuxOwned
  <2>1. CASE c \in opened /\ t = l[2] BY <1>4, <1>5, <1>7, <2>1
  <2>2. CASE ~(c \in opened /\ t = l[2])
    <3>1. <<c, t>> \in b.valve /\ c \notin closed \cup opened BY <1>2, <1>3, <2>2
    <3>2. c \in b.eng[Mux!LineOf(c, t)].open BY <3>1 DEF MuxSound, MuxOwned
    <3>3. Mux!LineOf(c, t) \in Mux!Lines BY LineIs
    <3>4. CASE Mux!LineOf(c, t) = l BY <1>4, <1>7, <3>1, <3>2, <3>4
    <3>5. CASE Mux!LineOf(c, t) # l BY <1>7, <3>2, <3>3, <3>5
    <3> QED BY <3>4, <3>5
  <2> QED BY <2>1, <2>2
<1>11. SeenOpen(d)
  <2> SUFFICES ASSUME NEW k \in Mux!Lines, NEW c \in d.eng[k].open
               PROVE  <<c, k[2]>> \in d.valve /\ d.act[c] = k[2]
    BY DEF SeenOpen
  <2>1. CASE k = l
    <3>1. c \in e.open /\ c \in Mux!Chambers BY <1>1, <1>5, <1>7, <2>1
    <3>2. CASE c \in opened BY <1>2, <1>3, <1>4, <1>14, <2>1, <3>1, <3>2
    <3>3. CASE c \notin opened
      <4>1. c \in b.eng[k].open /\ c \notin closed BY <1>4, <2>1, <3>1, <3>3
      <4>2. <<c, k[2]>> \in b.valve /\ b.act[c] = k[2] BY <4>1 DEF MuxSound, SeenOpen
      <4> QED BY <1>2, <1>3, <1>14, <3>1, <3>3, <4>1, <4>2
    <3> QED BY <3>2, <3>3
  <2>2. CASE k # l
    <3>1. c \in b.eng[k].open /\ c \in b.eng[k].pending BY <1>7, <2>2, MuxEngine
    <3>2. <<c, k[2]>> \in b.valve /\ b.act[c] = k[2] BY <3>1 DEF MuxSound, SeenOpen
    <3>3. c \in Manifolds[k[1]] /\ c \in Mux!Chambers BY <3>1, OpenOnLine
    <3>4. c \notin b.eng[l].pending
      <4> SUFFICES ASSUME c \in b.eng[l].pending PROVE FALSE OBVIOUS
      <4>1. c \in Manifolds[l[1]] BY <1>5
      <4>2. k[1] = l[1] /\ k[2] # l[2] BY <2>2, <3>3, <4>1, LinesApart
      <4> QED BY <3>1, <4>2 DEF MuxSound, OwnChambers
    <3>5. c \notin closed \cup opened BY <1>5, <3>4
    <3> QED BY <1>2, <1>3, <1>14, <3>2, <3>3, <3>5
  <2> QED BY <2>1, <2>2
<1>12. MuxVentFlag(d) BY <1>2 DEF MuxSound, MuxVentFlag
<1> QED BY <1>2, <1>6, <1>8, <1>9, <1>10, <1>11, <1>12 DEF MuxKeeps, MuxSound, d

\* Whatever the engines of the groups do in one pass, the pumps follow.
LEMMA MuxControlTick ==
  ASSUME NEW b, MuxSound(b), ~b.manual, NEW d \in Mux!ControlTick(b)
  PROVE  MuxKeeps(b, d) /\ Pumped(d)
<1> DEFINE K == {x \in Mux!Board : MuxKeeps(b, x)}
           T == SUBSET K
           step == [g \in DOMAIN Manifolds |-> [X \in SUBSET Mux!Board |-> Mux!GroupTicks(X, g)]]
<1>1. ASSUME NEW l \in Mux!Lines, NEW x \in K, NEW y \in Mux!LineTicks(x, l) PROVE y \in K
  <2>1. PICK e \in Mux!TickOutcomes(x.eng[l]) : y = Mux!ActOn(x, l, e) BY DEF Mux!LineTicks
  <2>2. MuxSound(x) /\ ~x.manual /\ MuxKeeps(b, x) BY DEF MuxKeeps
  <2>3. MuxKeeps(x, y) BY <2>1, <2>2, MuxActOn
  <2> QED BY <2>2, <2>3, MuxKeepsTrans DEF MuxKeeps, MuxSound
<1>2. \A g \in DOMAIN Manifolds : <<g, "inflate">> \in Mux!Lines /\ <<g, "deflate">> \in Mux!Lines
  BY DEF Mux!Lines, Mux!Sides
<1>3. \A g \in DOMAIN Manifolds, X \in T : step[g][X] \in T
  <2> SUFFICES ASSUME NEW g \in DOMAIN Manifolds, NEW X \in T PROVE Mux!GroupTicks(X, g) \in T
    OBVIOUS
  <2> HIDE DEF K
  <2>1. UNION {Mux!LineTicks(x, <<g, "inflate">>) : x \in X} \subseteq K BY <1>1, <1>2
  <2> QED BY <1>1, <1>2, <2>1 DEF Mux!GroupTicks
<1>4. {b} \in T BY DEF MuxKeeps, MuxSound
<1>5. DOMAIN Manifolds \in SUBSET Int /\ IsFiniteSet(DOMAIN Manifolds) BY MuxConstants
<1>6. Direct!ForEach(step, {b}, DOMAIN Manifolds) \in T
  <2> HIDE DEF T, step
  <2> QED BY <1>3, <1>4, <1>5, ForEachKeeps
<1>7. Mux!Ticks(b) \subseteq K BY <1>6, SameForEach DEF Mux!Ticks
<1>8. PICK x \in Mux!Ticks(b) : d = Mux!RecalcPumps(x) BY DEF Mux!ControlTick
<1>9. MuxKeeps(b, x) /\ MuxSound(x) BY <1>7 DEF MuxKeeps
<1> QED BY <1>8, <1>9, MuxRecalc, MuxKeepsTrans

-----------------------------------------------------------------------------
(* The multiplexed board: the manual override *)

\* Under the override the flags are open valves, which the pumps work into.
Driven(b) == b.manual => /\ b.manValve \subseteq b.valve
                         /\ \A l \in b.pump : Mux!Feeds(l, b.valve, b.vent)

MuxManual(b, d) == MuxKeeps(b, d) /\ (Driven(b) => Driven(d))

MuxOff(b) == /\ b.valve = {} /\ b.pump = {} /\ ~b.manual
             /\ b.manPump = {} /\ b.manValve = {} /\ b.vent = {}
             /\ \A l \in Mux!Lines : b.eng[l] = Mux!IdleEngine
             /\ \A c \in Mux!Chambers : b.act[c] = "idle"

LEMMA MuxOffSound ==
  ASSUME NEW b \in Mux!Board, MuxOff(b)
  PROVE  MuxSound(b) /\ Pumped(b) /\ Driven(b)
<1>1. /\ Mux!EngineShape(Mux!IdleEngine) /\ Mux!IdleEngine.pending = {}
      /\ Mux!IdleEngine.open = {}
  BY MuxIdleIsEngine DEF Mux!IdleEngine
<1>2. OwnChambers(b) /\ MuxAlone(b) BY <1>1 DEF MuxOff, OwnChambers, MuxAlone
<1>3. MuxOwned(b) /\ SeenOpen(b) /\ MuxVentFlag(b)
  BY <1>1 DEF MuxOff, MuxOwned, SeenOpen, MuxVentFlag
<1>4. Pumped(b) /\ Driven(b) BY DEF MuxOff, Pumped, Driven, Mux!Feeds
<1> QED BY <1>2, <1>3, <1>4 DEF MuxSound

LEMMA MuxManualTrans ==
  ASSUME NEW b, NEW d, NEW e, MuxManual(b, d), MuxManual(d, e)
  PROVE  MuxManual(b, e)
BY MuxKeepsTrans DEF MuxManual

\* Under the override nothing is sequenced, so every open valve is a flag's.
LEMMA MuxOverridden ==
  ASSUME NEW b, MuxSound(b), b.manual
  PROVE  b.valve \subseteq b.manValve
<1>1. \A l \in Mux!Lines : b.eng[l].open = {} BY DEF MuxSound, MuxAlone, Mux!IdleEngine
<1>2. ASSUME NEW c \in Mux!Chambers, NEW s \in Mux!Sides, <<c, s>> \in b.valve
      PROVE  <<c, s>> \in b.manValve
  BY <1>1, <1>2, LineIs DEF MuxSound, MuxOwned
<1>3. b.valve \subseteq Mux!Chambers \X Mux!Sides BY DEF MuxSound, Mux!Board, Mux!Both
<1> QED BY <1>2, <1>3

LEMMA MuxDrive ==
  ASSUME NEW b, MuxSound(b), b.manual
  PROVE  LET d == Mux!DriveManualPumps(b)
         IN  MuxKeeps(b, d) /\ (b.manValve \subseteq b.valve => Driven(d))
<1> DEFINE d == Mux!DriveManualPumps(b)
<1>1. /\ d \in Mux!Board /\ d.eng = b.eng /\ d.valve = b.valve /\ d.act = b.act
      /\ d.manual = b.manual /\ d.manPump = b.manPump /\ d.manValve = b.manValve
      /\ d.vent = b.vent /\ d.stopped = b.stopped /\ d.configured = b.configured
      /\ d.pump = {l \in Mux!Lines : l[2] \in b.manPump /\ Mux!Feeds(l, b.manValve, b.vent)}
  BY DEF MuxSound, Mux!Board, Mux!DriveManualPumps
<1> HIDE DEF d
<1>2. MuxSound(d)
  BY <1>1 DEF MuxSound, OwnChambers, MuxAlone, MuxOwned, SeenOpen, MuxVentFlag
<1>3. b.manValve \subseteq b.valve => Driven(d) BY <1>1 DEF Driven, Mux!Feeds
<1> QED BY <1>1, <1>2, <1>3 DEF MuxKeeps, d

LEMMA MuxManually ==
  ASSUME NEW b, MuxSound(b), b.manual, NEW c \in Mux!Chambers, NEW flags \in SUBSET Mux!Sides,
         NEW vent \in BOOLEAN, flags = Mux!Sides => vent
  PROVE  MuxManual(b, Mux!Manually(b, c, flags, vent))
<1> DEFINE F == {c} \X flags
           d == [b EXCEPT !.valve = (@ \ Mux!Both({c})) \cup F,
                          !.manValve = (@ \ Mux!Both({c})) \cup F,
                          !.vent = IF vent THEN @ \cup {c} ELSE @ \ {c}]
<1>0. b \in Mux!Board BY DEF MuxSound
<1>1. Mux!Manually(b, c, flags, vent) = Mux!DriveManualPumps(d)
  BY <1>0 DEF Mux!Manually, Mux!SetChamberValve, Mux!Board
<1>2. /\ \A k, t : <<k, t>> \in F <=> k = c /\ t \in flags
      /\ \A k, t : <<k, t>> \in Mux!Both({c}) <=> k = c /\ t \in Mux!Sides
      /\ F \in SUBSET Mux!Both(Mux!Chambers)
  BY DEF Mux!Both
<1> HIDE DEF F
<1>3. /\ d \in Mux!Board /\ d.eng = b.eng /\ d.act = b.act /\ d.manual = b.manual
      /\ d.stopped = b.stopped /\ d.configured = b.configured
      /\ d.valve = (b.valve \ Mux!Both({c})) \cup F
      /\ d.manValve = (b.manValve \ Mux!Both({c})) \cup F
      /\ d.vent = IF vent THEN b.vent \cup {c} ELSE b.vent \ {c}
  BY <1>0, <1>2 DEF Mux!Board
<1> HIDE DEF d
<1>4. OwnChambers(d) BY <1>3 DEF MuxSound, OwnChambers
<1>5. MuxAlone(d) BY <1>3 DEF MuxSound, MuxAlone
<1>6. MuxOwned(d)
  <2> SUFFICES ASSUME NEW k \in Mux!Chambers, NEW t \in Mux!Sides, <<k, t>> \in d.valve
               PROVE  <<k, t>> \in d.manValve
    BY <1>3 DEF MuxOwned
  <2>1. <<k, t>> \in F \/ <<k, t>> \in b.valve \ Mux!Both({c}) BY <1>3
  <2> QED BY <1>3, <2>1, MuxOverridden
<1>7. SeenOpen(d)
  <2>1. \A l \in Mux!Lines : d.eng[l].open = {} BY <1>3 DEF MuxSound, MuxAlone, Mux!IdleEngine
  <2> QED BY <2>1 DEF SeenOpen
<1>8. MuxVentFlag(d)
  <2> SUFFICES ASSUME NEW k \in Mux!Chambers,
                      <<k, "inflate">> \in d.manValve, <<k, "deflate">> \in d.manValve
               PROVE  k \in d.vent
    BY DEF MuxVentFlag
  <2>1. CASE k = c
    <3>1. "inflate" \in flags /\ "deflate" \in flags BY <1>2, <1>3, <2>1 DEF Mux!Sides
    <3> QED BY <1>3, <2>1, <3>1 DEF Mux!Sides
  <2>2. CASE k # c
    <3>1. <<k, "inflate">> \in b.manValve /\ <<k, "deflate">> \in b.manValve
      BY <1>2, <1>3, <2>2
    <3>2. k \in b.vent BY <3>1 DEF MuxSound, MuxVentFlag
    <3> QED BY <1>3, <2>2, <3>2
  <2> QED BY <2>1, <2>2
<1>9. MuxSound(d) BY <1>3, <1>4, <1>5, <1>6, <1>7, <1>8 DEF MuxSound
<1>10. Driven(b) => d.manValve \subseteq d.valve BY <1>3 DEF Driven
<1>11. /\ MuxKeeps(d, Mux!DriveManualPumps(d))
       /\ d.manValve \subseteq d.valve => Driven(Mux!DriveManualPumps(d))
  BY <1>3, <1>9, MuxDrive
<1> QED BY <1>1, <1>3, <1>9, <1>10, <1>11 DEF MuxManual, MuxKeeps

LEMMA MuxManualValve ==
  ASSUME NEW b, MuxSound(b), b.manual, NEW c \in Mux!Chambers, NEW s \in Mux!Sides,
         NEW open \in BOOLEAN
  PROVE  MuxManual(b, Mux!ApplyManualValve(b, c, s, open))
<1>1. {s} \in SUBSET Mux!Sides /\ {s} # Mux!Sides BY DEF Mux!Sides
<1>2. Mux!Flags(b, c) \ {s} \in SUBSET Mux!Sides /\ Mux!Flags(b, c) \ {s} # Mux!Sides
  BY DEF Mux!Flags
<1>3. MuxManual(b, Mux!Manually(b, c, {s}, FALSE)) BY <1>1, MuxManually
<1>4. MuxManual(b, Mux!Manually(b, c, Mux!Flags(b, c) \ {s}, c \in b.vent))
  <2>1. \A v \in BOOLEAN : MuxManual(b, Mux!Manually(b, c, Mux!Flags(b, c) \ {s}, v))
    BY <1>2, MuxManually
  <2>2. (c \in b.vent) \in BOOLEAN OBVIOUS
  <2> QED BY <2>1, <2>2, Zenon
<1> QED BY <1>3, <1>4 DEF Mux!ApplyManualValve

LEMMA MuxManualVent ==
  ASSUME NEW b, MuxSound(b), b.manual, NEW c \in Mux!Chambers, NEW open \in BOOLEAN
  PROVE  MuxManual(b, Mux!ApplyManualVent(b, c, open))
<1>1. MuxManual(b, Mux!Manually(b, c, Mux!Sides, TRUE)) BY MuxManually
<1>2. {} \in SUBSET Mux!Sides /\ {} # Mux!Sides BY DEF Mux!Sides
<1>3. MuxManual(b, Mux!Manually(b, c, {}, FALSE)) BY <1>2, MuxManually
<1>4. open = TRUE \/ open = FALSE OBVIOUS
<1> QED BY <1>1, <1>3, <1>4 DEF Mux!ApplyManualVent

LEMMA MuxManualPump ==
  ASSUME NEW b, MuxSound(b), b.manual, NEW s \in Mux!Sides, NEW on \in BOOLEAN
  PROVE  MuxManual(b, Mux!ApplyManualPump(b, s, on))
<1> DEFINE d == [b EXCEPT !.manPump = IF on THEN @ \cup {s} ELSE @ \ {s}]
<1>0. b \in Mux!Board BY DEF MuxSound
<1>1. Mux!ApplyManualPump(b, s, on) = Mux!DriveManualPumps(d) BY DEF Mux!ApplyManualPump
<1>2. /\ d \in Mux!Board /\ d.eng = b.eng /\ d.act = b.act /\ d.manual = b.manual
      /\ d.stopped = b.stopped /\ d.configured = b.configured /\ d.valve = b.valve
      /\ d.manValve = b.manValve /\ d.vent = b.vent
  BY <1>0 DEF Mux!Board
<1> HIDE DEF d
<1>3. MuxSound(d)
  BY <1>2 DEF MuxSound, OwnChambers, MuxAlone, MuxOwned, SeenOpen, MuxVentFlag
<1>4. /\ MuxKeeps(d, Mux!DriveManualPumps(d))
      /\ d.manValve \subseteq d.valve => Driven(Mux!DriveManualPumps(d))
  BY <1>2, <1>3, MuxDrive
<1> QED BY <1>1, <1>2, <1>3, <1>4 DEF MuxManual, MuxKeeps, Driven

LEMMA MuxVentEach ==
  ASSUME NEW b, MuxSound(b), b.manual, NEW S \in SUBSET Mux!Chambers, NEW open \in BOOLEAN
  PROVE  MuxManual(b, Mux!VentEach(b, S, open))
<1> DEFINE T == {x \in Mux!Board : MuxManual(b, x)}
           step == [c \in S |-> [x \in Mux!Board |-> Mux!ApplyManualVent(x, c, open)]]
<1>1. \A c \in S, x \in T : step[c][x] \in T
  <2> SUFFICES ASSUME NEW c \in S, NEW x \in T PROVE Mux!ApplyManualVent(x, c, open) \in T
    OBVIOUS
  <2>1. MuxSound(x) /\ x.manual /\ MuxManual(b, x) BY DEF MuxManual, MuxKeeps
  <2>2. MuxManual(x, Mux!ApplyManualVent(x, c, open)) BY <2>1, MuxManualVent
  <2> QED BY <2>1, <2>2, MuxManualTrans DEF MuxManual, MuxKeeps, MuxSound
<1>2. b \in T /\ S \in SUBSET Int /\ IsFiniteSet(S)
  BY MuxChambersFinite DEF MuxManual, MuxKeeps, MuxSound
<1>3. Direct!ForEach(step, b, S) \in T
  <2> HIDE DEF T, step
  <2> QED BY <1>1, <1>2, ForEachKeeps
<1> QED BY <1>3, SameForEach DEF Mux!VentEach

LEMMA MuxCutValves ==
  ASSUME NEW b, MuxSound(b), b.manual, NEW c \in Mux!Chambers, NEW V
  PROVE  MuxManual(b, Mux!CutValves(b, c, V))
<1> DEFINE i == IF <<c, "inflate">> \in V THEN Mux!ApplyManualValve(b, c, "inflate", FALSE) ELSE b
<1>0. "inflate" \in Mux!Sides /\ "deflate" \in Mux!Sides BY DEF Mux!Sides
<1>1. MuxManual(b, i)
  <2>1. MuxManual(b, b) BY DEF MuxManual, MuxKeeps
  <2> QED BY <1>0, <2>1, MuxManualValve
<1> HIDE DEF i
<1>2. MuxManual(i, Mux!ApplyManualValve(i, c, "deflate", FALSE))
  BY <1>0, <1>1, MuxManualValve DEF MuxManual, MuxKeeps
<1> QED BY <1>1, <1>2, MuxManualTrans DEF Mux!CutValves, i

LEMMA MuxCutEach ==
  ASSUME NEW b, MuxSound(b), b.manual, NEW V
  PROVE  MuxManual(b, Mux!CutEach(b, V))
<1> DEFINE T == {x \in Mux!Board : MuxManual(b, x)}
           S == Mux!Chambers
           step == [c \in S |-> [x \in Mux!Board |-> Mux!CutValves(x, c, V)]]
<1>1. \A c \in S, x \in T : step[c][x] \in T
  <2> SUFFICES ASSUME NEW c \in S, NEW x \in T PROVE Mux!CutValves(x, c, V) \in T
    OBVIOUS
  <2>1. MuxSound(x) /\ x.manual /\ MuxManual(b, x) BY DEF MuxManual, MuxKeeps
  <2>2. MuxManual(x, Mux!CutValves(x, c, V)) BY <2>1, MuxCutValves
  <2> QED BY <2>1, <2>2, MuxManualTrans DEF MuxManual, MuxKeeps, MuxSound
<1>2. b \in T /\ S \in SUBSET Int /\ IsFiniteSet(S)
  BY MuxChambersFinite DEF MuxManual, MuxKeeps, MuxSound
<1>3. Direct!ForEach(step, b, S) \in T
  <2> HIDE DEF T, step, S
  <2> QED BY <1>1, <1>2, ForEachKeeps
<1> QED BY <1>3, SameForEach DEF Mux!CutEach

\* Leaving the override, for whatever reason, leaves everything off.
LEMMA MuxClear ==
  ASSUME NEW b, MuxSound(b), b.manual
  PROVE  LET d == Mux!ManualClearAll(b)
         IN  /\ d \in Mux!Board /\ MuxOff(d)
             /\ d.stopped = b.stopped /\ d.configured = b.configured
<1> DEFINE V == Mux!Both({v[1] : v \in b.manValve})
           d == Mux!ManualClearAll(b)
<1>0. b \in Mux!Board BY DEF MuxSound
<1>1. b.valve \subseteq V
  <2>1. b.valve \subseteq b.manValve /\ b.manValve \subseteq Mux!Chambers \X Mux!Sides
    BY <1>0, MuxOverridden DEF Mux!Board, Mux!Both
  <2>2. ASSUME NEW v \in b.manValve PROVE v \in V
    <3>1. PICK c \in Mux!Chambers, s \in Mux!Sides : v = <<c, s>> BY <2>1
    <3>2. c \in {x[1] : x \in b.manValve} BY <3>1
    <3> QED BY <3>1, <3>2 DEF Mux!Both
  <2> QED BY <2>1, <2>2
<1>2. /\ d.valve = b.valve \ V
      /\ d.pump = {l \in Mux!Lines : l[2] \in {} /\ Mux!Feeds(l, {}, {})}
      /\ d.manual = FALSE /\ d.manPump = {} /\ d.manValve = {} /\ d.vent = {}
      /\ d.eng = b.eng /\ d.act = b.act
      /\ d.stopped = b.stopped /\ d.configured = b.configured
  BY <1>0 DEF Mux!ManualClearAll, Mux!DriveManualPumps, Mux!Board
<1>3. d \in Mux!Board
  BY <1>0 DEF Mux!ManualClearAll, Mux!DriveManualPumps, Mux!Board
<1> HIDE DEF d, V
<1>4. MuxOff(d) BY <1>1, <1>2 DEF MuxSound, MuxAlone, MuxOff
<1> QED BY <1>2, <1>3, <1>4 DEF d

LEMMA MuxStopIsOff ==
  ASSUME NEW b \in Mux!Board
  PROVE  LET d == Mux!EmergencyStopAll(b)
         IN  /\ d \in Mux!Board /\ MuxOff(d)
             /\ d.stopped = b.stopped /\ d.configured = b.configured
<1> DEFINE a == [Mux!AbortSequences(b) EXCEPT !.pump = {}, !.valve = {}]
           m == Mux!ManualClearAll(a)
           d == Mux!CloseAll(m)
<1>0. [l \in Mux!Lines |-> Mux!IdleEngine] \in [Mux!Lines -> Mux!Engine] BY MuxIdleIsEngine
<1>1. /\ a \in Mux!Board /\ a.valve = {} /\ a.eng = [l \in Mux!Lines |-> Mux!IdleEngine]
      /\ a.stopped = b.stopped /\ a.configured = b.configured
  BY <1>0 DEF Mux!AbortSequences, Mux!Board
<1> HIDE DEF a
<1>2. /\ m \in Mux!Board /\ m.valve = {}
      /\ m.pump = {l \in Mux!Lines : l[2] \in {} /\ Mux!Feeds(l, {}, {})}
      /\ m.manual = FALSE /\ m.manPump = {} /\ m.manValve = {} /\ m.vent = {} /\ m.eng = a.eng
      /\ m.stopped = a.stopped /\ m.configured = a.configured
  BY <1>1 DEF Mux!ManualClearAll, Mux!DriveManualPumps, Mux!Board
<1> HIDE DEF m
<1>3. /\ d.valve = {} /\ d.act = [c \in Mux!Chambers |-> IF c \in Mux!Chambers THEN "idle" ELSE m.act[c]]
      /\ d.pump = m.pump /\ d.manual = m.manual /\ d.manPump = m.manPump
      /\ d.manValve = m.manValve /\ d.vent = m.vent /\ d.eng = m.eng
      /\ d.stopped = m.stopped /\ d.configured = m.configured
  BY <1>2 DEF Mux!CloseAll, Mux!StopAll, Mux!Board
<1>4. d = [m EXCEPT !.valve = d.valve, !.act = d.act]
  BY <1>2 DEF Mux!CloseAll, Mux!StopAll, Mux!Board
<1> HIDE DEF d
<1>5. d.act \in [Mux!Chambers -> {"idle"} \cup Mux!Sides] BY <1>3
<1>6. d \in Mux!Board BY <1>2, <1>3, <1>4, <1>5 DEF Mux!Board
<1>7. MuxOff(d) BY <1>1, <1>2, <1>3 DEF MuxOff
<1> QED BY <1>1, <1>2, <1>3, <1>6, <1>7 DEF Mux!EmergencyStopAll, a, m, d

\* Taking the override starts from a board that is off.
LEMMA MuxEnter ==
  ASSUME NEW b, MuxSound(b)
  PROVE  LET d == Mux!ManualEnter(b)
         IN  /\ MuxSound(d) /\ d.manual /\ (Driven(b) => Driven(d))
             /\ d.stopped = b.stopped /\ d.configured = b.configured
<1>1. CASE b.manual BY <1>1 DEF Mux!ManualEnter
<1>2. CASE ~b.manual
  <2> DEFINE a == Mux!AbortSequences(b)
             c == Mux!CloseAll(a)
             r == Mux!RecalcPumps(c)
             d == [r EXCEPT !.manual = TRUE]
  <2>0. /\ [l \in Mux!Lines |-> Mux!IdleEngine] \in [Mux!Lines -> Mux!Engine]
        /\ b \in Mux!Board /\ b.valve \subseteq Mux!Both(Mux!Chambers)
        /\ b.manPump = {} /\ b.manValve = {} /\ b.vent = {}
    BY <1>2, MuxIdleIsEngine DEF MuxSound, MuxAlone, Mux!Board
  <2>1. /\ a \in Mux!Board /\ a.valve = b.valve /\ a.eng = [l \in Mux!Lines |-> Mux!IdleEngine]
        /\ a.manual = b.manual /\ a.manPump = b.manPump /\ a.manValve = b.manValve
        /\ a.vent = b.vent /\ a.stopped = b.stopped /\ a.configured = b.configured
    BY <2>0 DEF Mux!AbortSequences, Mux!Board
  <2> HIDE DEF a
  <2>2. /\ c.valve = a.valve \ Mux!Both(Mux!Chambers)
        /\ c.act = [k \in Mux!Chambers |-> IF k \in Mux!Chambers THEN "idle" ELSE a.act[k]]
        /\ c.manual = a.manual /\ c.manPump = a.manPump
        /\ c.manValve = a.manValve /\ c.vent = a.vent /\ c.eng = a.eng
        /\ c.stopped = a.stopped /\ c.configured = a.configured
    BY <2>1 DEF Mux!CloseAll, Mux!StopAll, Mux!Board
  <2>3. c = [a EXCEPT !.valve = c.valve, !.act = c.act]
    BY <2>1 DEF Mux!CloseAll, Mux!StopAll, Mux!Board
  <2> HIDE DEF c
  <2>4. c.valve = {} /\ c.act \in [Mux!Chambers -> {"idle"} \cup Mux!Sides]
    BY <2>0, <2>1, <2>2
  <2>5. c \in Mux!Board BY <2>1, <2>3, <2>4 DEF Mux!Board
  <2>d. d = [c EXCEPT !.pump = {l \in Mux!Lines : Mux!Feeds(l, c.valve, c.vent)},
                     !.manual = TRUE]
    BY <2>5 DEF Mux!RecalcPumps, Mux!Board
  <2> HIDE DEF d, r
  <2>e. /\ d \in Mux!Board /\ d.manual = TRUE /\ d.valve = c.valve
        /\ d.act = c.act /\ d.eng = c.eng
        /\ d.pump = {l \in Mux!Lines : Mux!Feeds(l, c.valve, c.vent)}
        /\ d.manPump = c.manPump /\ d.manValve = c.manValve /\ d.vent = c.vent
        /\ d.stopped = c.stopped /\ d.configured = c.configured
    BY <2>d, <2>5 DEF Mux!Board
  <2>6. /\ d \in Mux!Board /\ d.manual = TRUE /\ d.valve = {} /\ d.act = c.act /\ d.eng = c.eng
        /\ d.pump = {l \in Mux!Lines : Mux!Feeds(l, {}, c.vent)}
        /\ d.manPump = {} /\ d.manValve = {} /\ d.vent = {}
        /\ d.stopped = b.stopped /\ d.configured = b.configured
    BY <2>0, <2>1, <2>2, <2>4, <2>e
  <2>7. Mux!ManualEnter(b) = d BY <1>2 DEF Mux!ManualEnter, d, r, c, a
  <2>8. d.pump = {} BY <2>6 DEF Mux!Feeds
  <2>9. /\ \A l \in Mux!Lines : d.eng[l] = Mux!IdleEngine
        /\ \A k \in Mux!Chambers : d.act[k] = "idle"
    BY <2>1, <2>2, <2>6
  <2>10. /\ Mux!EngineShape(Mux!IdleEngine) /\ Mux!IdleEngine.pending = {}
         /\ Mux!IdleEngine.open = {}
    BY MuxIdleIsEngine DEF Mux!IdleEngine
  <2>11. OwnChambers(d) /\ MuxAlone(d) BY <2>6, <2>9, <2>10 DEF OwnChambers, MuxAlone
  <2>12. MuxOwned(d) /\ SeenOpen(d) /\ MuxVentFlag(d)
    BY <2>6, <2>9, <2>10 DEF MuxOwned, SeenOpen, MuxVentFlag
  <2> QED BY <2>6, <2>7, <2>8, <2>11, <2>12 DEF MuxSound, Driven
<1> QED BY <1>1, <1>2

LEMMA MuxLeave ==
  ASSUME NEW b, MuxSound(b), b.manual
  PROVE  LET d == Mux!ManualLeaveIfIdle(b)
         IN  /\ MuxSound(d) /\ Pumped(d) /\ (Driven(b) => Driven(d))
             /\ d.stopped = b.stopped /\ d.configured = b.configured
<1>1. Pumped(b) BY DEF Pumped
<1>2. LET d == Mux!ManualClearAll(b)
      IN  /\ MuxSound(d) /\ Pumped(d) /\ Driven(d)
          /\ d.stopped = b.stopped /\ d.configured = b.configured
  BY MuxClear, MuxOffSound
<1> QED BY <1>1, <1>2 DEF Mux!ManualLeaveIfIdle

LEMMA MuxSafety ==
  ASSUME NEW b, MuxSound(b), b.manual, NEW past
  PROVE  LET d == Mux!ManualPressureSafety(b, past)
         IN  /\ MuxSound(d) /\ Pumped(d) /\ (Driven(b) => Driven(d))
             /\ d.stopped = b.stopped /\ d.configured = b.configured
<1> DEFINE cut == past \cap b.manValve
           closed == Mux!CutEach(b, cut)
           off == Mux!ApplyManualPump(closed, "inflate", FALSE)
<1>1. MuxManual(b, closed) BY MuxCutEach
<1> HIDE DEF cut, closed
<1>2. MuxManual(closed, off)
  <2>1. "inflate" \in Mux!Sides BY DEF Mux!Sides
  <2> QED BY <1>1, <2>1, MuxManualPump DEF MuxManual, MuxKeeps
<1> HIDE DEF off
<1>3. MuxManual(b, off) BY <1>1, <1>2, MuxManualTrans
<1>4. \A x \in {closed, off} :
        LET d == Mux!ManualLeaveIfIdle(x)
        IN  /\ MuxSound(d) /\ Pumped(d) /\ (Driven(b) => Driven(d))
            /\ d.stopped = b.stopped /\ d.configured = b.configured
  <2>1. \A x \in {closed, off} : MuxManual(b, x) BY <1>1, <1>3
  <2> QED BY <2>1, MuxLeave DEF MuxManual, MuxKeeps
<1>5. Mux!ManualPressureSafety(b, past) \in {Mux!ManualLeaveIfIdle(closed), Mux!ManualLeaveIfIdle(off)}
  BY DEF Mux!ManualPressureSafety, closed, off, cut
<1> QED BY <1>4, <1>5

-----------------------------------------------------------------------------
(* The multiplexed board: its inductive invariant *)

\* Only a hold in the middle of an override leaves a flag without its valve.
MuxFits(b) == /\ MuxSound(b) /\ Pumped(b)
              /\ b.stopped \/ ~b.configured => MuxOff(b)
              /\ b.manual => "manual" \in muxScene.commands
              /\ "hold" \notin muxScene.commands => Driven(b)
MuxInv == muxScene \in MuxScenes /\ MuxFits(mux)

LEMMA MuxSceneTypes ==
  ASSUME muxScene \in MuxScenes
  PROVE  /\ muxScene.to \in SUBSET Mux!Chambers
         /\ \A S \in Mux!Targets : S \in SUBSET Mux!Chambers
BY MuxConstants DEF Mux!Targets

LEMMA MuxOffFits ==
  ASSUME NEW b \in Mux!Board, MuxOff(b)
  PROVE  MuxFits(b)
<1>1. ~b.manual BY DEF MuxOff
<1> QED BY <1>1, MuxOffSound DEF MuxFits

LEMMA MuxPlain ==
  ASSUME NEW b, NEW d, MuxKeeps(b, d), Pumped(d), ~b.manual, ~b.stopped, b.configured
  PROVE  MuxFits(d)
BY DEF MuxKeeps, MuxFits, Driven

LEMMA MuxSuperseded ==
  ASSUME MuxFits(mux)
  PROVE  /\ MuxSound(Mux!Superseded) /\ Pumped(Mux!Superseded) /\ ~Mux!Superseded.manual
         /\ Mux!Superseded.stopped = mux.stopped /\ Mux!Superseded.configured = mux.configured
<1>1. CASE mux.manual
  <2>1. /\ Mux!ManualClearAll(mux) \in Mux!Board /\ MuxOff(Mux!ManualClearAll(mux))
        /\ Mux!ManualClearAll(mux).stopped = mux.stopped
        /\ Mux!ManualClearAll(mux).configured = mux.configured
    BY <1>1, MuxClear DEF MuxFits
  <2>2. Mux!Superseded = Mux!ManualClearAll(mux) BY <1>1 DEF Mux!Superseded
  <2> QED BY <2>1, <2>2, MuxOffSound DEF MuxOff
<1>2. CASE ~mux.manual BY <1>2 DEF Mux!Superseded, MuxFits
<1> QED BY <1>1, <1>2

LEMMA MuxFillFits ==
  ASSUME MuxInv, Mux!CmdInflateDeflate \/ Mux!CmdSetPressure
  PROVE  MuxFits(mux')
<1> DEFINE b == Mux!Superseded
<1>1. /\ MuxSound(b) /\ Pumped(b) /\ ~b.manual
      /\ b.stopped = mux.stopped /\ b.configured = mux.configured
  BY MuxSuperseded DEF MuxInv
<1>2. \A S \in Mux!Targets : S \in SUBSET Mux!Chambers BY MuxSceneTypes DEF MuxInv
<1>3. ~mux.stopped /\ mux.configured
  BY DEF Mux!CmdInflateDeflate, Mux!CmdSetPressure, Mux!Accepting
<1>4. PICK S \in Mux!Targets :
        \E f \in [S -> Mux!Sides \cup {"none", "hold"}] : mux' = Mux!ActuateEach(b, S, f)
  <2>1. CASE Mux!CmdInflateDeflate
    <3>1. PICK S \in Mux!Targets, s \in Mux!Sides :
            \E f \in [S -> {s, "none", "hold"}] : mux' = Mux!ActuateEach(b, S, f)
      BY <2>1 DEF Mux!CmdInflateDeflate
    <3>2. PICK f \in [S -> {s, "none", "hold"}] : mux' = Mux!ActuateEach(b, S, f) BY <3>1
    <3>3. f \in [S -> Mux!Sides \cup {"none", "hold"}] OBVIOUS
    <3> HIDE DEF b
    <3> QED BY <3>2, <3>3
  <2>2. CASE Mux!CmdSetPressure
    <3>1. PICK S \in Mux!Targets :
            \E f \in [S -> Mux!Sides \cup {"hold"}] : mux' = Mux!ActuateEach(b, S, f)
      BY <2>2 DEF Mux!CmdSetPressure
    <3>2. PICK f \in [S -> Mux!Sides \cup {"hold"}] : mux' = Mux!ActuateEach(b, S, f) BY <3>1
    <3>3. f \in [S -> Mux!Sides \cup {"none", "hold"}] OBVIOUS
    <3> HIDE DEF b
    <3> QED BY <3>2, <3>3
  <2> QED BY <2>1, <2>2
<1> HIDE DEF b
<1>5. PICK f \in [S -> Mux!Sides \cup {"none", "hold"}] : mux' = Mux!ActuateEach(b, S, f)
  BY <1>4
<1>6. MuxKeeps(b, mux') /\ Pumped(mux') BY <1>1, <1>2, <1>5, MuxActuateEach
<1> QED BY <1>1, <1>3, <1>6, MuxPlain

LEMMA MuxHoldFits ==
  ASSUME MuxInv, Mux!CmdHold \/ Mux!CmdLimit
  PROVE  MuxFits(mux')
<1>0. MuxSound(mux) /\ Pumped(mux) BY DEF MuxInv, MuxFits
<1>1. CASE Mux!CmdHold
  <2>1. PICK S \in Mux!Targets : mux' = Mux!HoldEach(mux, S) BY <1>1 DEF Mux!CmdHold
  <2>2. S \in SUBSET Mux!Chambers BY MuxSceneTypes DEF MuxInv
  <2>3. MuxKeeps(mux, mux') /\ Pumped(mux') BY <1>0, <2>1, <2>2, MuxHoldEach
  <2>4. ~mux.stopped /\ mux.configured /\ "hold" \in muxScene.commands
    BY <1>1 DEF Mux!CmdHold, Mux!Accepting, Mux!Sent
  <2> QED BY <2>3, <2>4 DEF MuxInv, MuxFits, MuxKeeps
<1>2. CASE Mux!CmdLimit
  <2>1. PICK c \in muxScene.to : mux.act[c] # "idle" /\ mux' = Mux!HoldChamber(mux, c)
    BY <1>2 DEF Mux!CmdLimit
  <2>2. c \in Mux!Chambers BY MuxSceneTypes DEF MuxInv
  <2>3. MuxKeeps(mux, mux') /\ Pumped(mux') BY <1>0, <2>1, <2>2, MuxHoldChamber
  <2>4. ~mux.stopped /\ mux.configured BY <2>1, <2>2 DEF MuxInv, MuxFits, MuxOff
  <2>5. ~mux.manual BY <1>0, <2>1, <2>2 DEF MuxSound, MuxAlone
  <2> QED BY <2>3, <2>4, <2>5, MuxPlain
<1> QED BY <1>1, <1>2

\* What an accepted manual command does inside the override it takes.
LEMMA MuxManualFits ==
  ASSUME MuxInv, Mux!Accepting("manual"), NEW d, MuxManual(Mux!ManualEnter(mux), d)
  PROVE  MuxFits(Mux!ManualLeaveIfIdle(d))
<1> DEFINE e == Mux!ManualEnter(mux)
           x == Mux!ManualLeaveIfIdle(d)
<1>1. /\ MuxSound(e) /\ e.manual /\ (Driven(mux) => Driven(e))
      /\ e.stopped = mux.stopped /\ e.configured = mux.configured
  BY MuxEnter DEF MuxInv, MuxFits
<1> HIDE DEF e
<1>2. /\ MuxSound(d) /\ d.manual /\ (Driven(mux) => Driven(d))
      /\ d.stopped = mux.stopped /\ d.configured = mux.configured
  BY <1>1 DEF MuxManual, MuxKeeps, e
<1>3. /\ MuxSound(x) /\ Pumped(x) /\ (Driven(d) => Driven(x))
      /\ x.stopped = d.stopped /\ x.configured = d.configured
  BY <1>2, MuxLeave
<1> HIDE DEF x
<1>4. ~mux.stopped /\ mux.configured /\ "manual" \in muxScene.commands
  BY DEF Mux!Accepting, Mux!Sent
<1>5. MuxFits(x) BY <1>2, <1>3, <1>4 DEF MuxFits, MuxInv
<1> QED BY <1>5 DEF x

LEMMA MuxCmdManualFits ==
  ASSUME MuxInv, Mux!CmdValveManual \/ Mux!CmdPumpManual \/ Mux!CmdVent
  PROVE  MuxFits(mux')
<1> DEFINE e == Mux!ManualEnter(mux)
<1>0. MuxSound(e) /\ e.manual BY MuxEnter DEF MuxInv, MuxFits
<1>1. /\ muxScene.to \in SUBSET Mux!Chambers
      /\ \A S \in Mux!Targets : S \in SUBSET Mux!Chambers
  BY MuxSceneTypes DEF MuxInv
<1>2. CASE Mux!CmdValveManual
  <2>1. PICK c \in muxScene.to, s \in Mux!Sides, open \in BOOLEAN :
          mux' = Mux!ManualLeaveIfIdle(Mux!ApplyManualValve(e, c, s, open))
    BY <1>2 DEF Mux!CmdValveManual
  <2> HIDE DEF e
  <2>2. MuxManual(e, Mux!ApplyManualValve(e, c, s, open)) BY <1>0, <1>1, MuxManualValve
  <2> QED BY <1>2, <2>1, <2>2, MuxManualFits DEF Mux!CmdValveManual, e
<1>3. CASE Mux!CmdPumpManual
  <2>1. PICK s \in Mux!Sides, on \in BOOLEAN :
          mux' = Mux!ManualLeaveIfIdle(Mux!ApplyManualPump(e, s, on))
    BY <1>3 DEF Mux!CmdPumpManual
  <2> HIDE DEF e
  <2>2. MuxManual(e, Mux!ApplyManualPump(e, s, on)) BY <1>0, MuxManualPump
  <2> QED BY <1>3, <2>1, <2>2, MuxManualFits DEF Mux!CmdPumpManual, e
<1>4. CASE Mux!CmdVent
  <2>1. PICK S \in Mux!Targets, open \in BOOLEAN :
          mux' = Mux!ManualLeaveIfIdle(Mux!VentEach(e, S, open))
    BY <1>4 DEF Mux!CmdVent
  <2> HIDE DEF e
  <2>2. MuxManual(e, Mux!VentEach(e, S, open)) BY <1>0, <1>1, MuxVentEach
  <2> QED BY <1>4, <2>1, <2>2, MuxManualFits DEF Mux!CmdVent, e
<1> QED BY <1>2, <1>3, <1>4

LEMMA MuxStopFits ==
  ASSUME MuxInv, Mux!CmdStop \/ Mux!CmdResume \/ Mux!CmdConfigure \/ Mux!HaltedPass
  PROVE  MuxFits(mux')
<1>0. mux \in Mux!Board BY DEF MuxInv, MuxFits, MuxSound
<1>1. CASE Mux!CmdStop
  <2>1. [mux EXCEPT !.stopped = TRUE] \in Mux!Board BY <1>0 DEF Mux!Board
  <2>2. mux' \in Mux!Board /\ MuxOff(mux') BY <1>1, <2>1, MuxStopIsOff DEF Mux!CmdStop
  <2> QED BY <2>2, MuxOffFits
<1>2. CASE Mux!CmdResume
  <2>1. MuxOff(mux) BY <1>2 DEF Mux!CmdResume, MuxInv, MuxFits
  <2>2. mux' \in Mux!Board BY <1>0, <1>2 DEF Mux!CmdResume, Mux!Board
  <2>3. MuxOff(mux') BY <1>0, <1>2, <2>1 DEF Mux!CmdResume, Mux!Board, MuxOff
  <2> QED BY <2>2, <2>3, MuxOffFits
<1>3. CASE Mux!CmdConfigure
  <2>1. MuxOff(mux) BY <1>3 DEF Mux!CmdConfigure, MuxInv, MuxFits
  <2>2. mux' \in Mux!Board BY <1>0, <1>3 DEF Mux!CmdConfigure, Mux!Board
  <2>3. MuxOff(mux') BY <1>0, <1>3, <2>1 DEF Mux!CmdConfigure, Mux!Board, MuxOff
  <2> QED BY <2>2, <2>3, MuxOffFits
<1>4. CASE Mux!HaltedPass
  <2>1. MuxOff(mux) BY <1>4 DEF Mux!HaltedPass, MuxInv, MuxFits
  <2>2. mux' \in Mux!Board BY <1>0, <1>4 DEF Mux!HaltedPass, Mux!Board
  <2>3. MuxOff(mux') BY <1>0, <1>4, <2>1 DEF Mux!HaltedPass, Mux!Board, MuxOff
  <2> QED BY <2>2, <2>3, MuxOffFits
<1> QED BY <1>1, <1>2, <1>3, <1>4

LEMMA MuxPassFits ==
  ASSUME MuxInv, Mux!OverridePass \/ Mux!ControlPass
  PROVE  MuxFits(mux')
<1>1. CASE Mux!OverridePass
  <2>1. PICK past \in SUBSET mux.manValve : mux' = Mux!ManualPressureSafety(mux, past)
    BY <1>1 DEF Mux!OverridePass
  <2>2. mux.manual /\ MuxSound(mux) BY <1>1 DEF Mux!OverridePass, MuxInv, MuxFits
  <2>3. /\ MuxSound(mux') /\ Pumped(mux') /\ (Driven(mux) => Driven(mux'))
        /\ mux'.stopped = mux.stopped /\ mux'.configured = mux.configured
    BY <2>1, <2>2, MuxSafety
  <2>4. ~mux.stopped /\ mux.configured /\ "manual" \in muxScene.commands
    BY <2>2 DEF MuxInv, MuxFits, MuxOff
  <2> QED BY <2>3, <2>4 DEF MuxInv, MuxFits
<1>2. CASE Mux!ControlPass
  <2> DEFINE b == Mux!Superseded
  <2>1. /\ MuxSound(b) /\ Pumped(b) /\ ~b.manual
        /\ b.stopped = mux.stopped /\ b.configured = mux.configured
    BY MuxSuperseded DEF MuxInv
  <2>2. PICK S \in SUBSET {c \in Mux!Chambers : b.act[c] # "idle"} :
          mux' = Mux!HoldEach(b, S) \/ mux' \in Mux!ControlTick(Mux!HoldEach(b, S))
    BY <1>2 DEF Mux!ControlPass
  <2>3. ~mux.stopped /\ mux.configured BY <1>2 DEF Mux!ControlPass
  <2> HIDE DEF b
  <2> DEFINE h == Mux!HoldEach(b, S)
  <2>4. MuxKeeps(b, h) /\ Pumped(h) BY <2>1, MuxHoldEach
  <2> HIDE DEF h
  <2>5. MuxSound(h) /\ ~h.manual BY <2>1, <2>4 DEF MuxKeeps
  <2>6. MuxKeeps(b, mux') /\ Pumped(mux')
    BY <2>2, <2>4, <2>5, MuxControlTick, MuxKeepsTrans DEF h
  <2> QED BY <2>1, <2>3, <2>6, MuxPlain
<1> QED BY <1>1, <1>2

LEMMA MuxNext ==
  ASSUME MuxInv, Mux!Next
  PROVE  MuxInv'
<1>1. MuxFits(mux')
  BY MuxFillFits, MuxHoldFits, MuxCmdManualFits, MuxStopFits, MuxPassFits
  DEF Mux!Next, Mux!Command, Mux!Pass
<1>2. muxScene' = muxScene BY DEF Mux!Next
<1> QED BY <1>1, <1>2 DEF MuxInv, MuxFits

LEMMA MuxInit ==
  ASSUME Mux!Init
  PROVE  MuxInv
<1>1. mux = Mux!BootBoard /\ muxScene \in MuxScenes BY DEF Mux!Init
<1>2. mux \in Mux!Board
  BY <1>1, MuxIdleIsEngine DEF Mux!BootBoard, Mux!Board, Mux!Both
<1>3. MuxOff(mux) BY <1>1 DEF Mux!BootBoard, MuxOff
<1> QED BY <1>1, <1>2, <1>3, MuxOffFits DEF MuxInv

LEMMA MuxStay ==
  ASSUME MuxInv, UNCHANGED muxVars
  PROVE  MuxInv'
<1>1. mux' = mux /\ muxScene' = muxScene BY DEF muxVars
<1> QED BY <1>1 DEF MuxInv, MuxFits

-----------------------------------------------------------------------------
(* What the invariant of the multiplexed board gives *)

LEMMA MuxLatched == ASSUME MuxInv PROVE Mux!StoppedIsOff
BY DEF MuxInv, MuxFits, MuxOff, Mux!StoppedIsOff

LEMMA MuxNoOrphan == ASSUME MuxInv PROVE Mux!NoOrphanValve
<1> SUFFICES ASSUME NEW v \in mux.valve
             PROVE  \/ v[1] \in mux.eng[Mux!LineOf(v[1], v[2])].open
                    \/ mux.manual /\ v \in mux.manValve
  BY DEF Mux!NoOrphanValve
<1>1. mux.valve \subseteq Mux!Chambers \X Mux!Sides
  BY DEF MuxInv, MuxFits, MuxSound, Mux!Board, Mux!Both
<1>2. PICK c \in Mux!Chambers, s \in Mux!Sides : v = <<c, s>> BY <1>1
<1> QED BY <1>2 DEF MuxInv, MuxFits, MuxSound, MuxOwned

LEMMA MuxBoardSound == ASSUME MuxInv PROVE Mux!BoardSound
<1>0. MuxSound(mux) /\ Pumped(mux) BY DEF MuxInv, MuxFits
<1>1. Mux!TypeOK BY <1>0 DEF MuxInv, MuxSound, Mux!TypeOK
<1>2. Mux!OverrideAlone BY <1>0 DEF MuxSound, MuxAlone, Mux!OverrideAlone
<1>3. Mux!NoDryPump
  <2> SUFFICES ASSUME ~({"hold", "manual"} \subseteq muxScene.commands), NEW l \in mux.pump
               PROVE  Mux!Feeds(l, mux.valve, mux.vent)
    BY DEF Mux!NoDryPump
  <2>1. CASE ~mux.manual BY <1>0, <2>1 DEF Pumped
  <2>2. CASE mux.manual
    <3>1. Driven(mux) BY <2>2 DEF MuxInv, MuxFits
    <3> QED BY <2>2, <3>1 DEF Driven
  <2> QED BY <2>1, <2>2
<1>4. Mux!NoCrossFlow
  <2> SUFFICES ASSUME NEW c \in Mux!Chambers, Mux!Both({c}) \subseteq mux.valve
               PROVE  c \in mux.vent
    BY DEF Mux!NoCrossFlow
  <2>1. <<c, "inflate">> \in mux.valve /\ <<c, "deflate">> \in mux.valve
    BY DEF Mux!Both, Mux!Sides
  <2>2. CASE mux.manual
    <3>1. <<c, "inflate">> \in mux.manValve /\ <<c, "deflate">> \in mux.manValve
      BY <1>0, <2>1, <2>2, MuxOverridden
    <3> QED BY <1>0, <3>1 DEF MuxSound, MuxVentFlag
  <2>3. CASE ~mux.manual
    <3> DEFINE i == Mux!LineOf(c, "inflate")
               k == Mux!LineOf(c, "deflate")
    <3>0. "inflate" \in Mux!Sides /\ "deflate" \in Mux!Sides BY DEF Mux!Sides
    <3>1. c \in mux.eng[i].open /\ c \in mux.eng[k].open
      BY <1>0, <2>1, <2>3, <3>0 DEF MuxSound, MuxOwned
    <3>2. /\ i \in Mux!Lines /\ c \in Manifolds[i[1]] /\ i[2] = "inflate"
          /\ k \in Mux!Lines /\ c \in Manifolds[k[1]] /\ k[2] = "deflate"
      BY <3>0, LineIs
    <3> HIDE DEF i, k
    <3>3. c \in mux.eng[i].pending /\ c \in mux.eng[k].pending BY <1>0, <3>1, <3>2, MuxEngine
    <3>4. i[1] = k[1] /\ i[2] # k[2] BY <3>2, LinesApart
    <3> QED BY <1>0, <3>2, <3>3, <3>4 DEF MuxSound, OwnChambers
  <2> QED BY <2>2, <2>3
<1>5. Mux!RoundIsPumped
  <2> SUFFICES ASSUME NEW l \in Mux!Lines, NEW c \in mux.eng[l].open
               PROVE  <<c, l[2]>> \in mux.valve /\ mux.act[c] = l[2] /\ l \in mux.pump
    BY DEF Mux!RoundIsPumped
  <2>1. <<c, l[2]>> \in mux.valve /\ mux.act[c] = l[2] BY <1>0 DEF MuxSound, SeenOpen
  <2>2. ~mux.manual BY <1>0 DEF MuxSound, MuxAlone, Mux!IdleEngine
  <2>3. mux.vent = {} BY <1>0, <2>2 DEF MuxSound, MuxAlone
  <2>4. c \in Manifolds[l[1]] BY <1>0, MuxEngine
  <2>5. Mux!Feeds(l, mux.valve, mux.vent) BY <2>1, <2>3, <2>4 DEF Mux!Feeds
  <2> QED BY <1>0, <2>1, <2>2, <2>5 DEF Pumped
<1> QED BY <1>1, <1>2, <1>3, <1>4, <1>5 DEF Mux!BoardSound

-----------------------------------------------------------------------------
(* The node *)

NodeInv == DirectInv /\ MuxInv

LEMMA NodeStep ==
  ASSUME NodeInv, [NodeNext]_<<kind, vars, directVars, muxVars>>
  PROVE  NodeInv'
<1>1. CASE UNCHANGED <<directVars, muxVars>>
  BY <1>1, DirectStay, MuxStay DEF NodeInv
<1>2. CASE Direct!Next /\ UNCHANGED muxVars BY <1>2, DirectNext, MuxStay DEF NodeInv
<1>3. CASE Mux!Next /\ UNCHANGED directVars BY <1>3, DirectStay, MuxNext DEF NodeInv
<1> QED BY <1>1, <1>2, <1>3 DEF NodeNext

LEMMA NodeInvariant == NodeSpec => []NodeInv
<1>1. NodeInit => NodeInv BY DirectInit, MuxInit DEF NodeInit, NodeInv
<1>2. NodeInv /\ [NodeNext]_<<kind, vars, directVars, muxVars>> => NodeInv' BY NodeStep
<1> QED BY <1>1, <1>2, PTL DEF NodeSpec

\* From an emergency stop to the re-arm both boards keep everything off,
\* whatever the PC sends them in between.
THEOREM LatchedCorrect == NodeSpec => []Latched
<1>1. NodeInv => Latched BY DirectLatched, MuxLatched DEF NodeInv, Latched
<1> QED BY <1>1, NodeInvariant, PTL

\* The hold engine has no valve open while a round or an override drives the
\* manifold, and none of a chamber a round has open.
THEOREM HoldYieldsCorrect == NodeSpec => []HoldYields
<1>1. NodeInv => HoldYields BY DirectYields DEF NodeInv, HoldYields
<1> QED BY <1>1, NodeInvariant, PTL

OwnedInv == NodeInv /\ Owned(board) /\ forgotten \subseteq board.valve

LEMMA OwnedInvariant == NodeSpec => []OwnedInv
<1>1. NodeInit => OwnedInv
  BY DirectInit, MuxInit DEF NodeInit, NodeInv, OwnedInv, Direct!Init
<1>2. OwnedInv /\ [NodeNext]_<<kind, vars, directVars, muxVars>> => OwnedInv'
  <2> SUFFICES ASSUME OwnedInv, [NodeNext]_<<kind, vars, directVars, muxVars>>
               PROVE  OwnedInv'
    OBVIOUS
  <2>1. NodeInv' BY NodeStep DEF OwnedInv
  <2>2. CASE UNCHANGED directVars BY <2>1, <2>2, DirectStay DEF OwnedInv, NodeInv, directVars
  <2>3. CASE Direct!Next
    BY <2>1, <2>3, DirectNext DEF OwnedInv, NodeInv, Direct!Next, Direct!Forgets
  <2> QED BY <2>2, <2>3 DEF NodeNext
<1> QED BY <1>1, <1>2, PTL DEF NodeSpec

\* Every valve a finished pass leaves open has an owner that will close it: a
\* round, the hold engine, or the dead-man of an override.  The only others are
\* valves of holds that one "hold_duty off" for all chambers released.
THEOREM NoOrphanCorrect == NodeSpec => []NoOrphan
<1>1. OwnedInv => NoOrphan BY DirectOwned, MuxNoOrphan DEF OwnedInv, NodeInv, NoOrphan
<1> QED BY <1>1, OwnedInvariant, PTL

RunningInv == OwnedInv /\ RunInv

LEMMA RunningInvariant == NodeSpec => []RunningInv
<1>1. NodeInit => RunInv BY RunInit DEF NodeInit
<1>2. OwnedInv /\ RunInv /\ [NodeNext]_<<kind, vars, directVars, muxVars>> => RunInv'
  BY RunNext, RunStay DEF OwnedInv, NodeInv, NodeNext
<1> QED BY <1>1, <1>2, OwnedInvariant, PTL DEF NodeSpec, RunningInv

\* The boards' own records agree with their valves and pumps after every control
\* pass: what a round or the hold engine believes open is open and pumped at the
\* right duty, no pump runs against closed valves, and no chamber is driven both
\* ways.
THEOREM BoardSoundCorrect == NodeSpec => []BoardSound
<1>1. RunningInv => BoardSound
  BY DirectAgrees, DirectOneWay, MuxBoardSound DEF RunningInv, OwnedInv, NodeInv, BoardSound
<1> QED BY <1>1, RunningInvariant, PTL

-----------------------------------------------------------------------------
(* The ring between the radio task and loop(): the slots being copied *)

\* What is in a slot that is being copied: the words already written are those
\* of the command, the words already read those of the slot.
Writing ==
  /\ in # None => Succ(head) # tail
  /\ in = None => pushing = {}
  /\ in # None => \A w \in Words \ pushing : queue[head][w] = in
Reading ==
  /\ busy => head # tail
  /\ ~busy => popping = {}
  /\ busy => \A w \in Words \ popping : out[w] = queue[tail][w]

\* Every waiting slot holds a whole command.
Stored == \A k \in 1 .. Count : \E c \in Cmds : queue[At(k)] = Whole(c)

RingInv == TypeOK /\ Writing /\ Reading /\ Stored

-----------------------------------------------------------------------------
(* Arithmetic of the ring *)

LEMMA SuccInRing == ASSUME NEW i \in Ring PROVE Succ(i) \in Ring /\ Succ(i) # i
BY QueueAssumption DEF Ring, Succ

LEMMA SuccInjective ==
  ASSUME NEW i \in Ring, NEW j \in Ring, Succ(i) = Succ(j)
  PROVE  i = j
BY QueueAssumption DEF Ring, Succ

LEMMA CountType ==
  ASSUME TypeOK
  PROVE  /\ Count \in 0 .. Slots - 1
         /\ Count = 0 <=> head = tail
         /\ Succ(head) = tail <=> Count = Slots - 1
BY QueueAssumption DEF TypeOK, Ring, Count, Succ

LEMMA AtType ==
  ASSUME TypeOK, NEW k \in 1 .. Count
  PROVE  At(k) \in Ring /\ At(k) # head
BY QueueAssumption DEF TypeOK, Ring, Count, At

LEMMA AtFirst == ASSUME TypeOK PROVE At(1) = tail
BY QueueAssumption DEF TypeOK, Ring, At

\* Advancing head adds one place at the end of the waiting commands ...
LEMMA AfterPublish ==
  ASSUME TypeOK, Succ(head) # tail, head' = Succ(head), tail' = tail
  PROVE  /\ Count' = Count + 1
         /\ At(Count)' = head
         /\ \A k \in 1 .. Count : At(k)' = At(k)
<1>1. /\ Slots \in Nat /\ Slots > 1
      /\ head \in Nat /\ tail \in Nat /\ head < Slots /\ tail < Slots
  BY QueueAssumption DEF TypeOK, Ring
<1>2. \A k \in 1 .. Count : At(k)' = At(k) BY DEF At
<1>3. CASE head = Slots - 1
  <2>1. head' = 0 /\ tail # 0 BY <1>3 DEF Succ
  <2>2. Count' = Slots - tail /\ Count = Slots - 1 - tail
    BY <1>1, <1>3, <2>1 DEF Count
  <2>3. Count' = Count + 1 /\ At(Count)' = head
    BY <1>1, <1>3, <2>2 DEF At
  <2> QED BY <1>2, <2>3
<1>4. CASE head # Slots - 1
  <2>1. head' = head + 1 /\ tail # head + 1 BY <1>4 DEF Succ
  <2>2. CASE head >= tail
    <3>1. Count' = head + 1 - tail /\ Count = head - tail
      BY <1>1, <2>1, <2>2 DEF Count
    <3>2. Count' = Count + 1 /\ At(Count)' = head
      BY <1>1, <1>4, <3>1 DEF At
    <3> QED BY <1>2, <3>2
  <2>3. CASE ~(head >= tail)
    <3>1. Count' = head + 1 + Slots - tail /\ Count = head + Slots - tail
      BY <1>1, <2>1, <2>3 DEF Count
    <3>2. Count' = Count + 1 /\ At(Count)' = head
      BY <1>1, <2>3, <3>1 DEF At
    <3> QED BY <1>2, <3>2
  <2> QED BY <2>2, <2>3
<1> QED BY <1>3, <1>4

\* ... and advancing tail takes the first place away.
LEMMA AfterReturn ==
  ASSUME TypeOK, head # tail, tail' = Succ(tail), head' = head
  PROVE  /\ Count' = Count - 1
         /\ \A k \in 1 .. Count' : At(k)' = At(k + 1)
<1>1. /\ Slots \in Nat /\ Slots > 1
      /\ head \in Nat /\ tail \in Nat /\ head < Slots /\ tail < Slots
  BY QueueAssumption DEF TypeOK, Ring
<1>2. CASE tail = Slots - 1
  <2>1. tail' = 0 BY <1>2 DEF Succ
  <2>2. Count' = head /\ Count = head + 1 BY <1>1, <1>2, <2>1 DEF Count
  <2>3. ASSUME NEW k \in 1 .. Count' PROVE At(k)' = At(k + 1)
    BY <1>1, <1>2, <2>1, <2>2 DEF At
  <2> QED BY <1>1, <2>2, <2>3
<1>3. CASE tail # Slots - 1
  <2>1. tail' = tail + 1 BY <1>3 DEF Succ
  <2>2. Count' = Count - 1 /\ Count' \in Nat BY <1>1, <1>3, <2>1 DEF Count
  <2>3. ASSUME NEW k \in 1 .. Count' PROVE At(k)' = At(k + 1)
    BY <1>1, <1>3, <2>1, <2>2 DEF At
  <2> QED BY <2>2, <2>3
<1> QED BY <1>2, <1>3

-----------------------------------------------------------------------------
(* The invariant is inductive *)

LEMMA RingTypeNext ==
  ASSUME TypeOK, [Next]_vars
  PROVE  TypeOK'
<1>1. Succ(head) \in Ring /\ Succ(tail) \in Ring BY SuccInRing DEF TypeOK
<1>2. CASE PushRefused BY <1>2 DEF PushRefused, vars, producer, consumer, TypeOK
<1>3. ASSUME NEW c \in Cmds, PushBegin(c) PROVE TypeOK'
  BY <1>3 DEF PushBegin, consumer, TypeOK
<1>4. ASSUME NEW w \in Words, PushWord(w) PROVE TypeOK'
  BY <1>4 DEF PushWord, consumer, TypeOK
<1>5. CASE PushPublish BY <1>1, <1>5 DEF PushPublish, consumer, TypeOK
<1>6. CASE PopBegin BY <1>6 DEF PopBegin, producer, TypeOK
<1>7. CASE PopReturn BY <1>1, <1>7 DEF PopReturn, producer, TypeOK
<1>8. ASSUME NEW w \in Words, PopWord(w) PROVE TypeOK'
  BY <1>8 DEF PopWord, producer, TypeOK
<1>9. CASE UNCHANGED vars BY <1>9 DEF vars, producer, consumer, TypeOK
<1> QED BY <1>2, <1>3, <1>4, <1>5, <1>6, <1>7, <1>8, <1>9 DEF Next, Push, Pop

\* A step that leaves the ring alone leaves the waiting commands alone.
LEMMA SameRing ==
  ASSUME UNCHANGED <<queue, head, tail>>
  PROVE  /\ Count' = Count /\ Waiting' = Waiting
         /\ Stored => Stored'
BY DEF Count, At, Waiting, Stored

LEMMA StepBegin ==
  ASSUME RingInv, NEW c \in Cmds, PushBegin(c)
  PROVE  Writing' /\ Reading' /\ Stored'
<1>1. UNCHANGED <<queue, head, tail, popping, out, busy>> /\ pushing' = Words
      /\ in' = c /\ Succ(head) # tail
  BY DEF PushBegin, consumer, Full
<1>2. Writing' BY <1>1, QueueAssumption DEF Writing, Succ, None
<1>3. Reading' BY <1>1 DEF RingInv, Reading
<1> QED BY <1>1, <1>2, <1>3, SameRing DEF RingInv

LEMMA StepWord ==
  ASSUME RingInv, NEW w \in Words, PushWord(w)
  PROVE  Writing' /\ Reading' /\ Stored' /\ Count' = Count /\ Waiting' = Waiting
<1>1. /\ w \in pushing /\ pushing' = pushing \ {w}
      /\ queue' = [queue EXCEPT ![head] = [@ EXCEPT ![w] = in]]
      /\ UNCHANGED <<head, in, tail, popping, out, busy>>
  BY DEF PushWord, consumer
<1>2. TypeOK /\ head \in Ring BY DEF RingInv, TypeOK
<1>3. in # None BY <1>1 DEF RingInv, Writing
<1>4. \A i \in Ring : i # head => queue'[i] = queue[i] BY <1>1, <1>2 DEF TypeOK
<1>5. \A v \in Words : queue'[head][v] = IF v = w THEN in ELSE queue[head][v]
  BY <1>1, <1>2 DEF TypeOK
<1>6. Writing' BY <1>1, <1>3, <1>5 DEF RingInv, Writing, Succ
<1>7. Reading' BY <1>1, <1>2, <1>4 DEF RingInv, Reading, TypeOK
<1>8. Count' = Count BY <1>1 DEF Count
<1>9. \A k \in 1 .. Count : At(k)' = At(k) /\ queue'[At(k)] = queue[At(k)]
  BY <1>1, <1>2, <1>4, AtType DEF At
<1>10. Stored' BY <1>8, <1>9 DEF RingInv, Stored
<1>11. Waiting' = Waiting BY <1>8, <1>9 DEF Waiting
<1> QED BY <1>6, <1>7, <1>8, <1>10, <1>11

LEMMA StepPublish ==
  ASSUME RingInv, PushPublish
  PROVE  /\ Writing' /\ Reading' /\ Stored'
         /\ in \in Cmds /\ Count < Slots - 1
         /\ Waiting' = Append(Waiting, Whole(in))
<1>1. /\ in # None /\ pushing = {} /\ head' = Succ(head) /\ in' = None
      /\ pushing' = {} /\ UNCHANGED <<queue, tail, popping, out, busy>>
  BY DEF PushPublish, Written, consumer
<1>2. TypeOK /\ Succ(head) # tail /\ in \in Cmds BY <1>1 DEF RingInv, Writing, TypeOK
<1>3. /\ Count' = Count + 1 /\ At(Count)' = head
      /\ \A k \in 1 .. Count : At(k)' = At(k)
  BY <1>1, <1>2, AfterPublish
<1>4. Count \in Nat /\ Count < Slots - 1
  BY <1>2, CountType, QueueAssumption
<1>5. queue[head] = Whole(in)
  BY <1>1, <1>2 DEF RingInv, Writing, Whole, TypeOK
<1>6. Writing' BY <1>1 DEF Writing
<1>7. Reading' BY <1>1, <1>2 DEF RingInv, Reading
<1>8. \A k \in 1 .. Count' : k \in 1 .. Count \/ k = Count'
  BY <1>3, <1>4
<1>9. Stored' BY <1>1, <1>2, <1>3, <1>5, <1>8 DEF RingInv, Stored
<1>10. Waiting' = Append(Waiting, Whole(in))
  BY <1>1, <1>3, <1>4, <1>5, <1>8 DEF Waiting
<1> QED BY <1>2, <1>4, <1>6, <1>7, <1>9, <1>10

LEMMA StepTake ==
  ASSUME RingInv, PopReturn
  PROVE  /\ Writing' /\ Reading' /\ Stored'
         /\ Waiting # <<>> /\ taken' = Head(Waiting) /\ Waiting' = Tail(Waiting)
<1>1. /\ busy /\ popping = {} /\ tail' = Succ(tail) /\ busy' = FALSE
      /\ popping' = {} /\ taken' = out
      /\ UNCHANGED <<queue, head, in, pushing, out>>
  BY DEF PopReturn, AllRead, producer
<1>2. TypeOK /\ head # tail BY <1>1 DEF RingInv, Reading
<1>3. Count' = Count - 1 /\ \A k \in 1 .. Count' : At(k)' = At(k + 1)
  BY <1>1, <1>2, AfterReturn
<1>4. Count \in Nat \ {0}
  BY <1>2, CountType, QueueAssumption
<1>5. out = queue[tail]
  BY <1>1, <1>2 DEF RingInv, Reading, TypeOK
<1>6. Succ(head) # Succ(tail) BY <1>2, SuccInjective DEF TypeOK
<1>7. Writing'
  <2>1. Succ(head)' = Succ(head) BY <1>1 DEF Succ
  <2> QED BY <1>1, <1>6, <2>1 DEF RingInv, Writing
<1>8. Reading' BY <1>1 DEF Reading
<1>9. Stored'
  <2>1. \A k \in 1 .. Count' : k + 1 \in 1 .. Count BY <1>3, <1>4
  <2> QED BY <1>1, <1>3, <2>1 DEF RingInv, Stored
<1>10. Waiting # <<>> /\ Head(Waiting) = queue[tail]
  BY <1>2, <1>4, AtFirst DEF Waiting
<1>11. Waiting' = Tail(Waiting)
  <2> DEFINE S == [Words -> Cmds \cup {None}]
  <2>1. \A k \in 1 .. Count : queue[At(k)] \in S
    BY <1>2, AtType DEF TypeOK
  <2>2. Waiting \in Seq(S) /\ Len(Waiting) = Count
    BY <1>4, <2>1 DEF Waiting
  <2>3. /\ Tail(Waiting) \in Seq(S) /\ Len(Tail(Waiting)) = Count - 1
        /\ \A k \in 1 .. Count - 1 : Tail(Waiting)[k] = Waiting[k + 1]
    BY <1>10, <2>2, HeadTailProperties
  <2>4. \A k \in 1 .. Count' : /\ queue'[At(k)'] = queue[At(k + 1)]
                               /\ k + 1 \in 1 .. Count
    BY <1>1, <1>3, <1>4
  <2>5. Waiting' \in Seq(S) /\ Len(Waiting') = Count - 1
    BY <1>3, <1>4, <2>1, <2>4 DEF Waiting
  <2>6. \A k \in 1 .. Count - 1 : Waiting'[k] = Waiting[k + 1]
    BY <1>3, <2>4 DEF Waiting
  <2> QED BY <2>3, <2>5, <2>6, SeqEqual
<1> QED BY <1>1, <1>5, <1>7, <1>8, <1>9, <1>10, <1>11

LEMMA RingInit == Init => RingInv
<1> SUFFICES ASSUME Init PROVE RingInv OBVIOUS
<1>1. TypeOK
  <2>1. Whole(None) \in [Words -> Cmds \cup {None}] BY DEF Whole
  <2>2. 0 \in Ring BY QueueAssumption DEF Ring
  <2> QED BY <2>1, <2>2 DEF Init, TypeOK
<1>2. Count = 0 BY DEF Init, Count
<1>3. Stored BY <1>2 DEF Stored
<1> QED BY <1>1, <1>3 DEF Init, RingInv, Writing, Reading

\* Every step keeps the invariant and is a step of the bounded queue.
LEMMA RingStep ==
  ASSUME RingInv, [Next]_vars
  PROVE  RingInv' /\ [Fifo!Next]_<<Waiting, taken>>
<1>1. TypeOK' BY RingTypeNext DEF RingInv
<1>2. CASE PushRefused \/ UNCHANGED vars
  <2>1. UNCHANGED <<queue, head, tail, pushing, in, popping, out, busy, taken>>
    BY <1>2 DEF PushRefused, vars, producer, consumer
  <2>2. Writing' /\ Reading' BY <2>1 DEF RingInv, Writing, Reading, Succ
  <2> QED BY <1>1, <2>1, <2>2, SameRing DEF RingInv
<1>3. ASSUME NEW c \in Cmds, PushBegin(c)
      PROVE  RingInv' /\ [Fifo!Next]_<<Waiting, taken>>
  <2>1. UNCHANGED <<queue, head, tail, taken>> BY <1>3 DEF PushBegin, consumer
  <2> QED BY <1>1, <1>3, <2>1, StepBegin, SameRing DEF RingInv
<1>4. ASSUME NEW w \in Words, PushWord(w)
      PROVE  RingInv' /\ [Fifo!Next]_<<Waiting, taken>>
  <2>1. taken' = taken BY <1>4 DEF PushWord, consumer
  <2> QED BY <1>1, <1>4, <2>1, StepWord DEF RingInv
<1>5. CASE PushPublish
  <2>1. taken' = taken /\ Whole(in) \in {Whole(c) : c \in Cmds}
    BY <1>5, StepPublish DEF PushPublish, consumer
  <2>2. Len(Waiting) = Count
    <3>1. Count \in Nat BY CountType, QueueAssumption DEF RingInv
    <3> QED BY <3>1 DEF Waiting
  <2>3. Fifo!Put(Whole(in)) BY <1>5, <2>1, <2>2, StepPublish DEF Fifo!Put
  <2> QED BY <1>1, <1>5, <2>1, <2>3, StepPublish DEF RingInv, Fifo!Next
<1>6. CASE PopBegin
  <2>1. /\ UNCHANGED <<queue, head, tail, pushing, in, out, taken>>
        /\ busy' = TRUE /\ popping' = Words /\ head # tail
    BY <1>6 DEF PopBegin, Empty, producer
  <2>2. Writing' /\ Reading' BY <2>1 DEF RingInv, Writing, Reading, Succ
  <2> QED BY <1>1, <2>1, <2>2, SameRing DEF RingInv
<1>7. ASSUME NEW w \in Words, PopWord(w)
      PROVE  RingInv' /\ [Fifo!Next]_<<Waiting, taken>>
  <2>1. /\ UNCHANGED <<queue, head, tail, pushing, in, busy, taken>>
        /\ w \in popping /\ popping' = popping \ {w}
        /\ out' = [out EXCEPT ![w] = queue[tail][w]]
    BY <1>7 DEF PopWord, producer
  <2>2. Writing' BY <2>1 DEF RingInv, Writing, Succ
  <2>3. busy /\ busy' BY <2>1 DEF RingInv, Reading
  <2>4. \A v \in Words : out'[v] = IF v = w THEN queue[tail][v] ELSE out[v]
    BY <2>1 DEF RingInv, TypeOK
  <2>5. Reading' BY <2>1, <2>3, <2>4 DEF RingInv, Reading
  <2> QED BY <1>1, <2>1, <2>2, <2>5, SameRing DEF RingInv
<1>8. CASE PopReturn
  <2>1. Fifo!Take BY <1>8, StepTake DEF Fifo!Take
  <2> QED BY <1>1, <1>8, <2>1, StepTake DEF RingInv, Fifo!Next
<1> QED BY <1>2, <1>3, <1>4, <1>5, <1>6, <1>7, <1>8 DEF Next, Push, Pop

-----------------------------------------------------------------------------
(* What the ring promises *)

LEMMA RingInvariant == Spec => []RingInv
<1>1. Init => RingInv BY RingInit
<1>2. RingInv /\ [Next]_vars => RingInv' BY RingStep
<1> QED BY <1>1, <1>2, PTL DEF Spec

\* The state of the ring and of its two tasks is well typed (cmd_queue.h).
THEOREM RingTypeCorrect == Spec => []TypeOK
<1>1. RingInv => TypeOK BY DEF RingInv
<1> QED BY <1>1, RingInvariant, PTL

\* push() and pop() are never in the same slot, for a ring of any size.
THEOREM NoSharedSlotCorrect == Spec => []NoSharedSlot
<1>1. RingInv => NoSharedSlot BY DEF RingInv, Reading, NoSharedSlot
<1> QED BY <1>1, RingInvariant, PTL

\* The ring is a bounded queue of whole commands: what the board's handlers
\* take from it is what the radio task put in, in that order.
THEOREM RingRefinement == Spec => ImplementsFifo
<1>1. Init => Fifo!Init
  <2> SUFFICES ASSUME Init PROVE Fifo!Init OBVIOUS
  <2>1. Count = 0 BY DEF Init, Count
  <2>2. Waiting = <<>> BY <2>1 DEF Waiting
  <2> QED BY <2>2 DEF Init, Fifo!Init
<1>2. RingInv /\ [Next]_vars => [Fifo!Next]_<<Waiting, taken>> BY RingStep
<1> QED BY <1>1, <1>2, RingInvariant, PTL DEF Spec, ImplementsFifo, Fifo!Spec
=============================================================================
