---------------------------- MODULE StudyProofs -----------------------------
(***************************************************************************)
(* Proofs about the three parts of Study.  About Session for every set of   *)
(* sessions, skins and participants, any number of restarts, and whatever   *)
(* the operator does; where a theorem says so, an operator who trashes no   *)
(* running session and retypes no id.  About FillCalibration for any        *)
(* chambers and batches of jobs, and about TouchSource for any sensors and  *)
(* any field their magnets are in.                                          *)
(***************************************************************************)
EXTENDS Study, FiniteSetTheorems, SequenceTheorems, WellFoundedInduction, TLAPS

Panel0   == DOMAIN Idle
Labels   == {"Pause", "Resume"}
Statuses == {None, "running", "paused", "failed"}

\* sess is the panel's record, whatever its touches and participants are.
SessShape == /\ sess = [f \in Panel0 |-> sess[f]]
             /\ sess.label \in Labels /\ sess.act \in Statuses

\* The button, and what is left to happen.
ButtonInv == left \in Mix /\ SessShape /\ LabelHonest

LEMMA PanelFields ==
  Panel0 = {"id", "act", "label", "kids", "robots", "who", "panel", "queue",
            "pending", "recording"}
BY DEF Panel0, Idle

LEMMA SpendTyped ==
  ASSUME left \in Mix,
         NEW what \in {"crash", "close", "touch", "release", "button", "trash"},
         Spend(what)
  PROVE  /\ left' \in Mix
         /\ left'.careful = left.careful
BY DEF Mix, Spend

LEMMA IdleShape == ASSUME sess' = Idle PROVE SessShape' /\ LabelHonest'
<1>1. sess' = [f \in Panel0 |-> sess'[f]] BY DEF Idle, Panel0
<1> QED BY <1>1 DEF SessShape, Idle, LabelHonest, Labels, Statuses, None

LEMMA BeginShape ==
  ASSUME left \in Mix, NEW s, NEW kids, NEW robots, NEW who, NEW rec,
         Begin(s, kids, robots, who, rec)
  PROVE  SessShape' /\ LabelHonest' /\ sess'.id = s
<1>1. PICK act \in left.starts :
        sess' = [Idle EXCEPT !.id = s, !.act = act, !.kids = kids, !.robots = robots,
                   !.who = who, !.panel = PanelFor(kids, robots, who), !.recording = rec]
  BY DEF Begin
<1>2. act \in {"running", "failed"} BY DEF Mix
<1>3. sess' = [id |-> s, act |-> act, label |-> "Pause", kids |-> kids, robots |-> robots,
               who |-> who, panel |-> PanelFor(kids, robots, who), queue |-> <<>>,
               pending |-> <<>>, recording |-> rec]
  BY <1>1 DEF Idle
<1>4. sess' = [f \in Panel0 |-> sess'[f]] BY <1>3, PanelFields
<1> QED BY <1>2, <1>3, <1>4 DEF SessShape, LabelHonest, Labels, Statuses

\* A step that leaves the label and the activity alone.
LEMMA SameButton ==
  ASSUME SessShape, LabelHonest, sess' = [f \in Panel0 |-> sess'[f]],
         sess'.label = sess.label, sess'.act = sess.act
  PROVE  SessShape' /\ LabelHonest'
BY DEF SessShape, LabelHonest

-----------------------------------------------------------------------------
(* The button *)

\* The steps that touch neither the panel's record nor what is left.
LEMMA ButtonStutters ==
  ASSUME ButtonInv, sess' = sess, left' \in Mix
  PROVE  ButtonInv'
BY DEF ButtonInv, SessShape, LabelHonest

LEMMA ButtonRestarts ==
  ASSUME ButtonInv, Process
  PROVE  ButtonInv'
<1>1. CASE Boot BY <1>1, ButtonStutters DEF Boot, ButtonInv
<1>2. CASE Close BY <1>2, IdleShape, SpendTyped DEF Close, Down, ButtonInv
<1>3. CASE Crash BY <1>3, IdleShape, SpendTyped DEF Crash, Down, ButtonInv
<1>4. CASE CrashDuringStart
  <2>1. Spend("crash") /\ sess' = Idle BY <1>4 DEF CrashDuringStart, Down
  <2> QED BY <2>1, IdleShape, SpendTyped DEF ButtonInv
<1> QED BY <1>1, <1>2, <1>3, <1>4 DEF Process

LEMMA ButtonPanel ==
  ASSUME ButtonInv, Panel
  PROVE  ButtonInv'
<1>1. CASE DeclineResume BY <1>1, ButtonStutters DEF DeclineResume, ButtonInv
<1>2. CASE AcceptResume
  <2> DEFINE s == MostRecent(ActiveSessions(db))
  <2>1. /\ \E who : Begin(s, db.kids[s], HasStartMeta(db, s), who, TRUE)
        /\ left' = left
    BY <1>2 DEF AcceptResume
  <2> QED BY <2>1, BeginShape DEF ButtonInv
<1>3. CASE NewSession
  <2>1. /\ \E s, u, who : Begin(s, u.kids, u.robots, who, u.record)
        /\ left' = left
    BY <1>3 DEF NewSession
  <2> QED BY <2>1, BeginShape DEF ButtonInv
<1>4. CASE StopSession BY <1>4, IdleShape DEF StopSession, ButtonInv
<1>5. CASE HidePanel
  <2>1. sess' = [sess EXCEPT !.panel = "hidden"] /\ left' = left BY <1>5 DEF HidePanel
  <2>2. /\ sess' = [f \in Panel0 |-> sess'[f]]
        /\ sess'.label = sess.label /\ sess'.act = sess.act
    BY <2>1, PanelFields DEF ButtonInv, SessShape
  <2> QED BY <2>1, <2>2, SameButton DEF ButtonInv
<1>6. CASE SkipTouch
  <2> DEFINE k    == Head(sess.queue)
             que  == Tail(sess.queue)
             pend == PendingAt(DOMAIN sess.pending \ {Min(OfSkin(k))})
  <2>1. left' = left BY <1>6 DEF SkipTouch
  <2>2. \/ sess' = [sess EXCEPT !.queue = que]
        \/ sess' = [sess EXCEPT !.queue = que, !.pending = pend]
    BY <1>6 DEF SkipTouch
  <2> HIDE DEF que, pend
  <2>3. /\ sess' = [f \in Panel0 |-> sess'[f]]
        /\ sess'.label = sess.label /\ sess'.act = sess.act
    BY <2>2, PanelFields DEF ButtonInv, SessShape
  <2> QED BY <2>1, <2>3, SameButton DEF ButtonInv
<1>7. CASE \E p \in sess.kids : AssignSkin(p)
  <2> PICK p \in sess.kids : AssignSkin(p) BY <1>7
  <2> DEFINE k    == Head(sess.queue)
             whos == [sess.who EXCEPT ![k] = p]
             que  == Tail(sess.queue)
             pend == OthersThan(k)
  <2>1. left' = left BY DEF AssignSkin
  <2>2. sess' = [sess EXCEPT !.who = whos, !.queue = que, !.pending = pend]
    BY DEF AssignSkin
  <2> HIDE DEF whos, que, pend
  <2>3. /\ sess' = [f \in Panel0 |-> sess'[f]]
        /\ sess'.label = sess.label /\ sess'.act = sess.act
    BY <2>2, PanelFields DEF ButtonInv, SessShape
  <2> QED BY <2>1, <2>3, SameButton DEF ButtonInv
<1> QED BY <1>1, <1>2, <1>3, <1>4, <1>5, <1>6, <1>7 DEF Panel

LEMMA ButtonHalting ==
  ASSUME ButtonInv, Halting
  PROVE  ButtonInv'
<1> USE DEF SessShape, LabelHonest, Labels, Statuses, Now, None
<1>1. CASE PauseButton
  <2>1. left' \in Mix BY <1>1, SpendTyped DEF PauseButton, ButtonInv
  <2>2. CASE sess.label = "Pause"
    <3>1. sess' = [sess EXCEPT !.label = "Resume", !.act = Now("paused")]
      BY <1>1, <2>2 DEF PauseButton
    <3> QED BY <2>1, <3>1, PanelFields DEF ButtonInv
  <2>3. CASE sess.label # "Pause"
    <3>1. sess' = [sess EXCEPT !.label = "Pause", !.act = Now("running")]
      BY <1>1, <2>3 DEF PauseButton
    <3> QED BY <2>1, <3>1, PanelFields DEF ButtonInv
  <2> QED BY <2>2, <2>3
<1>2. CASE EmergencyStop
  <2>1. left' \in Mix BY <1>2, SpendTyped DEF EmergencyStop, ButtonInv
  <2>2. CASE InSession
    <3>1. sess' = [sess EXCEPT !.label = "Resume", !.act = Now("paused")]
      BY <1>2, <2>2 DEF EmergencyStop
    <3> QED BY <2>1, <3>1, PanelFields DEF ButtonInv
  <2>3. CASE ~InSession BY <1>2, <2>1, <2>3, ButtonStutters DEF EmergencyStop
  <2> QED BY <2>2, <2>3
<1>3. CASE AskRearm BY <1>3, ButtonStutters DEF AskRearm, ButtonInv
<1>4. CASE AnswerRearm
  <2>1. left' \in Mix BY <1>4 DEF AnswerRearm, ButtonInv
  <2>2. CASE sess' = sess BY <2>1, <2>2, ButtonStutters
  <2>3. CASE sess' = [sess EXCEPT !.label = "Pause", !.act = Now("running")]
    BY <2>1, <2>3, PanelFields DEF ButtonInv
  <2> QED BY <1>4, <2>2, <2>3 DEF AnswerRearm
<1> QED BY <1>1, <1>2, <1>3, <1>4 DEF Halting

LEMMA ButtonTouches ==
  ASSUME ButtonInv, Touches
  PROVE  ButtonInv'
<1>1. CASE \E k \in Skins : Press(k)
  <2>1. PICK k \in Skins : Press(k) BY <1>1
  <2>2. left' \in Mix BY <2>1, SpendTyped DEF Press, ButtonInv
  <2>3. \/ sess' = sess
        \/ sess' = [sess EXCEPT !.pending = Append(@, [skin |-> k, no |-> left.touch]),
                                !.queue = Enqueue(@, k)]
    BY <2>1 DEF Press
  <2>4. CASE sess' = sess BY <2>2, <2>4, ButtonStutters
  <2>5. CASE sess' # sess
    <3> DEFINE pend == Append(sess.pending, [skin |-> k, no |-> left.touch])
               que  == Enqueue(sess.queue, k)
    <3>1. sess' = [sess EXCEPT !.pending = pend, !.queue = que] BY <2>3, <2>5
    <3> HIDE DEF pend, que
    <3>2. /\ sess' = [f \in Panel0 |-> sess'[f]]
          /\ sess'.label = sess.label /\ sess'.act = sess.act
      BY <3>1, PanelFields DEF ButtonInv, SessShape
    <3> QED BY <2>2, <3>2, SameButton DEF ButtonInv
  <2> QED BY <2>4, <2>5
<1>2. CASE \E k \in Skins : Release(k)
  <2>1. Spend("release") /\ sess' = sess BY <1>2 DEF Release
  <2> QED BY <2>1, SpendTyped, ButtonStutters DEF ButtonInv
<1> QED BY <1>1, <1>2 DEF Touches

LEMMA ButtonTrash ==
  ASSUME ButtonInv, Trashing
  PROVE  ButtonInv'
<1>1. sess' = sess /\ (left' = left \/ Spend("trash"))
  BY DEF Trashing, Trash, Restore, Purge, MoveFile
<1> QED BY <1>1, SpendTyped, ButtonStutters DEF ButtonInv

LEMMA ButtonWriter ==
  ASSUME ButtonInv, Writer \/ UNCHANGED vars
  PROVE  ButtonInv'
BY ButtonStutters DEF Writer, vars, ButtonInv

LEMMA ButtonInit == Init => ButtonInv
<1> SUFFICES ASSUME Init PROVE ButtonInv OBVIOUS
<1>1. left \in Mix BY MixesAssumption DEF Init
<1>2. sess = [f \in Panel0 |-> sess[f]] BY DEF Init, Idle, Panel0
<1> QED BY <1>1, <1>2
     DEF Init, Idle, ButtonInv, SessShape, LabelHonest, Labels, Statuses, None

LEMMA ButtonStep == ButtonInv /\ [Next]_vars => ButtonInv'
BY ButtonRestarts, ButtonPanel, ButtonHalting, ButtonTouches, ButtonTrash, ButtonWriter
   DEF Next

\* The one button that pauses and resumes says what it will do (_on_pause reads
\* its own text back), however often a session is stopped, re-armed or resumed.
THEOREM ButtonHonest == Spec => []LabelHonest
<1>1. ButtonInv => LabelHonest BY DEF ButtonInv
<1> QED BY ButtonInit, ButtonStep, <1>1, PTL DEF Spec

-----------------------------------------------------------------------------
(* The session without an end time.  A careless operator may give a session  *)
(* an id in use, or trash the one that runs: these facts are about one who   *)
(* does not.                                                                *)

Tables == DOMAIN EmptyDb
Rows   == {"none", "open", "ended"}

RowsTyped == db = [f \in Tables |-> db[f]] /\ db.row \in [Sessions -> Rows]

\* Nothing in the trash would come back open.
BinClosed == \A s \in DOMAIN db.bin : db.bin[s].row \in {"none", "ended"}

Asked == modal = "resume"
PanelKnows ==
  /\ sess.id \in Sessions \cup {0}
  /\ app = "down" => sess.id = 0 /\ ~Asked
  /\ Asked => sess.id = 0 /\ ActiveSessions(db) # {}
  /\ app # "down" /\ ~Asked => ActiveSessions(db) = {sess.id} \ {0}
  /\ \A s, t \in ActiveSessions(db) : s = t

Stored == RowsTyped /\ BinClosed
OpenInv == /\ left \in Mix /\ left.careful /\ app \in {"up", "down"}
           /\ SessShape /\ Stored /\ PanelKnows

LEMMA TableNames == Tables = {"row", "kids", "asg", "events", "bin", "last"}
BY DEF Tables, EmptyDb

\* What each transaction does to the rows and to the trash.
LEMMA SaveSessionRows ==
  ASSUME RowsTyped, NEW s, NEW r
  PROVE  LET e == SaveSession(db, s, r)
         IN  /\ e = [f \in Tables |-> e[f]]
             /\ e.row = [db.row EXCEPT ![s] = r] /\ e.bin = db.bin
BY TableNames DEF SaveSession, RowsTyped

LEMMA StartedRows ==
  ASSUME RowsTyped, NEW s, NEW u, NEW who
  PROVE  LET e == Started(s, u, who)
         IN  /\ e = [f \in Tables |-> e[f]]
             /\ e.row = [db.row EXCEPT ![s] = "open"] /\ e.bin = db.bin
<1> DEFINE d == SaveSession(db, s, "open")
           k == [d.kids EXCEPT ![s] = @ \cup u.kids]
           l == LinkParticipants(d, s, u.kids)
           a == [l.asg EXCEPT ![s] = [i \in Skins |-> @[i] \cup ({who[i]} \ {None})]]
<1>1. /\ d = [f \in Tables |-> d[f]]
      /\ d.row = [db.row EXCEPT ![s] = "open"] /\ d.bin = db.bin
  BY SaveSessionRows
<1>2. l = [d EXCEPT !.kids = k] BY DEF LinkParticipants
<1>3. Started(s, u, who) = [l EXCEPT !.asg = a] BY DEF Started
<1> HIDE DEF d, k, l, a
<1>4. l = [f \in Tables |-> l[f]] /\ l.row = d.row /\ l.bin = d.bin
  BY <1>1, <1>2, TableNames
<1> QED BY <1>1, <1>3, <1>4, TableNames

LEMMA EventsKeepRows ==
  ASSUME RowsTyped, NEW E
  PROVE  LET e == [db EXCEPT !.events = E]
         IN  e = [f \in Tables |-> e[f]] /\ e.row = db.row /\ e.bin = db.bin
BY TableNames DEF RowsTyped

LEMMA AssignmentKeepsRows ==
  ASSUME RowsTyped, NEW s, NEW k, NEW p
  PROVE  LET e == SaveAssignment(db, s, k, p)
         IN  e = [f \in Tables |-> e[f]] /\ e.row = db.row /\ e.bin = db.bin
<1> DEFINE a == [db.asg EXCEPT ![s][k] = @ \cup {p}]
<1>1. SaveAssignment(db, s, k, p) = [db EXCEPT !.asg = a] BY DEF SaveAssignment
<1> HIDE DEF a
<1> QED BY <1>1, TableNames DEF RowsTyped

LEMMA CloseRows ==
  ASSUME RowsTyped, NEW keep
  PROVE  LET e == CloseAllBut(db, keep)
         IN  /\ e = [f \in Tables |-> e[f]] /\ e.bin = db.bin
             /\ e.row = [s \in Sessions |-> IF db.row[s] = "open" /\ s \notin keep
                                              THEN "ended" ELSE db.row[s]]
<1> DEFINE r == [s \in Sessions |-> IF db.row[s] = "open" /\ s \notin keep
                                      THEN "ended" ELSE db.row[s]]
<1>1. CloseAllBut(db, keep) = [db EXCEPT !.row = r] BY DEF CloseAllBut
<1> HIDE DEF r
<1>2. LET e == [db EXCEPT !.row = r]
      IN  e = [f \in Tables |-> e[f]] /\ e.bin = db.bin /\ e.row = r
  BY TableNames DEF RowsTyped
<1> QED BY <1>1, <1>2 DEF r

LEMMA TrashRows ==
  ASSUME Stored, NEW E, NEW s \in Sessions, db.row[s] # "open"
  PROVE  LET d == TrashSession([db EXCEPT !.events = E], s)
         IN  /\ d = [f \in Tables |-> d[f]]
             /\ d.row = [db.row EXCEPT ![s] = "none"]
             /\ \A t \in DOMAIN d.bin : d.bin[t].row \in {"none", "ended"}
<1> DEFINE c == [db EXCEPT !.events = E]
           b == [t \in DOMAIN c.bin \cup {s} |-> IF t = s THEN Bundle(c, s) ELSE c.bin[t]]
           e == [c EXCEPT !.bin = b]
<1>1. c = [f \in Tables |-> c[f]] /\ c.row = db.row /\ c.bin = db.bin
  BY EventsKeepRows DEF Stored
<1>2. /\ DOMAIN b = {s} \cup DOMAIN db.bin
      /\ \A t \in DOMAIN b : b[t] = IF t = s THEN Bundle(c, s) ELSE db.bin[t]
  BY <1>1
<1>3. Bundle(c, s).row \in {"none", "ended"}
  BY <1>1 DEF Bundle, Stored, RowsTyped, Rows
<1>4. TrashSession(c, s) = DeleteLive(e, s) BY DEF TrashSession
<1> HIDE DEF b, c
<1>5. e = [f \in Tables |-> e[f]] /\ e.row = db.row /\ e.bin = b
  BY <1>1, TableNames
<1> HIDE DEF e
<1>6. LET d == DeleteLive(e, s)
      IN  /\ d = [f \in Tables |-> d[f]]
          /\ d.row = [e.row EXCEPT ![s] = "none"] /\ d.bin = e.bin
  BY <1>5, TableNames DEF DeleteLive
<1>7. \A t \in DOMAIN b : b[t].row \in {"none", "ended"}
  BY <1>2, <1>3 DEF Stored, BinClosed
<1> QED BY <1>4, <1>5, <1>6, <1>7 DEF c

LEMMA RestoreRows ==
  ASSUME Stored, NEW s \in DOMAIN db.bin
  PROVE  LET d == RestoreSession(db, s)
         IN  /\ d = [f \in Tables |-> d[f]]
             /\ d.row = db.row \/ \E r \in {"none", "ended"} : d.row = [db.row EXCEPT ![s] = r]
             /\ \A t \in DOMAIN d.bin : d.bin[t].row \in {"none", "ended"}
<1>1. CASE db.row[s] # "none"
  <2>1. RestoreSession(db, s) = db BY <1>1 DEF RestoreSession
  <2> QED BY <2>1 DEF Stored, RowsTyped, BinClosed
<1>2. CASE db.row[s] = "none"
  <2> DEFINE r    == [db.row EXCEPT ![s] = db.bin[s].row]
             k    == [db.kids EXCEPT ![s] = db.bin[s].kids]
             a    == [db.asg EXCEPT ![s] = db.bin[s].asg]
             e    == db.events \cup db.bin[s].events
             rest == Restrict(db.bin, DOMAIN db.bin \ {s})
  <2>1. RestoreSession(db, s) =
          [db EXCEPT !.row = r, !.kids = k, !.asg = a, !.events = e, !.bin = rest]
    BY <1>2 DEF RestoreSession
  <2>2. \A t \in DOMAIN rest : rest[t].row \in {"none", "ended"}
    BY DEF Restrict, Stored, BinClosed
  <2>3. db.bin[s].row \in {"none", "ended"} BY DEF Stored, BinClosed
  <2>4. r = [db.row EXCEPT ![s] = db.bin[s].row] OBVIOUS
  <2> HIDE DEF r, k, a, e, rest
  <2>5. LET d == [db EXCEPT !.row = r, !.kids = k, !.asg = a, !.events = e, !.bin = rest]
        IN  d = [f \in Tables |-> d[f]] /\ d.row = r /\ d.bin = rest
    BY TableNames DEF Stored, RowsTyped
  <2> QED BY <2>1, <2>2, <2>3, <2>4, <2>5
<1> QED BY <1>1, <1>2

LEMMA PurgeRows ==
  ASSUME Stored, NEW S
  PROVE  LET d == PurgeSessions(db, S)
         IN  /\ d = [f \in Tables |-> d[f]] /\ d.row = db.row
             /\ \A t \in DOMAIN d.bin : d.bin[t].row \in {"none", "ended"}
<1> DEFINE rest == Restrict(db.bin, DOMAIN db.bin \ S)
<1>1. PurgeSessions(db, S) = [db EXCEPT !.bin = rest] BY DEF PurgeSessions
<1>2. \A t \in DOMAIN rest : rest[t].row \in {"none", "ended"}
  BY DEF Restrict, Stored, BinClosed
<1> HIDE DEF rest
<1>3. LET d == [db EXCEPT !.bin = rest]
      IN  d = [f \in Tables |-> d[f]] /\ d.row = db.row /\ d.bin = rest
  BY TableNames DEF Stored, RowsTyped
<1> QED BY <1>1, <1>2, <1>3
-----------------------------------------------------------------------------
(* The steps *)

Careful == left \in Mix /\ left.careful

\* A step that leaves the rows, the panel's session and the question alone.
LEMMA QuietStep ==
  ASSUME OpenInv, Careful', SessShape', Stored', app' = app, sess'.id = sess.id,
         db'.row = db.row, Asked' <=> Asked
  PROVE  OpenInv'
<1>1. ActiveSessions(db)' = ActiveSessions(db) BY DEF ActiveSessions
<1> QED BY <1>1 DEF OpenInv, PanelKnows, Careful

\* The program ends.
LEMMA DownStep ==
  ASSUME OpenInv, Careful', Stored', Down,
         \A s, t \in ActiveSessions(db)' : s = t
  PROVE  OpenInv'
<1>1. SessShape' BY IdleShape DEF Down
<1>2. app' = "down" /\ modal' = None /\ sess'.id = 0 BY DEF Down, Idle
<1> QED BY <1>1, <1>2 DEF OpenInv, PanelKnows, Careful, Asked, None

\* A session begins when none is open.
LEMMA OneStarted ==
  ASSUME OpenInv, Clickable, ~InSession, NEW s \in Sessions,
         db'.row = [db.row EXCEPT ![s] = "open"]
  PROVE  ActiveSessions(db)' = {s}
<1>1. ActiveSessions(db) = {}
  BY DEF OpenInv, PanelKnows, Clickable, InSession, Asked, None
<1> QED BY <1>1 DEF ActiveSessions, OpenInv, Stored, RowsTyped

LEMMA RowsSet ==
  ASSUME Stored, NEW s, NEW r \in Rows
  PROVE  [db.row EXCEPT ![s] = r] \in [Sessions -> Rows]
BY DEF Stored, RowsTyped

LEMMA OpenBoot == ASSUME OpenInv, Boot PROVE OpenInv'
<1> DEFINE A == ActiveSessions(db)
<1>1. /\ app = "down" /\ app' = "up" /\ sess' = sess /\ left' = left
      /\ modal' = IF A = {} THEN None ELSE "resume"
      /\ db' = IF A = {} THEN db ELSE CloseAllBut(db, {MostRecent(A)})
  BY DEF Boot
<1>2. sess.id = 0 /\ \A s, t \in A : s = t
  BY <1>1 DEF OpenInv, PanelKnows
<1>3. SessShape' /\ Careful' BY <1>1 DEF OpenInv, SessShape, Careful
<1>4. CASE A = {}
  <2>1. db' = db /\ ~Asked' BY <1>1, <1>4 DEF Asked, None
  <2>2. Stored' BY <2>1 DEF OpenInv, Stored, RowsTyped, BinClosed
  <2>3. ActiveSessions(db)' = {} BY <1>4, <2>1 DEF ActiveSessions
  <2> QED BY <1>1, <1>2, <1>3, <2>1, <2>2, <2>3, StoreAssumption
        DEF OpenInv, PanelKnows, Careful
<1>5. CASE A # {}
  <2>1. PICK s \in A : A = {s} BY <1>2, <1>5
  <2>2. MostRecent(A) = s
    <3>1. s \in Nat BY StoreAssumption DEF ActiveSessions
    <3>2. \A t \in A : t <= s BY <2>1, <3>1
    <3>3. \E x \in A : \A t \in A : t <= x BY <3>2
    <3> HIDE DEF A
    <3> QED BY <2>1, <3>3 DEF MostRecent
  <2>3. db' = CloseAllBut(db, {s}) BY <1>1, <1>5, <2>2
  <2>4. db'.row = [x \in Sessions |-> IF db.row[x] = "open" /\ x \notin {s}
                                       THEN "ended" ELSE db.row[x]]
    BY <2>3, CloseRows DEF OpenInv, Stored
  <2>5. Stored'
    <3>1. CloseAllBut(db, {s}).row \in [Sessions -> Rows]
      BY <2>3, <2>4 DEF OpenInv, Stored, RowsTyped, Rows
    <3> QED BY <2>3, <3>1, CloseRows DEF OpenInv, Stored, RowsTyped, BinClosed
  <2>6. ActiveSessions(db)' = {s} BY <2>1, <2>4 DEF ActiveSessions
  <2>7. Asked' BY <1>1, <1>5 DEF Asked
  <2> QED BY <1>1, <1>2, <1>3, <2>5, <2>6, <2>7 DEF OpenInv, PanelKnows, Careful
<1> QED BY <1>4, <1>5

LEMMA OpenClose == ASSUME OpenInv, Close PROVE OpenInv'
<1> DEFINE E == db.events \cup Range(evq)
<1>1. Down /\ db' = [db EXCEPT !.events = E] /\ Careful'
  BY SpendTyped DEF Close, Flushed, OpenInv, Careful
<1>2. Stored' /\ db'.row = db.row
  <2> HIDE DEF E
  <2> QED BY <1>1, EventsKeepRows DEF OpenInv, Stored, RowsTyped, BinClosed
<1>3. \A s, t \in ActiveSessions(db)' : s = t
  BY <1>2 DEF OpenInv, PanelKnows, ActiveSessions
<1> QED BY <1>1, <1>2, <1>3, DownStep

LEMMA OpenCrash == ASSUME OpenInv, Crash PROVE OpenInv'
<1>1. Down /\ db' = db /\ Careful' BY SpendTyped DEF Crash, OpenInv, Careful
<1>2. Stored' /\ \A s, t \in ActiveSessions(db)' : s = t
  BY <1>1 DEF OpenInv, PanelKnows, Stored, RowsTyped, BinClosed, ActiveSessions
<1> QED BY <1>1, <1>2, DownStep

LEMMA StartedStored ==
  ASSUME OpenInv, NEW s \in Sessions, NEW u, NEW who, db' = Started(s, u, who)
  PROVE  Stored' /\ db'.row = [db.row EXCEPT ![s] = "open"]
<1>1. db' = [f \in Tables |-> db'[f]] /\ db'.bin = db.bin
      /\ db'.row = [db.row EXCEPT ![s] = "open"]
  BY StartedRows DEF OpenInv, Stored
<1>2. db'.row \in [Sessions -> Rows] BY <1>1, RowsSet DEF OpenInv, Rows
<1> QED BY <1>1, <1>2 DEF OpenInv, Stored, RowsTyped, BinClosed

LEMMA OfferedTyped == Offered \subseteq Sessions
BY DEF Offered

LEMMA OpenCrashDuringStart == ASSUME OpenInv, CrashDuringStart PROVE OpenInv'
<1>1. Clickable /\ ~InSession /\ Down /\ Careful'
  BY SpendTyped DEF CrashDuringStart, OpenInv, Careful
<1>2. PICK s \in Sessions : \E u, who : db' = Started(s, u, who)
  BY OfferedTyped DEF CrashDuringStart
<1>3. Stored' /\ db'.row = [db.row EXCEPT ![s] = "open"] BY <1>2, StartedStored
<1>4. ActiveSessions(db)' = {s} BY <1>1, <1>3, OneStarted
<1> QED BY <1>1, <1>3, <1>4, DownStep

LEMMA OpenNewSession == ASSUME OpenInv, NewSession PROVE OpenInv'
<1>1. /\ Clickable /\ ~InSession /\ app' = app /\ modal' = modal /\ left' = left
  BY DEF NewSession
<1>2. PICK s \in Sessions :
        \E u, who : db' = Started(s, u, u.who) /\ Begin(s, u.kids, u.robots, who, u.record)
  BY OfferedTyped DEF NewSession
<1>3. Stored' /\ db'.row = [db.row EXCEPT ![s] = "open"] BY <1>2, StartedStored
<1>4. ActiveSessions(db)' = {s} BY <1>1, <1>3, OneStarted
<1>5. SessShape' /\ sess'.id = s BY <1>2, BeginShape DEF OpenInv
<1>6. app' = "up" /\ ~Asked' /\ Careful'
  BY <1>1 DEF Clickable, Asked, None, OpenInv, Careful
<1> QED BY <1>3, <1>4, <1>5, <1>6, StoreAssumption DEF OpenInv, PanelKnows, Careful

LEMMA OpenDeclineResume == ASSUME OpenInv, DeclineResume PROVE OpenInv'
<1>1. /\ Asked /\ ~Asked' /\ db' = CloseAllBut(db, {}) /\ app' = app /\ sess' = sess
      /\ left' = left
  BY DEF DeclineResume, Asked, None
<1>2. /\ db' = [f \in Tables |-> db'[f]] /\ db'.bin = db.bin
      /\ db'.row = [s \in Sessions |-> IF db.row[s] = "open" /\ s \notin {}
                                         THEN "ended" ELSE db.row[s]]
  BY <1>1, CloseRows DEF OpenInv, Stored
<1>3. Stored' BY <1>2 DEF OpenInv, Stored, RowsTyped, BinClosed, Rows
<1>4. ActiveSessions(db)' = {} BY <1>2 DEF ActiveSessions
<1>5. SessShape' /\ Careful' BY <1>1 DEF OpenInv, SessShape, Careful
<1> QED BY <1>1, <1>3, <1>4, <1>5 DEF OpenInv, PanelKnows, Careful

LEMMA OpenAcceptResume == ASSUME OpenInv, AcceptResume PROVE OpenInv'
<1> DEFINE A == ActiveSessions(db)
<1>1. /\ Asked /\ ~Asked' /\ db' = db /\ app' = app /\ left' = left
      /\ \E who : Begin(MostRecent(A), db.kids[MostRecent(A)],
                        HasStartMeta(db, MostRecent(A)), who, TRUE)
  BY DEF AcceptResume, Asked, None
<1>2. PICK s \in A : A = {s} BY <1>1 DEF OpenInv, PanelKnows
<1>3. MostRecent(A) = s
  <2>1. s \in Nat BY StoreAssumption DEF ActiveSessions
  <2>2. \A t \in A : t <= s BY <1>2, <2>1
  <2> HIDE DEF A
  <2> QED BY <1>2, <2>2 DEF MostRecent
<1>4. SessShape' /\ sess'.id = s BY <1>1, <1>3, BeginShape DEF OpenInv
<1>5. s \in Sessions /\ s # 0 BY StoreAssumption DEF ActiveSessions
<1>6. Stored' /\ ActiveSessions(db)' = {s} /\ Careful'
  BY <1>1, <1>2 DEF OpenInv, Stored, RowsTyped, BinClosed, ActiveSessions, Careful
<1> QED BY <1>1, <1>4, <1>5, <1>6 DEF OpenInv, PanelKnows, Careful

LEMMA OpenStopSession == ASSUME OpenInv, StopSession PROVE OpenInv'
<1>1. /\ Clickable /\ InSession /\ db' = SaveSession(db, sess.id, "ended") /\ sess' = Idle
      /\ app' = app /\ modal' = modal /\ left' = left
  BY DEF StopSession
<1>2. /\ db' = [f \in Tables |-> db'[f]] /\ db'.bin = db.bin
      /\ db'.row = [db.row EXCEPT ![sess.id] = "ended"]
  BY <1>1, SaveSessionRows DEF OpenInv, Stored
<1>3. db'.row \in [Sessions -> Rows] BY <1>2, RowsSet DEF OpenInv, Rows
<1>4. Stored' BY <1>2, <1>3 DEF OpenInv, Stored, RowsTyped, BinClosed
<1>5. app = "up" /\ ~Asked /\ ~Asked' BY <1>1 DEF Clickable, Asked, None
<1>6. ActiveSessions(db) = {sess.id}
  BY <1>1, <1>5 DEF OpenInv, PanelKnows, InSession
<1>7. ActiveSessions(db)' = {}
  BY <1>2, <1>6 DEF ActiveSessions, OpenInv, Stored, RowsTyped
<1>8. SessShape' /\ sess'.id = 0 BY <1>1, IdleShape DEF Idle
<1> QED BY <1>1, <1>4, <1>5, <1>7, <1>8 DEF OpenInv, PanelKnows, Careful

\* Nothing the panel, the touches or the buttons do otherwise concerns the rows.
LEMMA SameRows == ASSUME Stored, db' = db PROVE Stored' /\ db'.row = db.row
BY DEF Stored, RowsTyped, BinClosed

LEMMA SameQuestion ==
  ASSUME OpenInv, ButtonInv', app' = app, modal' = modal \/ (~Asked /\ ~Asked'),
         left'.careful = left.careful, sess'.id = sess.id,
         Stored', db'.row = db.row
  PROVE  OpenInv'
BY QuietStep DEF ButtonInv, OpenInv, Careful, Asked

LEMMA OpenPanel ==
  ASSUME OpenInv, ButtonInv', HidePanel \/ SkipTouch \/ \E p \in sess.kids : AssignSkin(p)
  PROVE  OpenInv'
<1> USE PanelFields DEF OpenInv, SessShape
<1>1. CASE HidePanel
  <2>1. sess'.id = sess.id /\ Stored' /\ db'.row = db.row
    BY <1>1, SameRows DEF HidePanel
  <2> QED BY <1>1, <2>1, SameQuestion DEF HidePanel
<1>2. CASE SkipTouch
  <2> DEFINE k    == Head(sess.queue)
             que  == Tail(sess.queue)
             pend == PendingAt(DOMAIN sess.pending \ {Min(OfSkin(k))})
  <2>1. \/ sess' = [sess EXCEPT !.queue = que]
        \/ sess' = [sess EXCEPT !.queue = que, !.pending = pend]
    BY <1>2 DEF SkipTouch
  <2> HIDE DEF que, pend
  <2>2. sess'.id = sess.id BY <2>1
  <2>3. Stored' /\ db'.row = db.row BY <1>2, SameRows DEF SkipTouch
  <2> QED BY <1>2, <2>2, <2>3, SameQuestion DEF SkipTouch
<1>3. CASE \E p \in sess.kids : AssignSkin(p)
  <2> PICK p \in sess.kids : AssignSkin(p) BY <1>3
  <2> DEFINE k    == Head(sess.queue)
             whos == [sess.who EXCEPT ![k] = p]
             que  == Tail(sess.queue)
             pend == OthersThan(k)
  <2>1. /\ sess' = [sess EXCEPT !.who = whos, !.queue = que, !.pending = pend]
        /\ db' = SaveAssignment(db, sess.id, k, p)
    BY DEF AssignSkin
  <2> HIDE DEF whos, que, pend, k
  <2>2. sess'.id = sess.id BY <2>1
  <2>3. Stored' /\ db'.row = db.row
    BY <2>1, AssignmentKeepsRows DEF Stored, RowsTyped, BinClosed
  <2> QED BY <2>2, <2>3, SameQuestion DEF AssignSkin
<1> QED BY <1>1, <1>2, <1>3

LEMMA OpenHalting ==
  ASSUME OpenInv, ButtonInv', Halting
  PROVE  OpenInv'
<1>1. sess'.id = sess.id
  BY PanelFields DEF OpenInv, SessShape, Halting, PauseButton, EmergencyStop, AskRearm,
                     AnswerRearm
<1>2. app' = app /\ (modal' = modal \/ (~Asked /\ ~Asked'))
  BY DEF Halting, PauseButton, EmergencyStop, AskRearm, AnswerRearm, Asked, Clickable, None
<1>3. left' = left \/ Spend("button")
  BY DEF Halting, PauseButton, EmergencyStop, AskRearm, AnswerRearm
<1>4. Stored' /\ db'.row = db.row
  BY SameRows DEF OpenInv, Halting, PauseButton, EmergencyStop, AskRearm, AnswerRearm
<1> QED BY <1>1, <1>2, <1>3, <1>4, SpendTyped, SameQuestion DEF OpenInv

LEMMA OpenTouches ==
  ASSUME OpenInv, ButtonInv', Touches
  PROVE  OpenInv'
<1>1. PICK k \in Skins : Press(k) \/ Release(k) BY DEF Touches
<1>2. sess'.id = sess.id
  <2> DEFINE pend == Append(sess.pending, [skin |-> k, no |-> left.touch])
             que  == Enqueue(sess.queue, k)
  <2>1. sess' = sess \/ sess' = [sess EXCEPT !.pending = pend, !.queue = que]
    BY <1>1 DEF Press, Release
  <2> HIDE DEF pend, que
  <2> QED BY <2>1, PanelFields DEF OpenInv, SessShape
<1>3. Spend("touch") \/ Spend("release") BY <1>1 DEF Press, Release
<1>4. /\ app' = app /\ modal' = modal
      /\ Stored' /\ db'.row = db.row
  BY <1>1, SameRows DEF Press, Release, OpenInv
<1> QED BY <1>2, <1>3, <1>4, SpendTyped, SameQuestion DEF OpenInv

\* The session that runs is not in the trash, nor put there.
LEMMA OpenTrash ==
  ASSUME OpenInv, ButtonInv', NEW s \in Trashable, Trash(s)
  PROVE  OpenInv'
<1> DEFINE E == db.events \cup Range(evq)
<1>1. /\ Clickable /\ app' = app /\ modal' = modal /\ sess' = sess /\ Spend("trash")
      /\ db' = TrashSession([db EXCEPT !.events = E], s)
  BY DEF Trash, Flushed
<1> HIDE DEF E
<1>2. s \in Sessions /\ s # sess.id BY DEF Trashable, OpenInv
<1>3. ActiveSessions(db) = {sess.id} \ {0}
  BY <1>1 DEF OpenInv, PanelKnows, Clickable, Asked, None
<1>4. db.row[s] # "open" BY <1>2, <1>3 DEF ActiveSessions
<1>5. /\ db' = [f \in Tables |-> db'[f]]
      /\ db'.row = [db.row EXCEPT ![s] = "none"]
      /\ \A t \in DOMAIN db'.bin : db'.bin[t].row \in {"none", "ended"}
  BY <1>1, <1>2, <1>4, TrashRows DEF OpenInv
<1>6. db'.row \in [Sessions -> Rows] BY <1>5, RowsSet DEF OpenInv, Rows
<1>7. Stored' BY <1>5, <1>6 DEF Stored, RowsTyped, BinClosed
<1>8. ActiveSessions(db)' = ActiveSessions(db)
  BY <1>2, <1>4, <1>5 DEF ActiveSessions, OpenInv, Stored, RowsTyped
<1>9. Careful' /\ SessShape' BY <1>1, SpendTyped DEF OpenInv, Careful, ButtonInv
<1> QED BY <1>1, <1>7, <1>8, <1>9 DEF OpenInv, PanelKnows, Careful, Asked

LEMMA OpenRestore ==
  ASSUME OpenInv, ButtonInv', NEW s \in DOMAIN db.bin, Restore(s)
  PROVE  OpenInv'
<1>1. /\ Clickable /\ app' = app /\ modal' = modal /\ sess' = sess /\ Spend("trash")
      /\ db' = RestoreSession(db, s)
  BY DEF Restore
<1>2. /\ db' = [f \in Tables |-> db'[f]]
      /\ db'.row = db.row \/ \E r \in {"none", "ended"} : db'.row = [db.row EXCEPT ![s] = r]
      /\ \A t \in DOMAIN db'.bin : db'.bin[t].row \in {"none", "ended"}
  BY <1>1, RestoreRows DEF OpenInv
<1>3. db.row[s] = "none" \/ db'.row = db.row
  BY <1>1 DEF RestoreSession
<1>4. Stored'
  <2>1. db'.row \in [Sessions -> Rows] BY <1>2, RowsSet DEF OpenInv, Rows, Stored, RowsTyped
  <2> QED BY <1>2, <2>1 DEF Stored, RowsTyped, BinClosed
<1>5. ActiveSessions(db)' = ActiveSessions(db)
  BY <1>2, <1>3 DEF ActiveSessions, OpenInv, Stored, RowsTyped
<1>6. Careful' /\ SessShape' BY <1>1, SpendTyped DEF OpenInv, Careful, ButtonInv
<1> QED BY <1>1, <1>4, <1>5, <1>6 DEF OpenInv, PanelKnows, Careful, Asked

LEMMA OpenTrashing ==
  ASSUME OpenInv, ButtonInv', Trashing
  PROVE  OpenInv'
<1>1. CASE \E s \in Trashable : Trash(s) BY <1>1, OpenTrash
<1>2. CASE \E s \in DOMAIN db.bin : Restore(s) BY <1>2, OpenRestore
<1>3. CASE \E S : Purge(S)
  <2>1. PICK S : Purge(S) BY <1>3
  <2>2. /\ app' = app /\ modal' = modal /\ sess' = sess /\ Spend("trash")
        /\ db' = PurgeSessions(db, S)
    BY <2>1 DEF Purge
  <2>3. Stored' /\ db'.row = db.row
    BY <2>2, PurgeRows DEF OpenInv, Stored, RowsTyped, BinClosed
  <2> QED BY <2>2, <2>3, SpendTyped, SameQuestion DEF OpenInv
<1>4. CASE \E s \in Sessions : MoveFile(s)
  <2>1. app' = app /\ modal' = modal /\ sess' = sess /\ db' = db /\ left' = left
    BY <1>4 DEF MoveFile
  <2> QED BY <2>1, SameRows, SameQuestion DEF OpenInv
<1> QED BY <1>1, <1>2, <1>3, <1>4 DEF Trashing

LEMMA OpenWriter ==
  ASSUME OpenInv, ButtonInv', Writer \/ UNCHANGED vars
  PROVE  OpenInv'
<1>1. CASE Writer
  <2> DEFINE E == db.events \cup {Head(evq)}
  <2>1. /\ app' = app /\ modal' = modal /\ sess' = sess /\ left' = left
        /\ db' = db \/ db' = [db EXCEPT !.events = E]
    BY <1>1 DEF Writer, WriteEvent
  <2> HIDE DEF E
  <2>2. Stored' /\ db'.row = db.row
    <3>1. CASE db' = db BY <3>1, SameRows DEF OpenInv
    <3>2. CASE db' = [db EXCEPT !.events = E]
      BY <3>2, EventsKeepRows DEF OpenInv, Stored, RowsTyped, BinClosed
    <3> QED BY <2>1, <3>1, <3>2
  <2> QED BY <2>1, <2>2, SameQuestion
<1>2. CASE UNCHANGED vars BY <1>2, SameRows, SameQuestion DEF vars, OpenInv
<1> QED BY <1>1, <1>2

LEMMA OpenStep ==
  ASSUME OpenInv, ButtonInv', [Next]_vars
  PROVE  OpenInv'
<1>1. CASE Process
  BY <1>1, OpenBoot, OpenClose, OpenCrash, OpenCrashDuringStart DEF Process
<1>2. CASE Panel
  BY <1>2, OpenDeclineResume, OpenAcceptResume, OpenNewSession, OpenStopSession, OpenPanel
     DEF Panel
<1> QED BY <1>1, <1>2, OpenHalting, OpenTouches, OpenTrashing, OpenWriter DEF Next

LEMMA OpenInit ==
  ASSUME Init, \A m \in Mixes : m.careful
  PROVE  OpenInv
<1>1. left \in Mix /\ left.careful BY MixesAssumption DEF Init
<1>2. SessShape /\ sess.id = 0
  <2>1. sess = [f \in Panel0 |-> sess[f]] BY DEF Init, Idle, Panel0
  <2> QED BY <2>1 DEF Init, Idle, SessShape, Labels, Statuses
<1>3. Stored
  <2>1. db = [f \in Tables |-> db[f]] BY DEF Init, Tables, EmptyDb
  <2>2. db.row = [s \in Sessions |-> "none"] /\ db.bin = <<>> BY DEF Init, EmptyDb
  <2> QED BY <2>1, <2>2 DEF Stored, RowsTyped, BinClosed, Rows
<1>4. ActiveSessions(db) = {} BY DEF Init, EmptyDb, ActiveSessions
<1> QED BY <1>1, <1>2, <1>3, <1>4 DEF Init, OpenInv, PanelKnows, Asked, None

\* With a careful operator, once the question of resuming is answered the one
\* session without an end time is the panel's, and there is never a second, over
\* any crashes, restarts and uses of the trash (_check_for_resume).
THEOREM OpenStaysCurrent ==
  ASSUME \A m \in Mixes : m.careful
  PROVE  Spec => []OpenIsCurrent
<1>1. Init => ButtonInv /\ OpenInv BY ButtonInit, OpenInit
<1>2. ButtonInv /\ OpenInv /\ [Next]_vars => (ButtonInv /\ OpenInv)'
  BY ButtonStep, OpenStep
<1>3. OpenInv => OpenIsCurrent
  <2> SUFFICES ASSUME OpenInv PROVE OpenIsCurrent OBVIOUS
  <2>1. Cardinality(ActiveSessions(db)) <= 1
    <3>1. CASE ActiveSessions(db) = {} BY <3>1, FS_EmptySet
    <3>2. CASE ActiveSessions(db) # {}
      <4>1. PICK s : ActiveSessions(db) = {s} BY <3>2 DEF OpenInv, PanelKnows
      <4>2. Cardinality({s}) = 1 BY FS_Singleton
      <4> QED BY <4>1, <4>2
    <3> QED BY <3>1, <3>2
  <2> QED BY <2>1 DEF OpenInv, PanelKnows, OpenIsCurrent, Asked
<1> QED BY <1>1, <1>2, <1>3, PTL DEF Spec
-----------------------------------------------------------------------------
(* Sequences *)

LEMMA InRange ==
  ASSUME NEW E, NEW q \in Seq(E)
  PROVE  q \in Seq(Range(q)) /\ Range(q) \subseteq E
BY RangeOfSeq, SeqOfRange

LEMMA RangeAppend ==
  ASSUME NEW q, q \in Seq(Range(q)), NEW x
  PROVE  /\ Append(q, x) \in Seq(Range(Append(q, x)))
         /\ Range(Append(q, x)) = Range(q) \cup {x}
<1> DEFINE E == Range(q) \cup {x}  a == Append(q, x)
<1>1. q \in Seq(E) /\ x \in E BY SeqMonotonic
<1> HIDE DEF E
<1>2. /\ a \in Seq(E) /\ Len(a) = Len(q) + 1 /\ Len(q) \in Nat /\ DOMAIN q = 1 .. Len(q)
      /\ \A i \in 1 .. Len(q) : a[i] = q[i]
      /\ a[Len(q) + 1] = x
  BY <1>1, AppendProperties, LenProperties
<1> HIDE DEF a
<1>3. DOMAIN a = 1 .. Len(q) + 1 BY <1>2, LenProperties
<1>4. Range(a) = Range(q) \cup {x}
  <2>1. Range(a) = {a[i] : i \in 1 .. Len(q) + 1} BY <1>3 DEF Range
  <2>2. Range(q) = {q[i] : i \in 1 .. Len(q)} BY <1>2 DEF Range
  <2> QED BY <1>2, <2>1, <2>2
<1>5. a \in Seq(Range(a)) BY <1>2, InRange
<1> QED BY <1>4, <1>5 DEF a

LEMMA RangeTail ==
  ASSUME NEW q, q \in Seq(Range(q)), q # <<>>
  PROVE  /\ Tail(q) \in Seq(Range(Tail(q))) /\ Head(q) \in Range(q)
         /\ Range(Tail(q)) \subseteq Range(q)
<1>1. Head(q) \in Range(q) /\ Tail(q) \in Seq(Range(q)) BY HeadTailProperties
<1> QED BY <1>1, InRange

LEMMA RangeConcat ==
  ASSUME NEW q, NEW r, q \in Seq(Range(q)), r \in Seq(Range(r))
  PROVE  /\ q \o r \in Seq(Range(q \o r))
         /\ Range(q \o r) = Range(q) \cup Range(r)
<1>1. q \in Seq(Range(q) \cup Range(r)) /\ r \in Seq(Range(q) \cup Range(r))
  BY SeqMonotonic
<1>2. q \o r \in Seq(Range(q) \cup Range(r)) BY <1>1, ConcatProperties
<1> QED BY <1>1, <1>2, RangeConcatenation, InRange

LEMMA NothingQueued == <<>> \in Seq(Range(<<>>)) /\ Range(<<>>) = {}
<1>1. Range(<<>>) = {} BY DEF Range
<1> QED BY EmptySeq, <1>1

LEMMA Less == OpToRel(<, Nat) = {ss \in Nat \X Nat : ss[1] < ss[2]}
BY DEF OpToRel

\* A set of numbers has a least one.
LEMMA LeastPlace ==
  ASSUME NEW P, P \subseteq Nat, P # {}
  PROVE  Min(P) \in P /\ \A y \in P : Min(P) <= y
<1>1. IsWellFoundedOn(OpToRel(<, Nat), Nat) BY NatLessThanWellFounded
<1>2. PICK x \in P : \A y \in P : ~(<<y, x>> \in OpToRel(<, Nat)) BY <1>1, WFMin
<1>3. \A y \in P : ~(y < x) BY <1>2, Less
<1>4. \E z \in P : \A y \in P : z =< y BY <1>3
<1> QED BY <1>4 DEF Min

-----------------------------------------------------------------------------
(* The touches that wait, by their places in the list *)

\* How many of the places come up to one of them.
Rank(P, i) == Cardinality({j \in P : j <= i})

LEMMA RankTyped ==
  ASSUME NEW n \in Nat, NEW P, P \subseteq 1 .. n
  PROVE  /\ IsFiniteSet(P) /\ Cardinality(P) \in Nat
         /\ \A i \in P : Rank(P, i) \in 1 .. Cardinality(P)
         /\ \A i, j \in P : Rank(P, i) = Rank(P, j) => i = j
<1>1. IsFiniteSet(P)
  <2>1. IsFiniteSet(1 .. n) BY FS_Interval
  <2> QED BY <2>1, FS_Subset
<1>2. Cardinality(P) \in Nat BY <1>1, FS_CardinalityType
<1>3. ASSUME NEW i \in P PROVE Rank(P, i) \in 1 .. Cardinality(P)
  <2> DEFINE U == {j \in P : j <= i}
  <2>1. U \in SUBSET P /\ i \in U OBVIOUS
  <2>2. IsFiniteSet(U) /\ Cardinality(U) <= Cardinality(P) /\ Cardinality(U) \in Nat
    BY <1>1, <2>1, FS_Subset, FS_CardinalityType
  <2>3. Cardinality(U) # 0 BY <2>1, <2>2, FS_EmptySet
  <2> QED BY <1>2, <2>2, <2>3 DEF Rank
<1>4. ASSUME NEW i \in P, NEW j \in P, i < j PROVE Rank(P, i) # Rank(P, j)
  <2> DEFINE U == {x \in P : x <= i}  V == {x \in P : x <= j}
  <2>1. V \in SUBSET P /\ IsFiniteSet(V) BY <1>1, FS_Subset
  <2>2. U \in SUBSET V /\ j \in V /\ j \notin U
    <3>1. i \in Nat /\ j \in Nat /\ i < j BY <1>4
    <3>2. ASSUME NEW x \in P, x <= i PROVE x <= j
      <4>1. x \in Nat OBVIOUS
      <4> QED BY <3>1, <3>2, <4>1
    <3>3. j <= j /\ ~(j <= i) BY <3>1
    <3> QED BY <3>2, <3>3
  <2>3. U # V BY <2>2
  <2> HIDE DEF U, V
  <2>4. Cardinality(V) # Cardinality(U) BY <2>1, <2>2, <2>3, FS_Subset
  <2> QED BY <2>4 DEF U, V, Rank
<1>5. ASSUME NEW i \in P, NEW j \in P, Rank(P, i) = Rank(P, j) PROVE i = j
  <2>1. i \in Nat /\ j \in Nat OBVIOUS
  <2> QED BY <1>4, <1>5, <2>1
<1> QED BY <1>1, <1>2, <1>3, <1>5

\* The n-th place is the one with rank n, and there is one for each n.
LEMMA EveryRank ==
  ASSUME NEW n \in Nat, NEW P, P \subseteq 1 .. n, NEW r \in 1 .. Cardinality(P)
  PROVE  \E i \in P : Rank(P, i) = r
<1> DEFINE f == [i \in P |-> Rank(P, i)]  T == 1 .. Cardinality(P)
<1>1. IsFiniteSet(P) /\ Cardinality(P) \in Nat BY RankTyped
<1>2. f \in Injection(P, T)
  <2>1. f \in [P -> T] BY RankTyped
  <2>2. \A i, j \in P : f[i] = f[j] => i = j BY RankTyped
  <2> QED BY <2>1, <2>2 DEF Injection, IsInjective
<1>3. IsFiniteSet(T) /\ Cardinality(T) = Cardinality(P)
  <2>1. IsFiniteSet(1 .. Cardinality(P)) BY <1>1, FS_Interval
  <2>2. Cardinality(1 .. Cardinality(P)) = IF 1 > Cardinality(P) THEN 0
                                           ELSE Cardinality(P) - 1 + 1
    BY <1>1, FS_Interval
  <2> QED BY <1>1, <2>1, <2>2
<1> HIDE DEF T, f
<1>4. f \in Surjection(P, T) BY <1>2, <1>3, FS_Injection
<1>5. \E i \in P : f[i] = r BY <1>4 DEF Surjection, T
<1> QED BY <1>5 DEF f

LEMMA PendingTyped ==
  ASSUME sess.pending \in Seq(Range(sess.pending)), NEW P, P \subseteq DOMAIN sess.pending
  PROVE  /\ DOMAIN PendingAt(P) = 1 .. Cardinality(P) /\ Cardinality(P) \in Nat
         /\ PendingAt(P) \in Seq(Range(PendingAt(P)))
         /\ Range(PendingAt(P)) = {sess.pending[i] : i \in P}
<1> DEFINE n == Len(sess.pending)  q == PendingAt(P)  R == {sess.pending[i] : i \in P}
           at(r) == CHOOSE i \in P : Rank(P, i) = r
<1>1. n \in Nat /\ DOMAIN sess.pending = 1 .. n BY LenProperties
<1>2. P \subseteq 1 .. n BY <1>1
<1> HIDE DEF n
<1>3. Cardinality(P) \in Nat /\ \A i \in P : Rank(P, i) \in 1 .. Cardinality(P)
  BY <1>1, <1>2, RankTyped
<1>4. ASSUME NEW r \in 1 .. Cardinality(P) PROVE at(r) \in P /\ Rank(P, at(r)) = r
  BY <1>1, <1>2, EveryRank
<1>5. ASSUME NEW i \in P PROVE at(Rank(P, i)) = i
  <2>1. at(Rank(P, i)) \in P /\ Rank(P, at(Rank(P, i))) = Rank(P, i) OBVIOUS
  <2> HIDE DEF at
  <2> QED BY <1>1, <1>2, <2>1, RankTyped
<1>6. q = [r \in 1 .. Cardinality(P) |-> sess.pending[at(r)]] BY DEF PendingAt, Rank
<1> HIDE DEF at, q
<1>7. DOMAIN q = 1 .. Cardinality(P) BY <1>6
<1>8. Range(q) = R
  <2>1. ASSUME NEW r \in 1 .. Cardinality(P) PROVE q[r] \in R BY <1>4, <1>6
  <2>2. ASSUME NEW i \in P PROVE sess.pending[i] \in Range(q)
    <3>1. Rank(P, i) \in DOMAIN q /\ q[Rank(P, i)] = sess.pending[i] BY <1>3, <1>5, <1>6
    <3> QED BY <3>1 DEF Range
  <2> QED BY <1>7, <2>1, <2>2 DEF Range
<1>9. q \in Seq(Range(q))
  <2>1. q \in [1 .. Cardinality(P) -> Range(q)] BY <1>6, <1>7 DEF Range
  <2> QED BY <1>3, <2>1, SeqDef
<1> QED BY <1>3, <1>7, <1>8, <1>9 DEF q

LEMMA PendingOnce ==
  ASSUME sess.pending \in Seq(Range(sess.pending)), NEW P, P \subseteq DOMAIN sess.pending,
         \A i, j \in P : sess.pending[i].no = sess.pending[j].no => i = j
  PROVE  \A r, q \in DOMAIN PendingAt(P) :
           PendingAt(P)[r].no = PendingAt(P)[q].no => r = q
<1> DEFINE n == Len(sess.pending)
           at(r) == CHOOSE i \in P : Rank(P, i) = r
           T == 1 .. Cardinality(P)
<1>1. n \in Nat /\ DOMAIN sess.pending = 1 .. n BY LenProperties
<1>2. P \subseteq 1 .. n BY <1>1
<1> HIDE DEF n
<1>3. ASSUME NEW r \in T PROVE at(r) \in P /\ Rank(P, at(r)) = r
  BY <1>1, <1>2, EveryRank
<1>4. DOMAIN PendingAt(P) = T /\ \A r \in T : PendingAt(P)[r] = sess.pending[at(r)]
  BY DEF PendingAt, Rank
<1> HIDE DEF at, T
<1> SUFFICES ASSUME NEW r \in T, NEW q \in T, sess.pending[at(r)].no = sess.pending[at(q)].no
             PROVE  r = q
  BY <1>4
<1>5. at(r) = at(q) BY <1>3
<1> QED BY <1>3, <1>5

-----------------------------------------------------------------------------
(* What is stored: the tables, the trash and the recordings.                *)

\* Whom the skins of a session are assigned to: nobody, or one child each.
Maps == {a \in [Skins -> SUBSET People] : \A k \in Skins : \A p, q \in a[k] : p = q}

TablesTyped == /\ db.kids \in [Sessions -> SUBSET People]
               /\ db.asg \in [Sessions -> Maps] /\ db.last \in Nat

\* What lies in the trash under an id is of that session, which had ended.
BundleOf(s, b) == /\ b.row = "ended" /\ b.kids \subseteq People /\ b.asg \in Maps
                  /\ \A e \in b.events : e.s = s
BinSound == /\ DOMAIN db.bin \subseteq Sessions
            /\ \A s \in DOMAIN db.bin : BundleOf(s, db.bin[s])

\* What was written, and what waits to be, is of sessions that have a row.
Live(e) == e.s \in Sessions /\ db.row[e.s] # "none"
Queued  == evq \in Seq(Range(evq)) /\ \A e \in Range(evq) : Live(e)
Written == (\A e \in db.events : Live(e)) /\ NoOrphans

\* Ids in use, in the trash as well, are below the one offered next.
Counter == \A s \in Sessions : db.row[s] # "none" \/ s \in DOMAIN db.bin => s <= db.last

DbInv == TablesTyped /\ BinSound /\ Queued /\ Written /\ Restorable /\ Counter

\* The panel's own copy of it: who is on the panel, whose skin the operator is
\* asked about, once and never again, and what waits for the answer.
PanelTyped ==
  /\ sess.kids \subseteq People /\ sess.who \in [Skins -> People \cup {None}]
  /\ sess.queue \in Seq(Skins) /\ IsInjective(sess.queue)
  /\ \A k \in Range(sess.queue) : sess.who[k] = None
  /\ sess.pending \in Seq(Range(sess.pending))
  /\ \A t \in Range(sess.pending) : t.skin \in Skins
  /\ ~InSession => sess = Idle
ModalTyped == modal \in {None, "resume", "rearm"}

\* The files still to be moved belong to a transaction that took place.
FileMap == [Sessions -> SUBSET Nat]
DiskTyped == /\ files \in [live : FileMap, bin : FileMap] /\ run \in Nat
             /\ owed \in [op : {None, "trash", "restore", "purge"}, of : SUBSET Sessions]
OwedKnown == /\ owed.op = None => owed.of = {}
             /\ owed.op = "trash" => owed.of \subseteq DOMAIN db.bin
             /\ owed.op = "restore" => \A s \in owed.of : db.row[s] # "none"
DiskInv == DiskTyped /\ OwedKnown /\ RecordingsFollow

StoreInv == DbInv /\ PanelTyped /\ ModalTyped /\ DurableMap /\ DiskInv

-----------------------------------------------------------------------------
(* What each transaction leaves of the tables *)

LEMMA DbRecord ==
  ASSUME RowsTyped
  PROVE  db = [row |-> db.row, kids |-> db.kids, asg |-> db.asg, events |-> db.events,
               bin |-> db.bin, last |-> db.last]
BY TableNames DEF RowsTyped

LEMMA StartedTables ==
  ASSUME RowsTyped, TablesTyped, NEW s \in Sessions, NEW u, NEW who
  PROVE  Started(s, u, who) =
           [row |-> [db.row EXCEPT ![s] = "open"],
            kids |-> [db.kids EXCEPT ![s] = db.kids[s] \cup u.kids],
            asg |-> [db.asg EXCEPT ![s] =
                       [k \in Skins |-> db.asg[s][k] \cup ({who[k]} \ {None})]],
            events |-> db.events, bin |-> db.bin,
            last |-> IF s > db.last THEN s ELSE db.last]
<1> DEFINE r == [db.row EXCEPT ![s] = "open"]
           k0 == [db.kids EXCEPT ![s] = db.kids[s] \cup u.kids]
           m == [k \in Skins |-> db.asg[s][k] \cup ({who[k]} \ {None})]
           a == [db.asg EXCEPT ![s] = m]
           l == IF s > db.last THEN s ELSE db.last
           d == SaveSession(db, s, "open")
           e == LinkParticipants(d, s, u.kids)
<1>1. d = [row |-> r, kids |-> db.kids, asg |-> db.asg, events |-> db.events,
           bin |-> db.bin, last |-> l]
  <2> HIDE DEF r, l
  <2>1. SaveSession(db, s, "open") = [db EXCEPT !.row = r, !.last = l]
    BY DEF SaveSession, r, l
  <2> QED BY <2>1, DbRecord
<1>2. e = [row |-> r, kids |-> k0, asg |-> db.asg, events |-> db.events,
           bin |-> db.bin, last |-> l]
  <2>1. e = [d EXCEPT !.kids = [d.kids EXCEPT ![s] = d.kids[s] \cup u.kids]]
    BY DEF LinkParticipants
  <2> HIDE DEF r, l, d, e
  <2>2. d.kids = db.kids BY <1>1
  <2>3. e = [d EXCEPT !.kids = k0] BY <2>1, <2>2
  <2> HIDE DEF k0
  <2> QED BY <1>1, <2>3
<1>3. Started(s, u, who) = [e EXCEPT !.asg = a]
  <2>1. Started(s, u, who) = [e EXCEPT !.asg = [e.asg EXCEPT ![s] =
             [k \in Skins |-> e.asg[s][k] \cup ({who[k]} \ {None})]]]
    BY DEF Started
  <2> HIDE DEF r, l, d, e, k0
  <2>2. e.asg = db.asg BY <1>2
  <2> QED BY <2>1, <2>2
<1> HIDE DEF r, l, d, e, k0, a
<1>4. Started(s, u, who) = [row |-> r, kids |-> k0, asg |-> a, events |-> db.events,
                            bin |-> db.bin, last |-> l]
  BY <1>2, <1>3
<1> QED BY <1>4 DEF r, l, k0, a

LEMMA SavedTables ==
  ASSUME RowsTyped, NEW s, NEW x
  PROVE  SaveSession(db, s, x) =
           [row |-> [db.row EXCEPT ![s] = x], kids |-> db.kids, asg |-> db.asg,
            events |-> db.events, bin |-> db.bin,
            last |-> IF s > db.last THEN s ELSE db.last]
<1> DEFINE r == [db.row EXCEPT ![s] = x]
           l == IF s > db.last THEN s ELSE db.last
<1> HIDE DEF r, l
<1>1. SaveSession(db, s, x) = [db EXCEPT !.row = r, !.last = l]
  BY DEF SaveSession, r, l
<1>2. SaveSession(db, s, x) =
        [row |-> r, kids |-> db.kids, asg |-> db.asg, events |-> db.events,
         bin |-> db.bin, last |-> l]
  BY <1>1, DbRecord
<1> QED BY <1>2 DEF r, l

LEMMA ClosedTables ==
  ASSUME RowsTyped, NEW keep
  PROVE  CloseAllBut(db, keep) =
           [row |-> [s \in Sessions |-> IF db.row[s] = "open" /\ s \notin keep
                                          THEN "ended" ELSE db.row[s]],
            kids |-> db.kids, asg |-> db.asg, events |-> db.events, bin |-> db.bin,
            last |-> db.last]
<1> DEFINE r == [s \in Sessions |-> IF db.row[s] = "open" /\ s \notin keep
                                      THEN "ended" ELSE db.row[s]]
<1>1. CloseAllBut(db, keep) = [db EXCEPT !.row = r] BY DEF CloseAllBut
<1> HIDE DEF r
<1>2. CloseAllBut(db, keep) =
        [row |-> r, kids |-> db.kids, asg |-> db.asg, events |-> db.events,
         bin |-> db.bin, last |-> db.last]
  BY <1>1, DbRecord
<1> QED BY <1>2 DEF r

LEMMA EventsTables ==
  ASSUME RowsTyped, NEW E
  PROVE  [db EXCEPT !.events = E] =
           [row |-> db.row, kids |-> db.kids, asg |-> db.asg, events |-> E,
            bin |-> db.bin, last |-> db.last]
BY DbRecord

LEMMA AssignedTables ==
  ASSUME RowsTyped, TablesTyped, NEW s \in Sessions, NEW k \in Skins, NEW p
  PROVE  SaveAssignment(db, s, k, p) =
           [row |-> db.row, kids |-> db.kids,
            asg |-> [db.asg EXCEPT ![s] = [db.asg[s] EXCEPT ![k] = db.asg[s][k] \cup {p}]],
            events |-> db.events, bin |-> db.bin, last |-> db.last]
<1> DEFINE a == [db.asg EXCEPT ![s] = [db.asg[s] EXCEPT ![k] = db.asg[s][k] \cup {p}]]
<1>1. SaveAssignment(db, s, k, p) = [db EXCEPT !.asg = a]
  BY DEF SaveAssignment
<1> HIDE DEF a
<1>2. SaveAssignment(db, s, k, p) =
        [row |-> db.row, kids |-> db.kids, asg |-> a, events |-> db.events,
         bin |-> db.bin, last |-> db.last]
  BY <1>1, DbRecord
<1> QED BY <1>2 DEF a

\* The bundle of s beside those that were in the trash.
Binned(s, E) ==
  [t \in DOMAIN db.bin \cup {s} |->
     IF t = s THEN [row |-> db.row[s], kids |-> db.kids[s], asg |-> db.asg[s],
                    events |-> {e \in E : e.s = s}]
     ELSE db.bin[t]]

LEMMA TrashedTables ==
  ASSUME RowsTyped, TablesTyped, NEW s \in Sessions, NEW E
  PROVE  TrashSession([db EXCEPT !.events = E], s) =
           [row |-> [db.row EXCEPT ![s] = "none"], kids |-> [db.kids EXCEPT ![s] = {}],
            asg |-> [db.asg EXCEPT ![s] = NoAssignment],
            events |-> E \ {e \in E : e.s = s}, bin |-> Binned(s, E), last |-> db.last]
<1> DEFINE c == [db EXCEPT !.events = E]
           b == Binned(s, E)
           r == [db.row EXCEPT ![s] = "none"]
           k == [db.kids EXCEPT ![s] = {}]
           a == [db.asg EXCEPT ![s] = NoAssignment]
           F == E \ {e \in E : e.s = s}
           d == [c EXCEPT !.bin = b]
<1>1. c = [row |-> db.row, kids |-> db.kids, asg |-> db.asg, events |-> E,
           bin |-> db.bin, last |-> db.last]
  BY EventsTables
<1> HIDE DEF c
<1>2. Bundle(c, s) = [row |-> db.row[s], kids |-> db.kids[s], asg |-> db.asg[s],
                      events |-> {e \in E : e.s = s}]
  BY <1>1 DEF Bundle, EventsOf
<1>3. [t \in DOMAIN c.bin \cup {s} |-> IF t = s THEN Bundle(c, s) ELSE c.bin[t]] = b
  BY <1>1, <1>2 DEF Binned
<1> HIDE DEF b
<1>4. TrashSession(c, s) = DeleteLive(d, s) BY <1>3 DEF TrashSession
<1>5. d = [row |-> db.row, kids |-> db.kids, asg |-> db.asg, events |-> E,
           bin |-> b, last |-> db.last]
  BY <1>1
<1> HIDE DEF d
<1>6. DeleteLive(d, s) = [d EXCEPT !.row = r, !.kids = k, !.asg = a, !.events = F]
  <2>1. /\ d.row = db.row /\ d.kids = db.kids /\ d.asg = db.asg /\ d.events = E
    BY <1>5
  <2>2. EventsOf(d, s) = {e \in E : e.s = s} BY <2>1 DEF EventsOf
  <2> QED BY <2>1, <2>2 DEF DeleteLive
<1> HIDE DEF r, k, a, F
<1>7. DeleteLive(d, s) = [row |-> r, kids |-> k, asg |-> a, events |-> F, bin |-> b,
                          last |-> db.last]
  BY <1>5, <1>6
<1> QED BY <1>4, <1>7 DEF c, b, r, k, a, F

LEMMA RestoredTables ==
  ASSUME RowsTyped, TablesTyped, NEW s \in Sessions, db.row[s] = "none"
  PROVE  RestoreSession(db, s) =
           [row |-> [db.row EXCEPT ![s] = db.bin[s].row],
            kids |-> [db.kids EXCEPT ![s] = db.bin[s].kids],
            asg |-> [db.asg EXCEPT ![s] = db.bin[s].asg],
            events |-> db.events \cup db.bin[s].events,
            bin |-> [t \in DOMAIN db.bin \ {s} |-> db.bin[t]], last |-> db.last]
<1> DEFINE r == [db.row EXCEPT ![s] = db.bin[s].row]
           k == [db.kids EXCEPT ![s] = db.bin[s].kids]
           a == [db.asg EXCEPT ![s] = db.bin[s].asg]
           F == db.events \cup db.bin[s].events
           b == [t \in DOMAIN db.bin \ {s} |-> db.bin[t]]
<1>1. RestoreSession(db, s) =
        [db EXCEPT !.row = r, !.kids = k, !.asg = a, !.events = F, !.bin = b]
  BY DEF RestoreSession, Restrict
<1> HIDE DEF r, k, a, F, b
<1>2. RestoreSession(db, s) =
        [row |-> r, kids |-> k, asg |-> a, events |-> F, bin |-> b, last |-> db.last]
  BY <1>1, DbRecord
<1> QED BY <1>2 DEF r, k, a, F, b

LEMMA PurgedTables ==
  ASSUME RowsTyped, NEW S
  PROVE  PurgeSessions(db, S) =
           [row |-> db.row, kids |-> db.kids, asg |-> db.asg, events |-> db.events,
            bin |-> [t \in DOMAIN db.bin \ S |-> db.bin[t]], last |-> db.last]
<1> DEFINE b == [t \in DOMAIN db.bin \ S |-> db.bin[t]]
<1>1. PurgeSessions(db, S) = [db EXCEPT !.bin = b] BY DEF PurgeSessions, Restrict
<1> HIDE DEF b
<1>2. PurgeSessions(db, S) =
        [row |-> db.row, kids |-> db.kids, asg |-> db.asg, events |-> db.events,
         bin |-> b, last |-> db.last]
  BY <1>1, DbRecord
<1> QED BY <1>2 DEF b

-----------------------------------------------------------------------------
(* Tables, queue and trash after each transaction *)

LosesNothing ==
  /\ \A e \in db.events \cup Bundled : e \in db'.events \cup Bundled' \/ Purged(e.s)
  /\ \A s \in Sessions : Purged(s) \/ \A k \in Skins : MapOf(s)[k] \subseteq MapOf(s)'[k]

\* What is only added to loses nothing.
LEMMA Grown ==
  ASSUME db'.bin = db.bin, db.events \subseteq db'.events,
         \A s \in Sessions, k \in Skins : db.asg[s][k] \subseteq db'.asg[s][k]
  PROVE  LosesNothing
<1>1. Bundled' = Bundled BY DEF Bundled
<1>2. ASSUME NEW s \in Sessions, NEW k \in Skins
      PROVE  MapOf(s)[k] \subseteq MapOf(s)'[k]
  <2>1. CASE s \in DOMAIN db.bin BY <2>1 DEF MapOf
  <2>2. CASE s \notin DOMAIN db.bin BY <2>2 DEF MapOf
  <2> QED BY <2>1, <2>2
<1> QED BY <1>1, <1>2 DEF LosesNothing

LEMMA SameTables ==
  ASSUME DbInv, db' = db, evq' \in Seq(Range(evq')), \A e \in Range(evq') : Live(e)
  PROVE  DbInv' /\ LosesNothing
<1>1. TablesTyped' /\ BinSound' /\ Restorable' /\ Counter' /\ Written'
  BY DEF DbInv, TablesTyped, BinSound, BundleOf, Restorable, Counter, Written, NoOrphans, Live
<1>2. Queued' BY DEF Queued, Live
<1>3. LosesNothing BY Grown
<1> QED BY <1>1, <1>2, <1>3 DEF DbInv

LEMMA KeptQueue == ASSUME DbInv, db' = db, evq' = evq PROVE DbInv' /\ LosesNothing
<1>1. evq' \in Seq(Range(evq')) /\ \A e \in Range(evq') : Live(e) BY DEF DbInv, Queued
<1> QED BY <1>1, SameTables

LEMMA LongerQueue ==
  ASSUME DbInv, db' = db, NEW e, Live(e), evq' = Append(evq, e)
  PROVE  DbInv' /\ LosesNothing
<1>1. evq' \in Seq(Range(evq')) /\ Range(evq') = Range(evq) \cup {e}
  BY RangeAppend DEF DbInv, Queued
<1> QED BY <1>1, SameTables DEF DbInv, Queued

LEMMA LostQueue == ASSUME DbInv, db' = db, evq' = <<>> PROVE DbInv' /\ LosesNothing
<1>1. evq' \in Seq(Range(evq')) /\ \A e \in Range(evq') : Live(e) BY NothingQueued
<1> QED BY <1>1, SameTables

\* Rows may change as long as none disappears, and events may be added.
LEMMA SameBin ==
  ASSUME Stored, DbInv, RowsTyped', TablesTyped',
         db'.bin = db.bin, db.events \subseteq db'.events,
         \A e \in db'.events \ db.events : Live(e),
         \A s \in Sessions : db.row[s] # "none" => db'.row[s] # "none",
         \A s \in Sessions : db'.row[s] # "none" => db.row[s] # "none" \/ db.last < s,
         \A s \in Sessions : db'.row[s] # "none" => s <= db'.last,
         db.last <= db'.last, Queued',
         \A s \in Sessions : db'.row[s] = "none" => db'.asg[s] = db.asg[s],
         \A s \in Sessions, k \in Skins : db.asg[s][k] \subseteq db'.asg[s][k]
  PROVE  DbInv' /\ LosesNothing
<1>1. BinSound' BY DEF DbInv, BinSound, BundleOf
<1>2. Written'
  <2>1. \A e \in db'.events : Live(e)
    BY DEF DbInv, Written, Live
  <2>2. \A e \in db'.events : Live(e)' BY <2>1 DEF Live
  <2>3. \A s \in Sessions : db'.asg[s] # NoAssignment => db'.row[s] # "none"
    BY DEF DbInv, Written, NoOrphans
  <2> QED BY <2>2, <2>3 DEF Written, NoOrphans, Live
<1>3. Restorable'
  <2> SUFFICES ASSUME NEW s \in DOMAIN db.bin PROVE db'.row[s] = "none"
    BY DEF Restorable
  <2>1. s \in Sessions /\ db.row[s] = "none" /\ s <= db.last
    BY DEF DbInv, BinSound, Restorable, Counter
  <2>2. s \in Nat /\ db.last \in Nat BY <2>1, StoreAssumption DEF DbInv, TablesTyped
  <2>3. ~(db.last < s) BY <2>1, <2>2
  <2> QED BY <2>1, <2>3
<1>4. Counter'
  <2> SUFFICES ASSUME NEW s \in Sessions, db'.row[s] # "none" \/ s \in DOMAIN db.bin
               PROVE  s <= db'.last
    BY DEF Counter
  <2>1. s \in Nat /\ db.last \in Nat /\ db'.last \in Nat
    BY StoreAssumption DEF DbInv, TablesTyped
  <2>2. CASE db'.row[s] # "none" BY <2>2
  <2>3. CASE s \in DOMAIN db.bin
    <3>1. s <= db.last BY <2>3 DEF DbInv, Counter
    <3> QED BY <2>1, <3>1
  <2> QED BY <2>2, <2>3
<1> QED BY <1>1, <1>2, <1>3, <1>4, Grown DEF DbInv

LEMMA StillQueued ==
  ASSUME DbInv, evq' = evq \/ evq' = <<>>,
         \A s \in Sessions : db.row[s] # "none" => db'.row[s] # "none"
  PROVE  Queued'
<1>1. CASE evq' = evq BY <1>1 DEF DbInv, Queued, Live
<1>2. CASE evq' = <<>> BY <1>2, NothingQueued DEF Queued
<1> QED BY <1>1, <1>2

\* A session in use has a row and is below the counter.
LEMMA InUse ==
  ASSUME DbInv, NEW s \in Sessions, db.row[s] # "none"
  PROVE  s \in Nat /\ db.last \in Nat /\ s <= db.last /\ s \notin DOMAIN db.bin
BY StoreAssumption DEF DbInv, Counter, Restorable, TablesTyped

LEMMA ClosedDb ==
  ASSUME Stored, DbInv, NEW keep, db' = CloseAllBut(db, keep), evq' = evq
  PROVE  /\ DbInv' /\ LosesNothing
         /\ \A s \in Sessions : db.row[s] # "none" => db'.row[s] # "none"
         /\ db'.bin = db.bin /\ db'.asg = db.asg /\ db'.events = db.events
<1> DEFINE r == [s \in Sessions |-> IF db.row[s] = "open" /\ s \notin keep
                                      THEN "ended" ELSE db.row[s]]
<1>1. /\ db'.row = r /\ db'.kids = db.kids /\ db'.asg = db.asg /\ db'.events = db.events
      /\ db'.bin = db.bin /\ db'.last = db.last
      /\ db' = [f \in Tables |-> db'[f]]
  <2>1. db' = [row |-> r, kids |-> db.kids, asg |-> db.asg, events |-> db.events,
               bin |-> db.bin, last |-> db.last]
    BY ClosedTables DEF Stored
  <2> HIDE DEF r
  <2> QED BY <2>1, TableNames
<1>2. r \in [Sessions -> Rows] BY DEF Stored, RowsTyped, Rows
<1>3. \A s \in Sessions : r[s] # "none" <=> db.row[s] # "none" OBVIOUS
<1> HIDE DEF r
<1>4. RowsTyped' /\ TablesTyped' BY <1>1, <1>2 DEF RowsTyped, DbInv, TablesTyped
<1>5. Queued' BY <1>1, <1>3, StillQueued
<1>6. \A s \in Sessions : db'.row[s] # "none" => s <= db'.last
  BY <1>1, <1>3 DEF DbInv, Counter
<1>7. db.last <= db'.last BY <1>1 DEF DbInv, TablesTyped
<1> QED BY <1>1, <1>3, <1>4, <1>5, <1>6, <1>7, SameBin

LEMMA StoppedDb ==
  ASSUME Stored, DbInv, NEW s \in Sessions, db.row[s] # "none",
         db' = SaveSession(db, s, "ended"), evq' = evq
  PROVE  /\ DbInv' /\ LosesNothing
         /\ \A t \in Sessions : db.row[t] # "none" => db'.row[t] # "none"
         /\ db'.bin = db.bin /\ db'.asg = db.asg /\ db'.events = db.events
<1> DEFINE r == [db.row EXCEPT ![s] = "ended"]
           l == IF s > db.last THEN s ELSE db.last
<1>1. /\ db'.row = r /\ db'.kids = db.kids /\ db'.asg = db.asg /\ db'.events = db.events
      /\ db'.bin = db.bin /\ db'.last = l
      /\ db' = [f \in Tables |-> db'[f]]
  <2>1. db' = [row |-> r, kids |-> db.kids, asg |-> db.asg, events |-> db.events,
               bin |-> db.bin, last |-> l]
    BY SavedTables DEF Stored
  <2> HIDE DEF r, l
  <2> QED BY <2>1, TableNames
<1>2. l = db.last BY InUse
<1>3. r \in [Sessions -> Rows] /\ \A t \in Sessions : r[t] # "none" <=> db.row[t] # "none"
  BY DEF Stored, RowsTyped, Rows
<1> HIDE DEF r, l
<1>4. RowsTyped' /\ TablesTyped' BY <1>1, <1>2, <1>3 DEF RowsTyped, DbInv, TablesTyped
<1>5. Queued' BY <1>1, <1>3, StillQueued
<1>6. \A t \in Sessions : db'.row[t] # "none" => t <= db'.last
  BY <1>1, <1>2, <1>3 DEF DbInv, Counter
<1>7. db.last <= db'.last BY <1>1, <1>2 DEF DbInv, TablesTyped
<1> QED BY <1>1, <1>3, <1>4, <1>5, <1>6, <1>7, SameBin

\* The id offered is free, in the tables and in the trash.
LEMMA FreeId ==
  ASSUME DbInv, NEW s \in Sessions, s > db.last
  PROVE  /\ db.row[s] = "none" /\ s \notin DOMAIN db.bin /\ db.asg[s] = NoAssignment
         /\ s \in Nat /\ db.last \in Nat
<1>1. s \in Nat /\ db.last \in Nat BY StoreAssumption DEF DbInv, TablesTyped
<1>2. ~(s <= db.last) BY <1>1
<1>3. db.row[s] = "none" /\ s \notin DOMAIN db.bin BY <1>2 DEF DbInv, Counter
<1> QED BY <1>1, <1>3 DEF DbInv, Written, NoOrphans

LEMMA StartedDb ==
  ASSUME Stored, DbInv, NEW s \in Sessions, s > db.last, NEW u, u.kids \subseteq People,
         NEW who \in [Skins -> People \cup {None}], db' = Started(s, u, who)
  PROVE  /\ Queued' => DbInv' /\ LosesNothing
         /\ db'.row = [db.row EXCEPT ![s] = "open"] /\ db'.bin = db.bin
         /\ \E m : db'.asg = [db.asg EXCEPT ![s] = m]
         /\ db'.kids \in [Sessions -> SUBSET People] /\ db'.events = db.events
<1> DEFINE r == [db.row EXCEPT ![s] = "open"]
           k0 == [db.kids EXCEPT ![s] = db.kids[s] \cup u.kids]
           m0 == [k \in Skins |-> db.asg[s][k] \cup ({who[k]} \ {None})]
           m == [k \in Skins |-> {who[k]} \ {None}]
           a == [db.asg EXCEPT ![s] = m]
<1>1. db.row[s] = "none" /\ s \notin DOMAIN db.bin /\ db.asg[s] = NoAssignment
      /\ s \in Nat /\ db.last \in Nat
  BY FreeId
<1>2. m0 = m BY <1>1 DEF NoAssignment
<1>3. /\ db'.row = r /\ db'.kids = k0 /\ db'.asg = a /\ db'.events = db.events
      /\ db'.bin = db.bin /\ db'.last = s
      /\ db' = [f \in Tables |-> db'[f]]
  <2> DEFINE l == IF s > db.last THEN s ELSE db.last
             a0 == [db.asg EXCEPT ![s] = m0]
  <2>1. db' = [row |-> r, kids |-> k0, asg |-> a0, events |-> db.events,
               bin |-> db.bin, last |-> l]
    BY StartedTables DEF Stored, DbInv
  <2>2. l = s /\ a0 = a BY <1>2
  <2> HIDE DEF r, l, k0, a0, a, m, m0
  <2> QED BY <2>1, <2>2, TableNames
<1>4. k0 \in [Sessions -> SUBSET People] BY DEF DbInv, TablesTyped
<1>5. m \in Maps
  <2>1. m \in [Skins -> SUBSET People] OBVIOUS
  <2>2. \A k \in Skins : \A p, q \in m[k] : p = q OBVIOUS
  <2> QED BY <2>1, <2>2 DEF Maps
<1>6. r \in [Sessions -> Rows] /\ \A t \in Sessions : r[t] # "none" <=> db.row[t] # "none" \/ t = s
  BY DEF Stored, RowsTyped, Rows
<1>7. \A k \in Skins : db.asg[s][k] = {} BY <1>1 DEF NoAssignment
<1> HIDE DEF r, k0, m, m0
<1>8. /\ a \in [Sessions -> Maps] /\ a[s] = m
      /\ \A t \in Sessions : t # s => a[t] = db.asg[t]
  BY <1>5 DEF DbInv, TablesTyped
<1> HIDE DEF a
<1>9. RowsTyped' /\ TablesTyped' BY <1>1, <1>3, <1>4, <1>6, <1>8 DEF RowsTyped, TablesTyped
<1>10. \A t \in Sessions : db'.row[t] # "none" => t <= db'.last
  <2> TAKE t \in Sessions
  <2> HAVE db'.row[t] # "none"
  <2>1. CASE t = s BY <1>1, <1>3, <2>1
  <2>2. CASE db.row[t] # "none"
    <3>1. t \in Nat /\ t <= db.last BY <2>2, InUse
    <3> QED BY <1>1, <1>3, <3>1
  <2> QED BY <1>3, <1>6, <2>1, <2>2
<1>11. db.last <= db'.last BY <1>1, <1>3
<1>12. \A t \in Sessions, k \in Skins : db.asg[t][k] \subseteq db'.asg[t][k]
  <2> TAKE t \in Sessions, k \in Skins
  <2>1. CASE t = s BY <1>7, <2>1
  <2>2. CASE t # s BY <1>3, <1>8, <2>2
  <2> QED BY <2>1, <2>2
<1>13. Queued' => DbInv' /\ LosesNothing
  <2>1. \A t \in Sessions : db'.row[t] # "none" => db.row[t] # "none" \/ db.last < t
    BY <1>1, <1>3, <1>6
  <2>2. \A t \in Sessions : db'.row[t] = "none" => db'.asg[t] = db.asg[t]
    BY <1>3, <1>6, <1>8
  <2>3. \A t \in Sessions : db.row[t] # "none" => db'.row[t] # "none" BY <1>3, <1>6
  <2> QED BY <1>3, <1>9, <1>10, <1>11, <1>12, <2>1, <2>2, <2>3, SameBin
<1> QED BY <1>3, <1>4, <1>13 DEF r, a

LEMMA WrittenDb ==
  ASSUME Stored, DbInv, NEW E, db' = [db EXCEPT !.events = E], db.events \subseteq E,
         \A e \in E : Live(e), evq' \in Seq(Range(evq')), \A e \in Range(evq') : Live(e)
  PROVE  /\ DbInv' /\ LosesNothing
         /\ db'.row = db.row /\ db'.bin = db.bin /\ db'.asg = db.asg /\ db'.events = E
<1>1. /\ db'.row = db.row /\ db'.kids = db.kids /\ db'.asg = db.asg /\ db'.events = E
      /\ db'.bin = db.bin /\ db'.last = db.last
      /\ db' = [f \in Tables |-> db'[f]]
  <2>1. db' = [row |-> db.row, kids |-> db.kids, asg |-> db.asg, events |-> E,
               bin |-> db.bin, last |-> db.last]
    BY EventsTables DEF Stored
  <2> QED BY <2>1, TableNames
<1>2. RowsTyped' /\ TablesTyped' BY <1>1 DEF Stored, RowsTyped, DbInv, TablesTyped
<1>3. Queued' BY <1>1 DEF Queued, Live
<1>4. \A s \in Sessions : db'.row[s] # "none" => s <= db'.last
  BY <1>1 DEF DbInv, Counter
<1>5. db.last <= db'.last BY <1>1 DEF DbInv, TablesTyped
<1> QED BY <1>1, <1>2, <1>3, <1>4, <1>5, SameBin

LEMMA AssignedDb ==
  ASSUME Stored, DbInv, NEW s \in Sessions, db.row[s] # "none", NEW k \in Skins,
         NEW p \in People, db.asg[s][k] \subseteq {p},
         db' = SaveAssignment(db, s, k, p), Queued'
  PROVE  /\ DbInv' /\ LosesNothing
         /\ db'.row = db.row /\ db'.bin = db.bin /\ db'.events = db.events
         /\ db'.asg = [db.asg EXCEPT ![s] = [db.asg[s] EXCEPT ![k] = {p}]]
         /\ db'.kids = db.kids
<1> DEFINE m == [db.asg[s] EXCEPT ![k] = {p}]
           a == [db.asg EXCEPT ![s] = m]
<1>1. db.asg[s][k] \cup {p} = {p} OBVIOUS
<1>2. /\ db'.row = db.row /\ db'.kids = db.kids /\ db'.asg = a
      /\ db'.events = db.events /\ db'.bin = db.bin /\ db'.last = db.last
      /\ db' = [f \in Tables |-> db'[f]]
  <2>1. db' = [row |-> db.row, kids |-> db.kids,
               asg |-> [db.asg EXCEPT ![s] = [db.asg[s] EXCEPT ![k] = db.asg[s][k] \cup {p}]],
               events |-> db.events, bin |-> db.bin, last |-> db.last]
    BY AssignedTables DEF Stored, DbInv
  <2>2. db' = [row |-> db.row, kids |-> db.kids, asg |-> a, events |-> db.events,
               bin |-> db.bin, last |-> db.last]
    BY <1>1, <2>1
  <2> HIDE DEF a, m
  <2> QED BY <2>2, TableNames
<1>3. db.asg[s] \in Maps BY DEF DbInv, TablesTyped
<1>4. m \in Maps
  <2>1. m \in [Skins -> SUBSET People] BY <1>3 DEF Maps
  <2>2. ASSUME NEW i \in Skins PROVE \A q, r \in m[i] : q = r
    <3>1. CASE i = k BY <1>3, <3>1 DEF Maps
    <3>2. CASE i # k BY <1>3, <3>2 DEF Maps
    <3> QED BY <3>1, <3>2
  <2> QED BY <2>1, <2>2 DEF Maps
<1>5. \A i \in Skins : db.asg[s][i] \subseteq m[i] BY <1>3 DEF Maps
<1> HIDE DEF m
<1>6. /\ a \in [Sessions -> Maps] /\ a[s] = m
      /\ \A t \in Sessions : t # s => a[t] = db.asg[t]
  BY <1>4 DEF DbInv, TablesTyped
<1> HIDE DEF a
<1>7. RowsTyped' /\ TablesTyped' BY <1>2, <1>6 DEF Stored, RowsTyped, DbInv, TablesTyped
<1>8. \A t \in Sessions, i \in Skins : db.asg[t][i] \subseteq db'.asg[t][i]
  BY <1>2, <1>5, <1>6
<1>9. \A t \in Sessions : db'.row[t] # "none" => t <= db'.last
  BY <1>2 DEF DbInv, Counter
<1>10. db.last <= db'.last BY <1>2 DEF DbInv, TablesTyped
<1>11. \A t \in Sessions : db'.row[t] = "none" => db'.asg[t] = db.asg[t] BY <1>2, <1>6
<1>12. DbInv' /\ LosesNothing
  BY <1>2, <1>7, <1>8, <1>9, <1>10, <1>11, SameBin
<1> QED BY <1>2, <1>12 DEF a, m

\* To the trash goes all that hangs on the session, its events in the queue
\* included (trash_session).
LEMMA TrashedDb ==
  ASSUME Stored, DbInv, NEW s \in Sessions, db.row[s] = "ended", NEW E,
         db.events \subseteq E, \A e \in E : Live(e), evq' = <<>>,
         db' = TrashSession([db EXCEPT !.events = E], s)
  PROVE  /\ DbInv' /\ LosesNothing
         /\ db'.row = [db.row EXCEPT ![s] = "none"]
         /\ db'.bin = Binned(s, E) /\ db'.events = E \ {e \in E : e.s = s}
         /\ db'.asg = [db.asg EXCEPT ![s] = NoAssignment]
<1> DEFINE r == [db.row EXCEPT ![s] = "none"]
           k == [db.kids EXCEPT ![s] = {}]
           a == [db.asg EXCEPT ![s] = NoAssignment]
           G == {e \in E : e.s = s}
           F == E \ G
           b == Binned(s, E)
<1>1. /\ db'.row = r /\ db'.kids = k /\ db'.asg = a
      /\ db'.events = F /\ db'.bin = b /\ db'.last = db.last
      /\ db' = [f \in Tables |-> db'[f]]
  <2>1. db' = [row |-> r, kids |-> k, asg |-> a, events |-> F, bin |-> b,
               last |-> db.last]
    BY TrashedTables DEF Stored, DbInv
  <2> HIDE DEF r, k, a, F, b
  <2> QED BY <2>1, TableNames
<1>2. /\ r \in [Sessions -> Rows] /\ r[s] = "none"
      /\ \A t \in Sessions : t # s => r[t] = db.row[t]
  BY DEF Stored, RowsTyped, Rows
<1>3. k \in [Sessions -> SUBSET People] BY DEF DbInv, TablesTyped
<1>4. NoAssignment \in Maps BY DEF NoAssignment, Maps
<1>5. /\ a \in [Sessions -> Maps] /\ a[s] = NoAssignment
      /\ \A t \in Sessions : t # s => a[t] = db.asg[t]
  BY <1>4 DEF DbInv, TablesTyped
<1>6. /\ DOMAIN b = DOMAIN db.bin \cup {s}
      /\ b[s] = [row |-> db.row[s], kids |-> db.kids[s], asg |-> db.asg[s], events |-> G]
      /\ \A t \in DOMAIN db.bin : t # s => b[t] = db.bin[t]
  BY DEF Binned
<1>7. s \notin DOMAIN db.bin /\ s <= db.last BY InUse
<1>8. (\A e \in F : e \in E /\ e.s # s) /\ (\A e \in E : e \in F \/ e \in G)
      /\ (\A e \in G : e.s = s)
  OBVIOUS
<1> HIDE DEF r, k, a, F, G, b
<1>9. RowsTyped' /\ TablesTyped'
  BY <1>1, <1>2, <1>3, <1>5 DEF RowsTyped, DbInv, TablesTyped
<1>10. BinSound'
  <2>1. DOMAIN b \subseteq Sessions BY <1>6 DEF DbInv, BinSound
  <2>2. BundleOf(s, b[s])
    BY <1>6, <1>8 DEF DbInv, TablesTyped, BundleOf
  <2>3. \A t \in DOMAIN db.bin : t # s => BundleOf(t, b[t])
    BY <1>6 DEF DbInv, BinSound
  <2>4. \A t \in DOMAIN b : BundleOf(t, b[t]) BY <1>6, <2>2, <2>3
  <2> QED BY <1>1, <2>1, <2>4 DEF BinSound, BundleOf
<1>11. Queued' BY NothingQueued DEF Queued
<1>12. Written'
  <2>1. \A e \in F : Live(e)' BY <1>1, <1>2, <1>8 DEF Live
  <2>2. \A t \in Sessions : a[t] # NoAssignment => r[t] # "none"
    BY <1>2, <1>5 DEF DbInv, Written, NoOrphans
  <2> QED BY <1>1, <2>1, <2>2 DEF Written, NoOrphans, Live
<1>13. Restorable'
  <2>1. \A t \in DOMAIN b : r[t] = "none"
    BY <1>2, <1>6 DEF DbInv, BinSound, Restorable
  <2> QED BY <1>1, <2>1 DEF Restorable
<1>14. Counter'
  <2> SUFFICES ASSUME NEW t \in Sessions, r[t] # "none" \/ t \in DOMAIN b
               PROVE  t <= db.last
    BY <1>1 DEF Counter
  <2>1. t = s \/ db.row[t] # "none" \/ t \in DOMAIN db.bin BY <1>2, <1>6
  <2> QED BY <1>7, <2>1 DEF DbInv, Counter
<1>15. LosesNothing
  <2>1. ASSUME NEW e \in db.events PROVE e \in db'.events \cup Bundled'
    <3>1. e \in F \/ e \in G BY <1>8
    <3>2. G \subseteq Bundled'
      <4>1. b[s].events = G BY <1>6
      <4> QED BY <1>1, <1>6, <4>1 DEF Bundled
    <3> QED BY <1>1, <3>1, <3>2
  <2>2. ASSUME NEW e \in Bundled PROVE e \in Bundled'
    <3>1. PICK t \in DOMAIN db.bin : e \in db.bin[t].events BY <2>2 DEF Bundled
    <3>2. t \in DOMAIN b /\ b[t] = db.bin[t] BY <1>6, <1>7, <3>1
    <3> QED BY <1>1, <3>1, <3>2 DEF Bundled
  <2>3. ASSUME NEW t \in Sessions, NEW i \in Skins PROVE MapOf(t)[i] \subseteq MapOf(t)'[i]
    <3>1. CASE t = s
      <4>1. MapOf(t) = db.asg[s] /\ MapOf(t)' = b[s].asg BY <1>1, <1>6, <1>7, <3>1 DEF MapOf
      <4>2. b[s].asg = db.asg[s] BY <1>6
      <4> QED BY <4>1, <4>2
    <3>2. CASE t # s
      <4>1. MapOf(t)' = MapOf(t) BY <1>1, <1>5, <1>6, <3>2 DEF MapOf
      <4> QED BY <4>1
    <3> QED BY <3>1, <3>2
  <2> QED BY <2>1, <2>2, <2>3 DEF LosesNothing
<1>16. DbInv' BY <1>9, <1>10, <1>11, <1>12, <1>13, <1>14 DEF DbInv
<1> QED BY <1>1, <1>15, <1>16 DEF r, a, b, F, G

\* It comes back as it went (restore_session).
LEMMA RestoredDb ==
  ASSUME Stored, DbInv, NEW s \in DOMAIN db.bin, evq' = evq, db' = RestoreSession(db, s)
  PROVE  /\ DbInv' /\ LosesNothing
         /\ db'.row = [db.row EXCEPT ![s] = "ended"]
         /\ db'.bin = [t \in DOMAIN db.bin \ {s} |-> db.bin[t]]
         /\ db'.events = db.events \cup db.bin[s].events
         /\ db'.asg = [db.asg EXCEPT ![s] = db.bin[s].asg]
<1> DEFINE B == db.bin[s]
           r == [db.row EXCEPT ![s] = B.row]
           k == [db.kids EXCEPT ![s] = B.kids]
           a == [db.asg EXCEPT ![s] = B.asg]
           F == db.events \cup B.events
           b == [t \in DOMAIN db.bin \ {s} |-> db.bin[t]]
<1>1. s \in Sessions /\ db.row[s] = "none" /\ BundleOf(s, B) /\ s <= db.last
  BY DEF DbInv, BinSound, Restorable, Counter
<1>2. /\ db'.row = r /\ db'.kids = k /\ db'.asg = a
      /\ db'.events = F /\ db'.bin = b /\ db'.last = db.last
      /\ db' = [f \in Tables |-> db'[f]]
  <2>1. db' = [row |-> r, kids |-> k, asg |-> a, events |-> F, bin |-> b,
               last |-> db.last]
    BY <1>1, RestoredTables DEF Stored, DbInv
  <2> HIDE DEF r, k, a, F, b
  <2> QED BY <2>1, TableNames
<1>3. B.row = "ended" /\ B.kids \subseteq People /\ B.asg \in Maps /\ \A e \in B.events : e.s = s
  BY <1>1 DEF BundleOf
<1>4. /\ r \in [Sessions -> Rows] /\ r[s] = "ended"
      /\ \A t \in Sessions : t # s => r[t] = db.row[t]
  BY <1>1, <1>3 DEF Stored, RowsTyped, Rows
<1>5. k \in [Sessions -> SUBSET People] BY <1>3 DEF DbInv, TablesTyped
<1>6. /\ a \in [Sessions -> Maps] /\ a[s] = B.asg
      /\ \A t \in Sessions : t # s => a[t] = db.asg[t]
  BY <1>1, <1>3 DEF DbInv, TablesTyped
<1>7. /\ DOMAIN b = DOMAIN db.bin \ {s} /\ \A t \in DOMAIN b : b[t] = db.bin[t]
  OBVIOUS
<1>8. r = [db.row EXCEPT ![s] = "ended"] BY <1>3
<1> HIDE DEF r, k, a, F, b
<1>9. RowsTyped' /\ TablesTyped'
  BY <1>2, <1>4, <1>5, <1>6 DEF RowsTyped, DbInv, TablesTyped
<1>10. BinSound' BY <1>2, <1>7 DEF DbInv, BinSound, BundleOf
<1>11. \A t \in Sessions : db.row[t] # "none" => r[t] # "none" BY <1>4
<1>12. Queued' BY <1>2, <1>11, StillQueued
<1>13. Written'
  <2>1. \A e \in F : Live(e)' BY <1>1, <1>2, <1>3, <1>4, <1>11 DEF Live, F, DbInv, Written
  <2>2. \A t \in Sessions : a[t] # NoAssignment => r[t] # "none"
    BY <1>4, <1>6 DEF DbInv, Written, NoOrphans
  <2> QED BY <1>2, <2>1, <2>2 DEF Written, NoOrphans, Live
<1>14. Restorable' BY <1>2, <1>4, <1>7 DEF DbInv, BinSound, Restorable
<1>15. Counter' BY <1>1, <1>2, <1>4, <1>7 DEF DbInv, Counter
<1>16. LosesNothing
  <2>1. ASSUME NEW e \in Bundled PROVE e \in db'.events \cup Bundled'
    <3>1. PICK t \in DOMAIN db.bin : e \in db.bin[t].events BY <2>1 DEF Bundled
    <3>2. CASE t = s BY <1>2, <3>1, <3>2 DEF F
    <3>3. CASE t # s
      <4>1. t \in DOMAIN b /\ b[t] = db.bin[t] BY <1>7, <3>1, <3>3
      <4> QED BY <1>2, <3>1, <4>1 DEF Bundled
    <3> QED BY <3>2, <3>3
  <2>2. ASSUME NEW t \in Sessions, NEW i \in Skins PROVE MapOf(t)[i] \subseteq MapOf(t)'[i]
    <3>1. CASE t = s
      <4>1. MapOf(t) = B.asg /\ MapOf(t)' = a[s] BY <1>2, <1>7, <3>1 DEF MapOf
      <4> QED BY <1>6, <4>1
    <3>2. CASE t # s
      <4>1. MapOf(t)' = MapOf(t) BY <1>2, <1>6, <1>7, <3>2 DEF MapOf
      <4> QED BY <4>1
    <3> QED BY <3>1, <3>2
  <2>3. db.events \subseteq db'.events BY <1>2 DEF F
  <2> QED BY <2>1, <2>2, <2>3 DEF LosesNothing
<1>17. DbInv' BY <1>9, <1>10, <1>12, <1>13, <1>14, <1>15 DEF DbInv
<1> QED BY <1>2, <1>8, <1>16, <1>17 DEF a, b, F

LEMMA PurgedDb ==
  ASSUME Stored, DbInv, NEW S, S \subseteq DOMAIN db.bin,
         evq' = evq, db' = PurgeSessions(db, S)
  PROVE  /\ DbInv' /\ LosesNothing
         /\ db'.row = db.row /\ db'.bin = [t \in DOMAIN db.bin \ S |-> db.bin[t]]
         /\ db'.events = db.events /\ db'.asg = db.asg
<1> DEFINE b == [t \in DOMAIN db.bin \ S |-> db.bin[t]]
<1>1. /\ db'.row = db.row /\ db'.kids = db.kids /\ db'.asg = db.asg
      /\ db'.events = db.events /\ db'.bin = b /\ db'.last = db.last
      /\ db' = [f \in Tables |-> db'[f]]
  <2>1. db' = [row |-> db.row, kids |-> db.kids, asg |-> db.asg, events |-> db.events,
               bin |-> b, last |-> db.last]
    BY PurgedTables DEF Stored
  <2> HIDE DEF b
  <2> QED BY <2>1, TableNames
<1>2. /\ DOMAIN b = DOMAIN db.bin \ S /\ \A t \in DOMAIN b : b[t] = db.bin[t]
  OBVIOUS
<1> HIDE DEF b
<1>3. RowsTyped' /\ TablesTyped' BY <1>1 DEF Stored, RowsTyped, DbInv, TablesTyped
<1>4. BinSound' BY <1>1, <1>2 DEF DbInv, BinSound, BundleOf
<1>5. Queued' BY <1>1, StillQueued
<1>6. Written' /\ Restorable' /\ Counter'
  BY <1>1, <1>2 DEF DbInv, Written, NoOrphans, Live, Restorable, Counter
<1>7. \A t \in S : Purged(t)
  BY <1>1, <1>2 DEF Purged, DbInv, Restorable
<1>8. LosesNothing
  <2>1. ASSUME NEW e \in Bundled PROVE e \in Bundled' \/ Purged(e.s)
    <3>1. PICK t \in DOMAIN db.bin : e \in db.bin[t].events BY <2>1 DEF Bundled
    <3>2. e.s = t BY <3>1 DEF DbInv, BinSound, BundleOf
    <3>3. CASE t \in S BY <1>7, <3>2, <3>3
    <3>4. CASE t \notin S
      <4>1. t \in DOMAIN b /\ b[t] = db.bin[t] BY <1>2, <3>1, <3>4
      <4> QED BY <1>1, <3>1, <4>1 DEF Bundled
    <3> QED BY <3>3, <3>4
  <2>2. ASSUME NEW t \in Sessions, t \notin S, NEW i \in Skins
        PROVE  MapOf(t)[i] \subseteq MapOf(t)'[i]
    <3>1. MapOf(t)' = MapOf(t) BY <1>1, <1>2, <2>2 DEF MapOf
    <3> QED BY <3>1
  <2> QED BY <1>1, <1>7, <2>1, <2>2 DEF LosesNothing
<1>9. DbInv' BY <1>3, <1>4, <1>5, <1>6 DEF DbInv
<1> QED BY <1>1, <1>8, <1>9 DEF b

-----------------------------------------------------------------------------
(* The panel *)

LEMMA TailQueue ==
  ASSUME NEW S, NEW q \in Seq(S), q # <<>>, IsInjective(q)
  PROVE  /\ Tail(q) \in Seq(S) /\ IsInjective(Tail(q)) /\ Head(q) \in S
         /\ Head(q) \in Range(q) /\ Range(Tail(q)) \subseteq Range(q)
         /\ Head(q) \notin Range(Tail(q))
<1> DEFINE t == Tail(q)
<1>1. /\ Len(q) \in Nat /\ Len(q) > 0 /\ DOMAIN q = 1 .. Len(q)
      /\ t \in Seq(S) /\ Len(t) = Len(q) - 1 /\ Head(q) \in S /\ Head(q) = q[1]
      /\ \A i \in 1 .. Len(t) : t[i] = q[i + 1]
  <2>1. Len(q) \in Nat /\ Len(q) # 0 /\ DOMAIN q = 1 .. Len(q)
    BY EmptySeq, LenProperties
  <2>2. t \in Seq(S) /\ Len(t) = Len(q) - 1 /\ Head(q) \in S
        /\ \A i \in 1 .. Len(t) : t[i] = q[i + 1]
    BY HeadTailProperties
  <2>3. Head(q) = q[1] OBVIOUS
  <2> QED BY <2>1, <2>2, <2>3
<1> HIDE DEF t
<1>2. DOMAIN t = 1 .. Len(t) BY <1>1, LenProperties
<1>3. \A i \in DOMAIN t : i \in Nat /\ i + 1 \in DOMAIN q /\ i + 1 # 1 /\ t[i] = q[i + 1]
  BY <1>1, <1>2
<1>4. 1 \in DOMAIN q BY <1>1
<1>5. IsInjective(t)
  <2> SUFFICES ASSUME NEW i \in DOMAIN t, NEW j \in DOMAIN t, t[i] = t[j] PROVE i = j
    BY DEF IsInjective
  <2>1. i + 1 = j + 1 BY <1>3 DEF IsInjective
  <2> QED BY <1>3, <2>1
<1>6. Range(t) \subseteq Range(q) BY <1>3 DEF Range
<1>7. Head(q) \notin Range(t)
  <2> SUFFICES ASSUME NEW i \in DOMAIN t, t[i] = q[1] PROVE FALSE BY <1>1 DEF Range
  <2>1. q[i + 1] = q[1] /\ i + 1 \in DOMAIN q /\ i + 1 # 1 BY <1>3
  <2> QED BY <1>4, <2>1 DEF IsInjective
<1>8. Head(q) \in Range(q) BY <1>1, <1>4 DEF Range
<1> QED BY <1>1, <1>5, <1>6, <1>7, <1>8 DEF t

LEMMA EnqueuedOnce ==
  ASSUME NEW q \in Seq(Skins), NEW k \in Skins, IsInjective(q)
  PROVE  /\ Enqueue(q, k) \in Seq(Skins) /\ IsInjective(Enqueue(q, k))
         /\ Range(Enqueue(q, k)) \subseteq Range(q) \cup {k}
<1>1. CASE k \in Range(q) BY <1>1 DEF Enqueue
<1>2. CASE k \notin Range(q)
  <2> DEFINE a == Append(q, k)
  <2>1. /\ a \in Seq(Skins) /\ Len(q) \in Nat /\ DOMAIN q = 1 .. Len(q)
        /\ Len(a) = Len(q) + 1
        /\ \A i \in 1 .. Len(q) : a[i] = q[i]
        /\ a[Len(q) + 1] = k
    BY AppendProperties, LenProperties
  <2>2. Range(a) = Range(q) \cup {k} BY InRange, RangeAppend
  <2> HIDE DEF a
  <2>3. DOMAIN a = 1 .. Len(q) + 1 BY <2>1, LenProperties
  <2>4. IsInjective(a)
    <3> SUFFICES ASSUME NEW i \in DOMAIN a, NEW j \in DOMAIN a, a[i] = a[j] PROVE i = j
      BY DEF IsInjective
    <3>1. \A x \in DOMAIN q : q[x] # k BY <1>2 DEF Range
    <3>2. \A x \in DOMAIN a : x = Len(q) + 1 \/ x \in DOMAIN q BY <2>1, <2>3
    <3>3. CASE i = Len(q) + 1 /\ j \in DOMAIN q BY <2>1, <3>1, <3>3
    <3>4. CASE j = Len(q) + 1 /\ i \in DOMAIN q BY <2>1, <3>1, <3>4
    <3>5. CASE i \in DOMAIN q /\ j \in DOMAIN q BY <2>1, <3>5 DEF IsInjective
    <3> QED BY <3>2, <3>3, <3>4, <3>5
  <2>5. Enqueue(q, k) = a BY <1>2 DEF Enqueue, a
  <2> QED BY <2>1, <2>2, <2>4, <2>5 DEF a
<1> QED BY <1>1, <1>2

LEMMA SessRecord ==
  ASSUME SessShape
  PROVE  sess = [id |-> sess.id, act |-> sess.act, label |-> sess.label, kids |-> sess.kids,
                 robots |-> sess.robots, who |-> sess.who, panel |-> sess.panel,
                 queue |-> sess.queue, pending |-> sess.pending,
                 recording |-> sess.recording]
BY PanelFields DEF SessShape

LEMMA IdlePanel ==
  ASSUME sess' = Idle
  PROVE  PanelTyped' /\ DurableMap' /\ sess'.id = 0
<1>1. /\ sess'.id = 0 /\ sess'.kids = {} /\ sess'.who = Unassigned
      /\ sess'.queue = <<>> /\ sess'.pending = <<>>
  BY DEF Idle
<1>2. /\ <<>> \in Seq(Skins) /\ IsInjective(<<>>) /\ Range(<<>>) = {}
      /\ <<>> \in Seq(Range(<<>>))
  BY EmptySeq, NothingQueued DEF IsInjective
<1> QED BY <1>1, <1>2 DEF PanelTyped, DurableMap, InSession, Unassigned

LEMMA BegunPanel ==
  ASSUME NEW s \in Sessions, NEW kids, kids \subseteq People, NEW robots,
         NEW who \in [Skins -> People \cup {None}], NEW rec, Begin(s, kids, robots, who, rec)
  PROVE  PanelTyped' /\ sess'.id = s /\ sess'.who = who /\ sess'.pending = <<>>
<1>1. PICK act \in left.starts :
        sess' = [Idle EXCEPT !.id = s, !.act = act, !.kids = kids, !.robots = robots,
                   !.who = who, !.panel = PanelFor(kids, robots, who), !.recording = rec]
  BY DEF Begin
<1>2. /\ sess'.id = s /\ sess'.kids = kids /\ sess'.who = who
      /\ sess'.queue = <<>> /\ sess'.pending = <<>>
  BY <1>1 DEF Idle
<1>3. /\ <<>> \in Seq(Skins) /\ IsInjective(<<>>) /\ Range(<<>>) = {}
      /\ <<>> \in Seq(Range(<<>>))
  BY EmptySeq, NothingQueued DEF IsInjective
<1>4. s # 0 BY StoreAssumption
<1> QED BY <1>2, <1>3, <1>4 DEF PanelTyped, InSession

LEMMA SamePanel ==
  ASSUME PanelTyped, sess' = sess \/ InSession, sess'.id = sess.id, sess'.kids = sess.kids,
         sess'.who = sess.who, sess'.queue = sess.queue, sess'.pending = sess.pending
  PROVE  PanelTyped'
BY DEF PanelTyped, InSession

\* The buttons and the window change nothing of it.
LEMMA PanelHalting ==
  ASSUME SessShape, PanelTyped, Halting \/ HidePanel
  PROVE  /\ PanelTyped' /\ sess'.id = sess.id /\ sess'.who = sess.who
         /\ sess'.pending = sess.pending
<1>1. HidePanel => InSession BY DEF HidePanel, PanelTyped, Idle, None
<1>2. \/ sess' = sess
      \/ InSession /\ \E l, a, p : sess' = [sess EXCEPT !.label = l, !.act = a, !.panel = p]
  <2>1. CASE HidePanel
    <3>1. sess' = [sess EXCEPT !.panel = "hidden"] BY <2>1 DEF HidePanel
    <3>2. sess' = [sess EXCEPT !.label = sess.label, !.act = sess.act, !.panel = "hidden"]
      BY <3>1, SessRecord
    <3> QED BY <1>1, <2>1, <3>2
  <2>2. ASSUME NEW l, NEW a, sess' = [sess EXCEPT !.label = l, !.act = a]
        PROVE  \E m, b, p : sess' = [sess EXCEPT !.label = m, !.act = b, !.panel = p]
    <3>1. sess' = [sess EXCEPT !.label = l, !.act = a, !.panel = sess.panel]
      BY <2>2, SessRecord
    <3> QED BY <3>1
  <2>3. CASE PauseButton
    <3>1. InSession /\ \E l, a : sess' = [sess EXCEPT !.label = l, !.act = a]
      BY <2>3 DEF PauseButton
    <3> QED BY <2>2, <3>1
  <2>4. CASE EmergencyStop
    <3>1. sess' = sess \/ (InSession /\ \E l, a : sess' = [sess EXCEPT !.label = l, !.act = a])
      BY <2>4 DEF EmergencyStop
    <3> QED BY <2>2, <3>1
  <2>5. CASE AnswerRearm
    <3>1. sess' = sess \/ (InSession /\ \E l, a : sess' = [sess EXCEPT !.label = l, !.act = a])
      BY <2>5 DEF AnswerRearm
    <3> QED BY <2>2, <3>1
  <2>6. CASE AskRearm BY <2>6 DEF AskRearm
  <2> QED BY <2>1, <2>3, <2>4, <2>5, <2>6 DEF Halting
<1>3. /\ sess'.id = sess.id /\ sess'.kids = sess.kids /\ sess'.who = sess.who
      /\ sess'.queue = sess.queue /\ sess'.pending = sess.pending
  BY <1>2, SessRecord
<1> QED BY <1>2, <1>3, SamePanel

LEMMA PanelPress ==
  ASSUME SessShape, PanelTyped, NEW k \in Skins, Press(k)
  PROVE  /\ PanelTyped' /\ sess'.id = sess.id /\ sess'.who = sess.who
         /\ InSession /\ db' = db
         /\ \/ sess' = sess /\ evq' = Append(evq, TouchEvent("press", left.touch, k, WhoOf(k)))
            \/ /\ evq' = evq /\ sess.who[k] = None
               /\ sess'.pending = Append(sess.pending, [skin |-> k, no |-> left.touch])
<1> DEFINE w == [skin |-> k, no |-> left.touch]
           pend == Append(sess.pending, w)
           que  == Enqueue(sess.queue, k)
<1>1. InSession /\ db' = db BY DEF Press, Listening
<1>2. CASE sess' = sess /\ evq' = Append(evq, TouchEvent("press", left.touch, k, WhoOf(k)))
  BY <1>1, <1>2, SamePanel
<1>3. CASE sess.who[k] = None /\ evq' = evq
           /\ sess' = [sess EXCEPT !.pending = pend, !.queue = que]
  <2>1. que \in Seq(Skins) /\ IsInjective(que) /\ Range(que) \subseteq Range(sess.queue) \cup {k}
    BY EnqueuedOnce DEF PanelTyped
  <2>2. pend \in Seq(Range(pend)) /\ Range(pend) = Range(sess.pending) \cup {w}
    BY RangeAppend DEF PanelTyped
  <2>3. w.skin \in Skins OBVIOUS
  <2> HIDE DEF que, w, pend
  <2>4. /\ sess'.id = sess.id /\ sess'.kids = sess.kids /\ sess'.who = sess.who
        /\ sess'.queue = que /\ sess'.pending = pend
    BY <1>3, SessRecord
  <2>5. \A i \in Range(que) : sess.who[i] = None BY <1>3, <2>1 DEF PanelTyped
  <2>6. \A t \in Range(pend) : t.skin \in Skins BY <2>2, <2>3 DEF PanelTyped
  <2>7. PanelTyped' BY <1>1, <2>1, <2>2, <2>4, <2>5, <2>6 DEF PanelTyped, InSession
  <2> QED BY <1>1, <1>3, <2>4, <2>7 DEF pend, w
<1> QED BY <1>2, <1>3 DEF Press

\* What the operator is asked about.
LEMMA AskedOf ==
  ASSUME PanelTyped, Asking
  PROVE  /\ InSession /\ Head(sess.queue) \in Skins /\ sess.who[Head(sess.queue)] = None
         /\ Tail(sess.queue) \in Seq(Skins) /\ IsInjective(Tail(sess.queue))
         /\ Range(Tail(sess.queue)) \subseteq Range(sess.queue)
         /\ Head(sess.queue) \notin Range(Tail(sess.queue))
<1>1. InSession BY DEF PanelTyped, Asking, Idle, None
<1>2. sess.queue # <<>> BY DEF Asking
<1> QED BY <1>1, <1>2, TailQueue DEF PanelTyped

LEMMA PlacesOf == \A k : OfSkin(k) \subseteq DOMAIN sess.pending
BY DEF OfSkin

LEMMA PanelSkip ==
  ASSUME SessShape, PanelTyped, SkipTouch
  PROVE  /\ PanelTyped' /\ sess'.id = sess.id /\ sess'.who = sess.who /\ InSession
         /\ \/ sess'.pending = sess.pending /\ evq' = evq
            \/ /\ OfSkin(Head(sess.queue)) # {}
               /\ sess'.pending =
                    PendingAt(DOMAIN sess.pending \ {Min(OfSkin(Head(sess.queue)))})
               /\ evq' = Append(evq, TouchEvent("press",
                           sess.pending[Min(OfSkin(Head(sess.queue)))].no,
                           Head(sess.queue), Unknown))
<1> DEFINE k == Head(sess.queue)
           first == Min(OfSkin(k))
           que  == Tail(sess.queue)
           P == DOMAIN sess.pending \ {first}
           pend == PendingAt(P)
           ev == TouchEvent("press", sess.pending[first].no, k, Unknown)
<1>1. Asking BY DEF SkipTouch
<1>2. /\ InSession /\ que \in Seq(Skins) /\ IsInjective(que)
      /\ \A i \in Range(que) : sess.who[i] = None
  BY <1>1, AskedOf DEF PanelTyped
<1>3. \/ sess' = [sess EXCEPT !.queue = que] /\ evq' = evq
      \/ /\ OfSkin(k) # {} /\ sess' = [sess EXCEPT !.queue = que, !.pending = pend]
         /\ evq' = Append(evq, ev)
  BY DEF SkipTouch
<1>4. pend \in Seq(Range(pend)) /\ Range(pend) \subseteq Range(sess.pending)
  <2>1. /\ pend \in Seq(Range(pend)) /\ Range(pend) = {sess.pending[i] : i \in P}
    BY PendingTyped DEF PanelTyped
  <2> QED BY <2>1 DEF Range
<1> HIDE DEF que, pend, ev, P, first
<1>5. CASE sess' = [sess EXCEPT !.queue = que] /\ evq' = evq
  <2>1. /\ sess'.id = sess.id /\ sess'.kids = sess.kids /\ sess'.who = sess.who
        /\ sess'.queue = que /\ sess'.pending = sess.pending
    BY <1>5, SessRecord
  <2>2. PanelTyped' BY <1>2, <2>1 DEF PanelTyped, InSession
  <2> QED BY <1>2, <1>5, <2>1, <2>2
<1>6. CASE OfSkin(k) # {} /\ sess' = [sess EXCEPT !.queue = que, !.pending = pend]
           /\ evq' = Append(evq, ev)
  <2>1. /\ sess'.id = sess.id /\ sess'.kids = sess.kids /\ sess'.who = sess.who
        /\ sess'.queue = que /\ sess'.pending = pend
    BY <1>6, SessRecord
  <2>2. PanelTyped' BY <1>2, <1>4, <2>1 DEF PanelTyped, InSession
  <2> QED BY <1>2, <1>6, <2>1, <2>2 DEF first, P, pend, ev
<1> QED BY <1>3, <1>5, <1>6

LEMMA PanelAssign ==
  ASSUME SessShape, PanelTyped, NEW p \in sess.kids, AssignSkin(p)
  PROVE  /\ PanelTyped' /\ sess'.id = sess.id /\ InSession /\ p \in People
         /\ sess'.who = [sess.who EXCEPT ![Head(sess.queue)] = p]
         /\ sess'.pending = OthersThan(Head(sess.queue))
         /\ db' = SaveAssignment(db, sess.id, Head(sess.queue), p)
<1> DEFINE k == Head(sess.queue)
           whos == [sess.who EXCEPT ![k] = p]
           que  == Tail(sess.queue)
           P == DOMAIN sess.pending \ OfSkin(k)
           pend == OthersThan(k)
<1>1. /\ Asking /\ sess' = [sess EXCEPT !.who = whos, !.queue = que, !.pending = pend]
      /\ db' = SaveAssignment(db, sess.id, k, p)
  BY DEF AssignSkin
<1>2. /\ InSession /\ que \in Seq(Skins) /\ IsInjective(que) /\ k \in Skins
      /\ \A i \in Range(que) : sess.who[i] = None /\ i # k /\ i \in Skins
  <2>1. Range(sess.queue) \subseteq Skins BY InRange DEF PanelTyped
  <2> QED BY <1>1, <2>1, AskedOf DEF PanelTyped
<1>3. pend \in Seq(Range(pend)) /\ Range(pend) \subseteq Range(sess.pending)
  <2>1. /\ pend \in Seq(Range(pend)) /\ Range(pend) = {sess.pending[i] : i \in P}
    BY PendingTyped DEF PanelTyped, OthersThan
  <2> QED BY <2>1 DEF Range
<1>4. p \in People BY DEF PanelTyped
<1>5. /\ whos \in [Skins -> People \cup {None}]
      /\ \A i \in Range(que) : whos[i] = None
  BY <1>2, <1>4 DEF PanelTyped
<1> HIDE DEF que, pend, whos, P, k
<1>6. /\ sess'.id = sess.id /\ sess'.kids = sess.kids /\ sess'.who = whos
      /\ sess'.queue = que /\ sess'.pending = pend
  BY <1>1, SessRecord
<1>7. PanelTyped' BY <1>2, <1>3, <1>5, <1>6 DEF PanelTyped, InSession
<1> QED BY <1>1, <1>2, <1>4, <1>6, <1>7 DEF whos, pend, k

-----------------------------------------------------------------------------
(* Ids, setups, and the map read back *)

LEMMA SetupTyped ==
  ASSUME left \in Mix, NEW u \in Setups
  PROVE  u.kids \subseteq People /\ u.who \in [Skins -> People \cup {None}]
<1>1. u \in left.setups BY DEF Setups
<1>2. left.setups \subseteq [kids : SUBSET People, robots : BOOLEAN, record : BOOLEAN,
                             who : [Skins -> People \cup {None}]]
  BY DEF Mix
<1> QED BY <1>1, <1>2

LEMMA OfferedFree ==
  ASSUME left.careful, DbInv, NEW s \in Offered
  PROVE  s \in Sessions /\ s > db.last
<1>1. s = db.last + 1 /\ s \in Sessions BY DEF Offered, NextSessionId
<1>2. db.last \in Nat BY DEF DbInv, TablesTyped
<1> QED BY <1>1, <1>2

\* With one child per skin the map read back is the one that was stored.
LEMMA ReadBack ==
  ASSUME NEW d, NEW s, d.asg[s] \in Maps, NEW who \in ReadMap(d, s)
  PROVE  /\ who \in [Skins -> People \cup {None}]
         /\ \A k \in Skins : d.asg[s][k] = {who[k]} \ {None}
<1>1. who \in [Skins -> People \cup {None}] BY DEF ReadMap
<1>2. ASSUME NEW k \in Skins PROVE d.asg[s][k] = {who[k]} \ {None}
  <2>1. CASE d.asg[s][k] = {} BY <2>1 DEF ReadMap
  <2>2. CASE d.asg[s][k] # {}
    <3>1. who[k] \in d.asg[s][k] BY <2>2 DEF ReadMap
    <3>2. d.asg[s][k] \subseteq People /\ \A p, q \in d.asg[s][k] : p = q BY DEF Maps
    <3>3. d.asg[s][k] = {who[k]} BY <3>1, <3>2
    <3>4. who[k] # None BY <3>1, <3>2, StoreAssumption
    <3> QED BY <3>3, <3>4
  <2> QED BY <2>1, <2>2
<1> QED BY <1>1, <1>2

LEMMA SameDurable ==
  ASSUME DurableMap, sess'.id = sess.id, sess'.who = sess.who,
         InSession => db'.asg[sess.id] = db.asg[sess.id]
  PROVE  DurableMap'
BY DEF DurableMap, InSession

\* The session on the panel has a row, has not ended, and is nowhere else.
LEMMA OnPanel ==
  ASSUME OpenInv, DbInv, InSession
  PROVE  /\ sess.id \in Sessions /\ db.row[sess.id] = "open" /\ db.row[sess.id] # "none"
         /\ sess.id \notin DOMAIN db.bin
<1>1. sess.id \in Sessions /\ db.row[sess.id] = "open"
  <2>1. app # "down" /\ ~Asked BY DEF OpenInv, PanelKnows, InSession
  <2>2. ActiveSessions(db) = {sess.id} BY <2>1 DEF OpenInv, PanelKnows, InSession
  <2> QED BY <2>2 DEF ActiveSessions
<1>2. "open" # "none" OBVIOUS
<1>3. db.row[sess.id] # "none" BY <1>1, <1>2
<1> QED BY <1>1, <1>3, InUse

-----------------------------------------------------------------------------
(* The recordings *)

LEMMA SameDisk ==
  ASSUME DiskInv, files' = files, owed' = owed, torn' = torn, run' \in Nat,
         db'.bin = db.bin, \A s \in Sessions : db.row[s] # "none" => db'.row[s] # "none"
  PROVE  DiskInv'
<1>1. DiskTyped' BY DEF DiskInv, DiskTyped
<1>2. OwedKnown' BY DEF DiskInv, DiskTyped, OwedKnown
<1>3. RecordingsFollow' BY DEF DiskInv, RecordingsFollow
<1> QED BY <1>1, <1>2, <1>3 DEF DiskInv

\* A crash forgets what was to be moved.
LEMMA DownDisk ==
  ASSUME DiskInv, Down, files' = files, run' = run,
         db'.bin = db.bin, \A s \in Sessions : db.row[s] # "none" => db'.row[s] # "none"
  PROVE  DiskInv'
<1>1. owed' = NothingOwed /\ torn' = torn \cup owed.of BY DEF Down
<1>2. owed'.op = None /\ owed'.of = {}
      /\ owed' \in [op : {None, "trash", "restore", "purge"}, of : SUBSET Sessions]
  BY <1>1 DEF NothingOwed
<1>3. DiskTyped' BY <1>2 DEF DiskInv, DiskTyped
<1>4. OwedKnown' BY <1>2 DEF OwedKnown, None
<1>5. RecordingsFollow' BY <1>1, <1>2 DEF DiskInv, RecordingsFollow
<1> QED BY <1>3, <1>4, <1>5 DEF DiskInv

LEMMA RecordedDisk ==
  ASSUME DiskInv, NEW s \in Sessions, NEW on, files' = Recording(s, on), owed' = owed,
         torn' = torn, run' = run, db'.bin = db.bin,
         \A t \in Sessions : db.row[t] # "none" => db'.row[t] # "none", db'.row[s] # "none"
  PROVE  DiskInv'
<1>1. CASE ~on BY <1>1, SameDisk DEF Recording, DiskInv, DiskTyped
<1>2. CASE on
  <2> DEFINE l == [files.live EXCEPT ![s] = {run}]
  <2>1. files' = [files EXCEPT !.live = l] BY <1>2 DEF Recording
  <2>2. l \in FileMap /\ \A t \in Sessions : t # s => l[t] = files.live[t]
    BY DEF DiskInv, DiskTyped, FileMap
  <2> HIDE DEF l
  <2>3. files' \in [live : FileMap, bin : FileMap] /\ files'.live = l /\ files'.bin = files.bin
    BY <2>1, <2>2 DEF DiskInv, DiskTyped
  <2>4. DiskTyped' BY <2>3 DEF DiskInv, DiskTyped
  <2>5. OwedKnown' BY DEF DiskInv, DiskTyped, OwedKnown
  <2>6. RecordingsFollow' BY <2>2, <2>3 DEF DiskInv, RecordingsFollow
  <2> QED BY <2>4, <2>5, <2>6 DEF DiskInv
<1> QED BY <1>1, <1>2

\* A file lies where its session was: the tables have changed, it has yet to.
LEMMA OwedDisk ==
  ASSUME DiskInv, owed = NothingOwed, files' = files, torn' = torn, run' = run,
         NEW op \in {"trash", "restore", "purge"}, NEW S, S \subseteq Sessions,
         owed' = [op |-> op, of |-> S],
         \A s \in Sessions \ S : db'.row[s] = db.row[s] /\ (s \in DOMAIN db.bin => s \in DOMAIN db'.bin),
         op = "trash" => S \subseteq DOMAIN db'.bin,
         op = "restore" => \A s \in S : db'.row[s] # "none"
  PROVE  DiskInv'
<1>1. owed'.op = op /\ owed'.of = S
      /\ owed' \in [op : {None, "trash", "restore", "purge"}, of : SUBSET Sessions]
  OBVIOUS
<1>2. DiskTyped' BY <1>1 DEF DiskInv, DiskTyped
<1>3. OwedKnown' BY <1>1 DEF OwedKnown, None
<1>4. owed.of = {} BY DEF NothingOwed
<1>5. RecordingsFollow' BY <1>1, <1>4 DEF DiskInv, RecordingsFollow
<1> QED BY <1>2, <1>3, <1>5 DEF DiskInv

\* A session's file and the others' after a move.
Only(f, s) ==
  /\ f \in [live : FileMap, bin : FileMap]
  /\ \A t \in Sessions : t # s => f.live[t] = files.live[t] /\ f.bin[t] = files.bin[t]

LEMMA MovedTyped ==
  ASSUME files \in [live : FileMap, bin : FileMap], NEW s \in Sessions
  PROVE  /\ LET f == Moved(files, "live", "bin", s) IN Only(f, s) /\ f.live[s] = {}
         /\ LET f == Moved(files, "bin", "live", s) IN Only(f, s) /\ f.bin[s] = {}
         /\ LET f == [files EXCEPT !.live[s] = {}, !.bin[s] = {}]
            IN  Only(f, s) /\ f.live[s] = {} /\ f.bin[s] = {}
<1>1. ASSUME NEW a \in SUBSET Nat, NEW b \in SUBSET Nat
      PROVE  LET f == [files EXCEPT !.live[s] = a, !.bin[s] = b]
                 g == [files EXCEPT !.bin[s] = b, !.live[s] = a]
             IN  f = g /\ Only(f, s) /\ f.live[s] = a /\ f.bin[s] = b
  <2> DEFINE l == [files.live EXCEPT ![s] = a]
             m == [files.bin EXCEPT ![s] = b]
             x == [live |-> l, bin |-> m]
  <2>1. /\ l \in FileMap /\ l[s] = a /\ \A t \in Sessions : t # s => l[t] = files.live[t]
        /\ m \in FileMap /\ m[s] = b /\ \A t \in Sessions : t # s => m[t] = files.bin[t]
    BY DEF FileMap
  <2>2. /\ [files EXCEPT !.live[s] = a, !.bin[s] = b] = [files EXCEPT !.live = l, !.bin = m]
        /\ [files EXCEPT !.bin[s] = b, !.live[s] = a] = [files EXCEPT !.bin = m, !.live = l]
    OBVIOUS
  <2>3. files = [live |-> files.live, bin |-> files.bin] OBVIOUS
  <2> HIDE DEF l, m
  <2>4. [files EXCEPT !.live = l, !.bin = m] = x /\ [files EXCEPT !.bin = m, !.live = l] = x
    <3> DEFINE g == [files EXCEPT !.live = l]  h == [files EXCEPT !.bin = m]
    <3>1. g = [live |-> l, bin |-> files.bin] /\ h = [live |-> files.live, bin |-> m]
      BY <2>3
    <3>2. /\ [files EXCEPT !.live = l, !.bin = m] = [g EXCEPT !.bin = m]
          /\ [files EXCEPT !.bin = m, !.live = l] = [h EXCEPT !.live = l]
      OBVIOUS
    <3> HIDE DEF g, h
    <3>3. [g EXCEPT !.bin = m] = x BY <3>1
    <3>4. [h EXCEPT !.live = l] = x BY <3>1
    <3> QED BY <3>2, <3>3, <3>4
  <2>5. Only(x, s) /\ x.live[s] = a /\ x.bin[s] = b BY <2>1 DEF Only
  <2> HIDE DEF x
  <2> QED BY <2>2, <2>4, <2>5
<1>2. files.live[s] \in SUBSET Nat /\ files.bin[s] \in SUBSET Nat /\ {} \in SUBSET Nat
  BY DEF FileMap
<1>3. LET f == Moved(files, "live", "bin", s) IN Only(f, s) /\ f.live[s] = {}
  <2>1. CASE files.live[s] = {} BY <2>1 DEF Moved, Only
  <2>2. CASE files.live[s] # {}
    <3>1. Moved(files, "live", "bin", s) =
            [files EXCEPT !.bin[s] = files.live[s], !.live[s] = {}]
      BY <2>2 DEF Moved
    <3> DEFINE f == [files EXCEPT !.bin[s] = files.live[s], !.live[s] = {}]
    <3>2. Only(f, s) /\ f.live[s] = {} BY <1>1, <1>2
    <3> HIDE DEF f
    <3> QED BY <3>1, <3>2 DEF f
  <2> QED BY <2>1, <2>2
<1>4. LET f == Moved(files, "bin", "live", s) IN Only(f, s) /\ f.bin[s] = {}
  <2>1. CASE files.bin[s] = {} BY <2>1 DEF Moved, Only
  <2>2. CASE files.bin[s] # {}
    <3>1. Moved(files, "bin", "live", s) =
            [files EXCEPT !.live[s] = files.bin[s], !.bin[s] = {}]
      BY <2>2 DEF Moved
    <3> DEFINE f == [files EXCEPT !.live[s] = files.bin[s], !.bin[s] = {}]
    <3>2. Only(f, s) /\ f.bin[s] = {} BY <1>1, <1>2
    <3> HIDE DEF f
    <3> QED BY <3>1, <3>2 DEF f
  <2> QED BY <2>1, <2>2
<1> QED BY <1>1, <1>2, <1>3, <1>4

LEMMA MovedDisk ==
  ASSUME DiskInv, NEW s \in Sessions, MoveFile(s), DbInv
  PROVE  DiskInv'
<1> DEFINE rest == owed.of \ {s}
<1>1. s \in owed.of /\ db' = db /\ torn' = torn /\ run' = run
  BY DEF MoveFile
<1>2. owed.op \in {"trash", "restore", "purge"} /\ owed.of \subseteq Sessions
  BY <1>1 DEF DiskInv, DiskTyped, OwedKnown
<1>3. /\ owed' \in [op : {None, "trash", "restore", "purge"}, of : SUBSET Sessions]
      /\ owed'.of = rest /\ (owed'.op = owed.op \/ (owed'.op = None /\ rest = {}))
  <2>1. CASE rest = {} BY <2>1 DEF MoveFile, NothingOwed
  <2>2. CASE rest # {}
    <3>1. owed' = [owed EXCEPT !.of = rest] BY <2>2 DEF MoveFile
    <3>2. rest \in SUBSET Sessions BY <1>2
    <3> HIDE DEF rest
    <3>3. /\ owed' \in [op : {None, "trash", "restore", "purge"}, of : SUBSET Sessions]
          /\ owed'.of = rest /\ owed'.op = owed.op
      BY <3>1, <3>2 DEF DiskInv, DiskTyped
    <3> QED BY <3>3
  <2> QED BY <2>1, <2>2
<1>4. OwedKnown' BY <1>1, <1>2, <1>3 DEF DiskInv, OwedKnown, None
<1>5. /\ files' \in [live : FileMap, bin : FileMap]
      /\ files'.live[s] # {} => db.row[s] # "none"
      /\ files'.bin[s] # {} => s \in DOMAIN db.bin
      /\ \A t \in Sessions : t # s => files'.live[t] = files.live[t] /\ files'.bin[t] = files.bin[t]
  <2>1. files \in [live : FileMap, bin : FileMap] BY DEF DiskInv, DiskTyped
  <2>2. CASE owed.op = "trash"
    <3>1. files' = Moved(files, "live", "bin", s) BY <2>2 DEF MoveFile
    <3>2. s \in DOMAIN db.bin BY <1>1, <2>2 DEF DiskInv, OwedKnown
    <3>3. Only(files', s) /\ files'.live[s] = {} BY <2>1, <3>1, MovedTyped
    <3> QED BY <3>2, <3>3 DEF Only
  <2>3. CASE owed.op = "restore"
    <3>1. files' = Moved(files, "bin", "live", s) BY <2>3 DEF MoveFile
    <3>2. db.row[s] # "none" BY <1>1, <2>3 DEF DiskInv, OwedKnown
    <3>3. Only(files', s) /\ files'.bin[s] = {} BY <2>1, <3>1, MovedTyped
    <3> QED BY <3>2, <3>3 DEF Only
  <2>4. CASE owed.op = "purge"
    <3>1. files' = [files EXCEPT !.live[s] = {}, !.bin[s] = {}] BY <2>4 DEF MoveFile
    <3>2. Only(files', s) /\ files'.live[s] = {} /\ files'.bin[s] = {}
      BY <2>1, <3>1, MovedTyped
    <3> QED BY <3>2 DEF Only
  <2> QED BY <1>2, <2>2, <2>3, <2>4
<1>6. DiskTyped' BY <1>1, <1>3, <1>5 DEF DiskInv, DiskTyped
<1>7. RecordingsFollow'
  <2> SUFFICES ASSUME NEW t \in Sessions, t \notin torn, t \notin rest
               PROVE  /\ files'.live[t] # {} => db.row[t] # "none"
                      /\ files'.bin[t] # {} => t \in DOMAIN db.bin
    BY <1>1, <1>3 DEF RecordingsFollow
  <2>1. CASE t = s BY <1>5, <2>1
  <2>2. CASE t # s BY <1>5, <2>2 DEF DiskInv, RecordingsFollow
  <2> QED BY <2>1, <2>2
<1> QED BY <1>4, <1>6, <1>7 DEF DiskInv

-----------------------------------------------------------------------------
(* What is stored, action by action *)

\* What a step does to what is stored, and to the panel's copy of it.
Kept == StoreInv' /\ LosesNothing

\* No table, file or queue is touched.
LEMMA StoreQuiet ==
  ASSUME StoreInv, PanelTyped', ModalTyped', DurableMap', db' = db, evq' = evq,
         files' = files, owed' = owed, torn' = torn, run' = run
  PROVE  Kept
<1>1. DiskInv' BY SameDisk DEF StoreInv, DiskInv, DiskTyped
<1> QED BY <1>1, KeptQueue DEF StoreInv, Kept

LEMMA StoreBoot == ASSUME OpenInv, StoreInv, Boot PROVE Kept
<1> DEFINE A == ActiveSessions(db)
<1>1. /\ app = "down" /\ sess' = sess /\ evq' = evq /\ files' = files /\ owed' = owed
      /\ torn' = torn /\ run' = run + 1 /\ modal' \in {None, "resume"}
      /\ db' = db \/ db' = CloseAllBut(db, {MostRecent(A)})
  BY DEF Boot
<1>2. ~InSession BY <1>1 DEF OpenInv, PanelKnows, InSession
<1>3. PanelTyped' /\ DurableMap' /\ ModalTyped'
  BY <1>1, <1>2, SamePanel DEF StoreInv, DurableMap, InSession, ModalTyped
<1>4. run' \in Nat BY <1>1 DEF StoreInv, DiskInv, DiskTyped
<1>5. CASE db' = db
  <2>1. DiskInv' BY <1>1, <1>4, <1>5, SameDisk DEF StoreInv
  <2> QED BY <1>1, <1>3, <1>5, <2>1, KeptQueue DEF StoreInv, Kept
<1>6. CASE db' = CloseAllBut(db, {MostRecent(A)})
  <2>1. /\ DbInv' /\ LosesNothing /\ db'.bin = db.bin
        /\ \A s \in Sessions : db.row[s] # "none" => db'.row[s] # "none"
    BY <1>1, <1>6, ClosedDb DEF OpenInv, StoreInv
  <2>2. DiskInv' BY <1>1, <1>4, <2>1, SameDisk DEF StoreInv
  <2> QED BY <1>3, <2>1, <2>2 DEF StoreInv, Kept
<1> QED BY <1>1, <1>5, <1>6

LEMMA StoreDecline == ASSUME OpenInv, StoreInv, DeclineResume PROVE Kept
<1>1. /\ Asked /\ sess' = sess /\ evq' = evq /\ files' = files /\ owed' = owed
      /\ torn' = torn /\ run' = run /\ modal' = None
      /\ db' = CloseAllBut(db, {})
  BY DEF DeclineResume, Asked
<1>2. ~InSession BY <1>1 DEF OpenInv, PanelKnows, InSession
<1>3. PanelTyped' /\ DurableMap' /\ ModalTyped'
  BY <1>1, <1>2, SamePanel DEF StoreInv, DurableMap, InSession, ModalTyped
<1>4. /\ DbInv' /\ LosesNothing /\ db'.bin = db.bin
      /\ \A s \in Sessions : db.row[s] # "none" => db'.row[s] # "none"
  BY <1>1, ClosedDb DEF OpenInv, StoreInv
<1>5. DiskInv' BY <1>1, <1>4, SameDisk DEF StoreInv, DiskInv, DiskTyped
<1> QED BY <1>3, <1>4, <1>5 DEF StoreInv, Kept

LEMMA StoreAccept == ASSUME OpenInv, StoreInv, AcceptResume PROVE Kept
<1> DEFINE A == ActiveSessions(db)
<1>1. PICK s \in A : A = {s} BY DEF AcceptResume, OpenInv, PanelKnows, Asked
<1>2. MostRecent(A) = s
  <2>1. s \in Nat BY StoreAssumption DEF ActiveSessions
  <2>2. \A t \in A : t <= s BY <1>1, <2>1
  <2> HIDE DEF A
  <2> QED BY <1>1, <2>2 DEF MostRecent
<1>3. /\ Asked /\ db' = db /\ evq' = evq /\ files' = Recording(s, TRUE) /\ owed' = owed
      /\ torn' = torn /\ run' = run /\ modal' = None
      /\ \E who \in ReadMap(db, s) : Begin(s, db.kids[s], HasStartMeta(db, s), who, TRUE)
  BY <1>2 DEF AcceptResume, Asked
<1>4. s \in Sessions /\ db.row[s] # "none" BY DEF ActiveSessions
<1>5. PICK who \in ReadMap(db, s) : Begin(s, db.kids[s], HasStartMeta(db, s), who, TRUE)
  BY <1>3
<1>6. db.asg[s] \in Maps /\ db.kids[s] \subseteq People
  BY <1>4 DEF StoreInv, DbInv, TablesTyped
<1>7. /\ who \in [Skins -> People \cup {None}]
      /\ \A k \in Skins : db.asg[s][k] = {who[k]} \ {None}
  BY <1>6, ReadBack
<1>8. PanelTyped' /\ sess'.id = s /\ sess'.who = who
  <2> DEFINE kids == db.kids[s]  robots == HasStartMeta(db, s)
  <2>1. Begin(s, kids, robots, who, TRUE) /\ kids \subseteq People BY <1>5, <1>6
  <2>2. s \in Sessions BY <1>4
  <2> HIDE DEF kids, robots, A
  <2> QED BY <1>7, <2>1, <2>2, BegunPanel
<1>9. DurableMap' BY <1>3, <1>7, <1>8 DEF DurableMap
<1>10. ModalTyped' BY <1>3 DEF ModalTyped
<1>11. DiskInv' BY <1>3, <1>4, RecordedDisk DEF StoreInv
<1> QED BY <1>3, <1>8, <1>9, <1>10, <1>11, KeptQueue DEF StoreInv, Kept

LEMMA StoreNew == ASSUME OpenInv, StoreInv, NewSession PROVE Kept
<1>1. PICK s \in Offered, u \in Setups :
        /\ db' = Started(s, u, u.who)
        /\ evq' = Append(evq, StartEvent(s, u.robots))
        /\ \E read \in ReadMap(db', s) : Begin(s, u.kids, u.robots, read, u.record)
        /\ files' = Recording(s, u.record)
  BY DEF NewSession
<1>2. PICK read \in ReadMap(db', s) : Begin(s, u.kids, u.robots, read, u.record) BY <1>1
<1>3. owed' = owed /\ torn' = torn /\ run' = run /\ modal' = modal BY DEF NewSession
<1>4. u.kids \subseteq People /\ u.who \in [Skins -> People \cup {None}]
  BY SetupTyped DEF OpenInv
<1>5. s \in Sessions /\ s > db.last BY OfferedFree DEF OpenInv, StoreInv
<1>6. /\ Queued' => DbInv' /\ LosesNothing
      /\ db'.row = [db.row EXCEPT ![s] = "open"] /\ db'.bin = db.bin
  BY <1>1, <1>4, <1>5, StartedDb DEF OpenInv, StoreInv
<1>7. db'.row[s] # "none" /\ \A t \in Sessions : db.row[t] # "none" => db'.row[t] # "none"
  BY <1>5, <1>6 DEF OpenInv, Stored, RowsTyped
<1>8. Queued'
  <2>1. evq' \in Seq(Range(evq')) /\ Range(evq') = Range(evq) \cup {StartEvent(s, u.robots)}
    BY <1>1, RangeAppend DEF StoreInv, DbInv, Queued
  <2>2. StartEvent(s, u.robots).s = s BY DEF StartEvent
  <2> QED BY <1>5, <1>7, <2>1, <2>2 DEF StoreInv, DbInv, Queued, Live
<1>9. DbInv' /\ LosesNothing BY <1>6, <1>8
<1>10. db'.asg[s] \in Maps BY <1>5, <1>9 DEF DbInv, TablesTyped
<1>11. /\ read \in [Skins -> People \cup {None}]
       /\ \A k \in Skins : db'.asg[s][k] = {read[k]} \ {None}
  BY <1>10, ReadBack
<1>12. PanelTyped' /\ sess'.id = s /\ sess'.who = read
  BY <1>2, <1>4, <1>5, <1>11, BegunPanel
<1>13. DurableMap' BY <1>11, <1>12 DEF DurableMap
<1>14. ModalTyped' BY <1>3 DEF ModalTyped, StoreInv
<1>15. DiskInv' BY <1>1, <1>3, <1>5, <1>6, <1>7, RecordedDisk DEF StoreInv
<1> QED BY <1>9, <1>12, <1>13, <1>14, <1>15 DEF StoreInv, Kept

LEMMA StoreCrashedStart == ASSUME OpenInv, StoreInv, CrashDuringStart PROVE Kept
<1>1. PICK s \in Offered, u \in Setups, some \in SUBSET Skins :
        db' = Started(s, u, [k \in Skins |-> IF k \in some THEN u.who[k] ELSE None])
  BY DEF CrashDuringStart
<1> DEFINE who == [k \in Skins |-> IF k \in some THEN u.who[k] ELSE None]
<1>2. Down /\ files' = files /\ run' = run /\ evq' = <<>> /\ sess' = Idle /\ modal' = None
  BY DEF CrashDuringStart, Down
<1>3. u.kids \subseteq People /\ who \in [Skins -> People \cup {None}]
  BY SetupTyped DEF OpenInv
<1>4. s \in Sessions /\ s > db.last BY OfferedFree DEF OpenInv, StoreInv
<1>5. db' = Started(s, u, who) BY <1>1
<1> HIDE DEF who
<1>6. /\ Queued' => DbInv' /\ LosesNothing
      /\ db'.row = [db.row EXCEPT ![s] = "open"] /\ db'.bin = db.bin
  BY <1>3, <1>4, <1>5, StartedDb DEF OpenInv, StoreInv
<1>7. \A t \in Sessions : db.row[t] # "none" => db'.row[t] # "none"
  BY <1>4, <1>6 DEF OpenInv, Stored, RowsTyped
<1>8. Queued' BY <1>2, <1>7, StillQueued DEF StoreInv
<1>9. PanelTyped' /\ DurableMap' BY <1>2, IdlePanel
<1>10. DiskInv' BY <1>2, <1>6, <1>7, DownDisk DEF StoreInv
<1> QED BY <1>2, <1>6, <1>8, <1>9, <1>10 DEF StoreInv, Kept, ModalTyped

LEMMA StoreCrash == ASSUME OpenInv, StoreInv, Crash PROVE Kept
<1>1. /\ Down /\ db' = db /\ files' = files /\ run' = run /\ evq' = <<>> /\ sess' = Idle
      /\ modal' = None
  BY DEF Crash, Down
<1>2. PanelTyped' /\ DurableMap' BY <1>1, IdlePanel
<1>3. DiskInv' BY <1>1, DownDisk DEF StoreInv
<1> QED BY <1>1, <1>2, <1>3, LostQueue DEF StoreInv, Kept, ModalTyped

LEMMA StoreClose == ASSUME OpenInv, StoreInv, Close PROVE Kept
<1> DEFINE E == db.events \cup Range(evq)
<1>1. /\ Down /\ db' = [db EXCEPT !.events = E] /\ files' = files /\ run' = run
      /\ evq' = <<>> /\ sess' = Idle /\ modal' = None
  BY DEF Close, Down, Flushed
<1>2. db.events \subseteq E /\ \A e \in E : Live(e)
  BY DEF StoreInv, DbInv, Queued, Written
<1>3. evq' \in Seq(Range(evq')) /\ \A e \in Range(evq') : Live(e) BY <1>1, NothingQueued
<1> HIDE DEF E
<1>4. DbInv' /\ LosesNothing /\ db'.row = db.row /\ db'.bin = db.bin
  BY <1>1, <1>2, <1>3, WrittenDb DEF OpenInv, StoreInv
<1>5. PanelTyped' /\ DurableMap' BY <1>1, IdlePanel
<1>6. DiskInv' BY <1>1, <1>4, DownDisk DEF StoreInv
<1> QED BY <1>1, <1>4, <1>5, <1>6 DEF StoreInv, Kept, ModalTyped

LEMMA StoreStop == ASSUME OpenInv, StoreInv, StopSession PROVE Kept
<1>1. /\ InSession /\ db' = SaveSession(db, sess.id, "ended") /\ sess' = Idle
      /\ modal' = modal /\ evq' = evq /\ files' = files /\ owed' = owed /\ torn' = torn
      /\ run' = run
  BY DEF StopSession
<1>2. sess.id \in Sessions /\ db.row[sess.id] # "none" BY <1>1, OnPanel DEF StoreInv
<1>3. /\ DbInv' /\ LosesNothing /\ db'.bin = db.bin
      /\ \A t \in Sessions : db.row[t] # "none" => db'.row[t] # "none"
  BY <1>1, <1>2, StoppedDb DEF OpenInv, StoreInv
<1>4. PanelTyped' /\ DurableMap' BY <1>1, IdlePanel
<1>5. DiskInv' BY <1>1, <1>3, SameDisk DEF StoreInv, DiskInv, DiskTyped
<1> QED BY <1>1, <1>3, <1>4, <1>5 DEF StoreInv, Kept, ModalTyped

LEMMA StoreHalting == ASSUME OpenInv, StoreInv, Halting \/ HidePanel PROVE Kept
<1>1. /\ db' = db /\ evq' = evq /\ files' = files /\ owed' = owed /\ torn' = torn
      /\ run' = run /\ modal' \in {modal, None, "rearm"}
  BY DEF Halting, HidePanel, PauseButton, EmergencyStop, AskRearm, AnswerRearm
<1>2. PanelTyped' /\ sess'.id = sess.id /\ sess'.who = sess.who
  BY PanelHalting DEF OpenInv, StoreInv
<1>3. DurableMap' BY <1>1, <1>2, SameDurable DEF StoreInv
<1>4. ModalTyped' BY <1>1 DEF StoreInv, ModalTyped
<1> QED BY <1>1, <1>2, <1>3, <1>4, StoreQuiet

\* An event of the session on the panel joins the queue.
LEMMA StoreHeard ==
  ASSUME OpenInv, StoreInv, InSession, PanelTyped', ModalTyped', DurableMap', db' = db,
         NEW e, e.s = sess.id, evq' = Append(evq, e),
         files' = files, owed' = owed, torn' = torn, run' = run
  PROVE  Kept
<1>1. Live(e) BY OnPanel DEF Live, StoreInv
<1>2. DbInv' /\ LosesNothing BY <1>1, LongerQueue DEF StoreInv
<1>3. DiskInv' BY SameDisk DEF StoreInv, DiskInv, DiskTyped
<1> QED BY <1>2, <1>3 DEF StoreInv, Kept

LEMMA StoreTouches == ASSUME OpenInv, StoreInv, Touches PROVE Kept
<1>1. PICK k \in Skins : Press(k) \/ Release(k) BY DEF Touches
<1>2. /\ modal' = modal /\ files' = files /\ owed' = owed /\ torn' = torn /\ run' = run
      /\ db' = db
  BY <1>1 DEF Press, Release
<1>3. ModalTyped' BY <1>2 DEF StoreInv, ModalTyped
<1>4. \A kind, no, who : TouchEvent(kind, no, k, who).s = sess.id BY DEF TouchEvent
<1>5. CASE Press(k)
  <2>1. /\ PanelTyped' /\ sess'.id = sess.id /\ sess'.who = sess.who /\ InSession
        /\ evq' = evq \/ \E e : e.s = sess.id /\ evq' = Append(evq, e)
    BY <1>4, <1>5, PanelPress DEF OpenInv, StoreInv
  <2>2. DurableMap' BY <1>2, <2>1, SameDurable DEF StoreInv
  <2> QED BY <1>2, <1>3, <2>1, <2>2, StoreQuiet, StoreHeard
<1>6. CASE Release(k)
  <2>1. /\ InSession /\ sess' = sess
        /\ \E e : e.s = sess.id /\ evq' = Append(evq, e)
    BY <1>4, <1>6 DEF Release, Listening
  <2>2. PanelTyped' BY <2>1, SamePanel DEF StoreInv
  <2>3. DurableMap' BY <1>2, <2>1, SameDurable DEF StoreInv
  <2> QED BY <1>2, <1>3, <2>1, <2>2, <2>3, StoreHeard
<1> QED BY <1>1, <1>5, <1>6

LEMMA StoreSkip == ASSUME OpenInv, StoreInv, SkipTouch PROVE Kept
<1>1. /\ modal' = modal /\ files' = files /\ owed' = owed /\ torn' = torn /\ run' = run
      /\ db' = db
  BY DEF SkipTouch
<1>2. \A kind, no, k, who : TouchEvent(kind, no, k, who).s = sess.id BY DEF TouchEvent
<1>3. /\ PanelTyped' /\ sess'.id = sess.id /\ sess'.who = sess.who /\ InSession
      /\ evq' = evq \/ \E e : e.s = sess.id /\ evq' = Append(evq, e)
  BY <1>2, PanelSkip DEF OpenInv, StoreInv
<1>4. DurableMap' BY <1>1, <1>3, SameDurable DEF StoreInv
<1>5. ModalTyped' BY <1>1 DEF StoreInv, ModalTyped
<1> QED BY <1>1, <1>3, <1>4, <1>5, StoreQuiet, StoreHeard

LEMMA StoreAssign == ASSUME OpenInv, StoreInv, NEW p \in sess.kids, AssignSkin(p) PROVE Kept
<1> DEFINE k == Head(sess.queue)  s == sess.id
           F == [i \in DOMAIN PendingOf(k) |-> TouchEvent("press", PendingOf(k)[i].no, k, p)]
<1>1. /\ modal' = modal /\ files' = files /\ owed' = owed /\ torn' = torn /\ run' = run
      /\ evq' = evq \o F
  BY DEF AssignSkin
<1>2. /\ PanelTyped' /\ sess'.id = s /\ InSession /\ p \in People
      /\ sess'.who = [sess.who EXCEPT ![k] = p]
      /\ db' = SaveAssignment(db, s, k, p)
  BY PanelAssign DEF OpenInv, StoreInv
<1>3. s \in Sessions /\ db.row[s] # "none" BY <1>2, OnPanel DEF StoreInv
<1>4. k \in Skins /\ sess.who[k] = None BY AskedOf DEF AssignSkin, StoreInv
<1>5. db.asg[s][k] = {} BY <1>2, <1>4 DEF StoreInv, DurableMap
<1>6. F \in Seq(Range(F)) /\ \A e \in Range(F) : e.s = s
  <2>1. DOMAIN PendingOf(k) = 1 .. Cardinality(OfSkin(k)) /\ Cardinality(OfSkin(k)) \in Nat
    BY PendingTyped, PlacesOf DEF PendingOf, StoreInv, PanelTyped
  <2>2. F \in [1 .. Cardinality(OfSkin(k)) -> Range(F)] BY <2>1 DEF Range
  <2>3. F \in Seq(Range(F))
    <3> DEFINE n == Cardinality(OfSkin(k))
    <3>1. n \in Nat /\ F \in [1 .. n -> Range(F)] BY <2>1, <2>2
    <3> HIDE DEF n, F
    <3> QED BY <3>1, SeqDef
  <2>4. \A e \in Range(F) : e.s = s BY DEF Range, TouchEvent
  <2> QED BY <2>3, <2>4
<1> HIDE DEF F, k
<1>7. evq' \in Seq(Range(evq')) /\ Range(evq') = Range(evq) \cup Range(F)
  BY <1>1, <1>6, RangeConcat DEF StoreInv, DbInv, Queued
<1>8. db'.row = db.row BY <1>2, AssignmentKeepsRows DEF OpenInv, Stored
<1>9. Queued' BY <1>3, <1>6, <1>7, <1>8 DEF StoreInv, DbInv, Queued, Live
<1>10. /\ DbInv' /\ LosesNothing /\ db'.bin = db.bin
       /\ db'.asg = [db.asg EXCEPT ![s] = [db.asg[s] EXCEPT ![k] = {p}]]
  BY <1>2, <1>3, <1>4, <1>5, <1>9, AssignedDb DEF OpenInv, StoreInv
<1>11. DurableMap'
  <2>1. db.asg[s] \in Maps /\ db'.asg[s] = [db.asg[s] EXCEPT ![k] = {p}]
    BY <1>3, <1>10 DEF StoreInv, DbInv, TablesTyped
  <2> SUFFICES ASSUME NEW i \in Skins PROVE db'.asg[s][i] = {sess'.who[i]} \ {None}
    BY <1>2 DEF DurableMap
  <2>2. CASE i = k
    <3>1. db'.asg[s][i] = {p} BY <2>1, <2>2 DEF Maps
    <3>2. sess'.who[i] = p /\ p # None BY <1>2, <2>2, StoreAssumption DEF StoreInv, PanelTyped
    <3> QED BY <3>1, <3>2
  <2>3. CASE i # k
    <3>1. db'.asg[s][i] = db.asg[s][i] BY <2>1, <2>3 DEF Maps
    <3>2. sess'.who[i] = sess.who[i] BY <1>2, <2>3 DEF StoreInv, PanelTyped
    <3>3. db.asg[s][i] = {sess.who[i]} \ {None} BY <1>2 DEF StoreInv, DurableMap
    <3> QED BY <3>1, <3>2, <3>3
  <2> QED BY <2>2, <2>3
<1>12. DiskInv' BY <1>1, <1>8, <1>10, SameDisk DEF StoreInv, DiskInv, DiskTyped
<1>13. ModalTyped' BY <1>1 DEF StoreInv, ModalTyped
<1> QED BY <1>2, <1>10, <1>11, <1>12, <1>13 DEF StoreInv, Kept

LEMMA StoreWriter == ASSUME OpenInv, StoreInv, Writer PROVE Kept
<1> DEFINE E == db.events \cup {Head(evq)}
<1>1. /\ modal' = modal /\ sess' = sess /\ files' = files /\ owed' = owed /\ torn' = torn
      /\ run' = run /\ evq # <<>> /\ evq' = Tail(evq)
      /\ db' = db \/ db' = [db EXCEPT !.events = E]
  BY DEF Writer, WriteEvent
<1>2. /\ evq' \in Seq(Range(evq')) /\ Head(evq) \in Range(evq)
      /\ Range(evq') \subseteq Range(evq)
  BY <1>1, RangeTail DEF StoreInv, DbInv, Queued
<1>3. (\A e \in Range(evq') : Live(e)) /\ db.events \subseteq E /\ \A e \in E : Live(e)
  BY <1>2 DEF StoreInv, DbInv, Queued, Written
<1> HIDE DEF E
<1>4. /\ DbInv' /\ LosesNothing
      /\ db'.row = db.row /\ db'.bin = db.bin /\ db'.asg = db.asg
  <2>1. CASE db' = db BY <1>2, <1>3, <2>1, SameTables DEF StoreInv
  <2>2. CASE db' = [db EXCEPT !.events = E]
    BY <1>2, <1>3, <2>2, WrittenDb DEF OpenInv, StoreInv
  <2> QED BY <1>1, <2>1, <2>2
<1>5. PanelTyped' BY <1>1, SamePanel DEF StoreInv
<1>6. DurableMap' BY <1>1, <1>4, SameDurable DEF StoreInv
<1>7. DiskInv' BY <1>1, <1>4, SameDisk DEF StoreInv, DiskInv, DiskTyped
<1>8. ModalTyped' BY <1>1 DEF StoreInv, ModalTyped
<1> QED BY <1>4, <1>5, <1>6, <1>7, <1>8 DEF StoreInv, Kept

\* Whoever is careful trashes sessions that have ended.
LEMMA TrashOf ==
  ASSUME OpenInv, StoreInv, NEW s \in Trashable, Trash(s)
  PROVE  LET E == db.events \cup Range(evq)
         IN  /\ s \in Sessions /\ s # sess.id /\ DbInv' /\ LosesNothing
             /\ db'.row = [db.row EXCEPT ![s] = "none"] /\ db'.bin = Binned(s, E)
             /\ db'.events = E \ {e \in E : e.s = s}
             /\ db'.asg = [db.asg EXCEPT ![s] = NoAssignment]
<1> DEFINE E == db.events \cup Range(evq)
<1>1. Clickable /\ evq' = <<>> /\ db' = TrashSession([db EXCEPT !.events = E], s)
  BY DEF Trash, Flushed
<1>2. s \in Sessions /\ s # sess.id /\ db.row[s] # "none" BY DEF Trashable, OpenInv
<1>3. db.row[s] = "ended"
  <2>1. ActiveSessions(db) = {sess.id} \ {0}
    BY <1>1 DEF OpenInv, PanelKnows, Clickable, Asked, None
  <2>2. db.row[s] # "open" BY <1>2, <2>1 DEF ActiveSessions
  <2> QED BY <1>2, <2>2 DEF OpenInv, Stored, RowsTyped, Rows
<1>4. db.events \subseteq E /\ \A e \in E : Live(e)
  BY DEF StoreInv, DbInv, Queued, Written
<1> HIDE DEF E
<1>5. /\ DbInv' /\ LosesNothing
      /\ db'.row = [db.row EXCEPT ![s] = "none"] /\ db'.bin = Binned(s, E)
      /\ db'.events = E \ {e \in E : e.s = s}
      /\ db'.asg = [db.asg EXCEPT ![s] = NoAssignment]
  BY <1>1, <1>2, <1>3, <1>4, TrashedDb DEF OpenInv, StoreInv
<1> QED BY <1>2, <1>5 DEF E

LEMMA StoreTrash == ASSUME OpenInv, StoreInv, NEW s \in Trashable, Trash(s) PROVE Kept
<1> DEFINE E == db.events \cup Range(evq)
<1>1. /\ Clickable /\ sess' = sess /\ modal' = modal /\ files' = files
      /\ torn' = torn /\ run' = run /\ owed' = [op |-> "trash", of |-> {s}]
  BY DEF Trash
<1> HIDE DEF E
<1>2. /\ s \in Sessions /\ s # sess.id /\ DbInv' /\ LosesNothing
      /\ db'.row = [db.row EXCEPT ![s] = "none"] /\ db'.bin = Binned(s, E)
      /\ db'.asg = [db.asg EXCEPT ![s] = NoAssignment]
  BY TrashOf DEF E
<1>3. PanelTyped' BY <1>1, SamePanel DEF StoreInv
<1>4. DurableMap'
  <2>1. InSession => db'.asg[sess.id] = db.asg[sess.id]
    BY <1>2, OnPanel DEF StoreInv, DbInv, TablesTyped
  <2> QED BY <1>1, <2>1, SameDurable DEF StoreInv
<1>5. DiskInv'
  <2>1. DOMAIN db'.bin = DOMAIN db.bin \cup {s} BY <1>2 DEF Binned
  <2>2. \A t \in Sessions \ {s} : db'.row[t] = db.row[t]
    BY <1>2 DEF OpenInv, Stored, RowsTyped
  <2>3. owed = NothingOwed BY <1>1 DEF Clickable
  <2> QED BY <1>1, <1>2, <2>1, <2>2, <2>3, OwedDisk DEF StoreInv
<1>6. ModalTyped' BY <1>1 DEF StoreInv, ModalTyped
<1> QED BY <1>2, <1>3, <1>4, <1>5, <1>6 DEF StoreInv, Kept

LEMMA StoreRestore == ASSUME OpenInv, StoreInv, NEW s \in DOMAIN db.bin, Restore(s) PROVE Kept
<1>1. /\ Clickable /\ sess' = sess /\ modal' = modal /\ evq' = evq /\ files' = files
      /\ torn' = torn /\ run' = run
      /\ owed' = IF db' = db THEN NothingOwed ELSE [op |-> "restore", of |-> {s}]
      /\ db' = RestoreSession(db, s)
  BY DEF Restore
<1>2. s \in Sessions /\ db.row[s] = "none" BY DEF StoreInv, DbInv, BinSound, Restorable
<1>3. /\ DbInv' /\ LosesNothing
      /\ db'.row = [db.row EXCEPT ![s] = "ended"]
      /\ db'.bin = [t \in DOMAIN db.bin \ {s} |-> db.bin[t]]
      /\ db'.asg = [db.asg EXCEPT ![s] = db.bin[s].asg]
  BY <1>1, RestoredDb DEF OpenInv, StoreInv
<1>4. /\ db'.row[s] = "ended" /\ \A t \in Sessions \ {s} : db'.row[t] = db.row[t]
  BY <1>2, <1>3 DEF OpenInv, Stored, RowsTyped
<1>5. PanelTyped' BY <1>1, SamePanel DEF StoreInv
<1>6. DurableMap'
  <2>1. InSession => db'.asg[sess.id] = db.asg[sess.id]
    BY <1>3, OnPanel DEF StoreInv, DbInv, TablesTyped
  <2> QED BY <1>1, <2>1, SameDurable DEF StoreInv
<1>7. DiskInv'
  <2>1. owed' = [op |-> "restore", of |-> {s}] BY <1>1, <1>2, <1>4
  <2>2. DOMAIN db'.bin = DOMAIN db.bin \ {s} BY <1>3
  <2>3. owed = NothingOwed BY <1>1 DEF Clickable
  <2> QED BY <1>1, <1>2, <1>4, <2>1, <2>2, <2>3, OwedDisk DEF StoreInv
<1>8. ModalTyped' BY <1>1 DEF StoreInv, ModalTyped
<1> QED BY <1>3, <1>5, <1>6, <1>7, <1>8 DEF StoreInv, Kept

LEMMA StorePurge ==
  ASSUME OpenInv, StoreInv, NEW S, S \subseteq DOMAIN db.bin, Purge(S)
  PROVE  Kept
<1>1. /\ Clickable /\ sess' = sess /\ modal' = modal /\ evq' = evq /\ files' = files
      /\ torn' = torn /\ run' = run /\ owed' = [op |-> "purge", of |-> S]
      /\ db' = PurgeSessions(db, S)
  BY DEF Purge
<1>2. S \subseteq Sessions BY DEF StoreInv, DbInv, BinSound
<1>3. /\ DbInv' /\ LosesNothing /\ db'.row = db.row /\ db'.asg = db.asg
      /\ db'.bin = [t \in DOMAIN db.bin \ S |-> db.bin[t]]
  BY <1>1, PurgedDb DEF OpenInv, StoreInv
<1>4. PanelTyped' BY <1>1, SamePanel DEF StoreInv
<1>5. DurableMap' BY <1>1, <1>3, SameDurable DEF StoreInv
<1>6. DiskInv'
  <2>1. DOMAIN db'.bin = DOMAIN db.bin \ S BY <1>3
  <2>2. owed = NothingOwed BY <1>1 DEF Clickable
  <2> QED BY <1>1, <1>2, <1>3, <2>1, <2>2, OwedDisk DEF StoreInv
<1>7. ModalTyped' BY <1>1 DEF StoreInv, ModalTyped
<1> QED BY <1>3, <1>4, <1>5, <1>6, <1>7 DEF StoreInv, Kept

LEMMA StoreMove == ASSUME OpenInv, StoreInv, NEW s \in Sessions, MoveFile(s) PROVE Kept
<1>1. db' = db /\ evq' = evq /\ sess' = sess /\ modal' = modal BY DEF MoveFile
<1>2. PanelTyped' /\ DurableMap' /\ ModalTyped'
  BY <1>1, SamePanel, SameDurable DEF StoreInv, ModalTyped
<1>3. DiskInv' BY MovedDisk DEF StoreInv
<1> QED BY <1>1, <1>2, <1>3, KeptQueue DEF StoreInv, Kept

LEMMA StoreTrashing == ASSUME OpenInv, StoreInv, Trashing PROVE Kept
<1>1. CASE \E s \in Trashable : Trash(s) BY <1>1, StoreTrash
<1>2. CASE \E s \in DOMAIN db.bin : Restore(s) BY <1>2, StoreRestore
<1>3. CASE \E S : S \subseteq DOMAIN db.bin /\ Purge(S) BY <1>3, StorePurge
<1>4. CASE \E s \in Sessions : MoveFile(s) BY <1>4, StoreMove
<1> QED BY <1>1, <1>2, <1>3, <1>4 DEF Trashing

LEMMA StoreStutter == ASSUME OpenInv, StoreInv, UNCHANGED vars PROVE Kept
<1>1. PanelTyped' /\ DurableMap' /\ ModalTyped'
  BY SamePanel, SameDurable DEF StoreInv, ModalTyped, vars
<1> QED BY <1>1, StoreQuiet DEF vars

LEMMA StoreStep == ASSUME OpenInv, StoreInv, [Next]_vars PROVE StoreInv' /\ LosesNothing
<1>1. CASE Process
  BY <1>1, StoreBoot, StoreClose, StoreCrash, StoreCrashedStart DEF Process, Kept
<1>2. CASE Panel
  BY <1>2, StoreDecline, StoreAccept, StoreNew, StoreStop, StoreHalting, StoreSkip, StoreAssign
     DEF Panel, Kept
<1> QED BY <1>1, <1>2, StoreHalting, StoreTouches, StoreTrashing, StoreWriter, StoreStutter
        DEF Next, Kept

LEMMA StoreInit == Init => StoreInv
<1> SUFFICES ASSUME Init PROVE StoreInv OBVIOUS
<1>1. /\ db.row = [s \in Sessions |-> "none"] /\ db.kids = [s \in Sessions |-> {}]
      /\ db.asg = [s \in Sessions |-> NoAssignment] /\ db.events = {} /\ DOMAIN db.bin = {}
      /\ db.last = 0
  BY DEF Init, EmptyDb
<1>2. NoAssignment \in Maps BY DEF NoAssignment, Maps
<1>3. /\ <<>> \in Seq(Skins) /\ IsInjective(<<>>) /\ Range(<<>>) = {}
      /\ <<>> \in Seq(Range(<<>>))
  BY EmptySeq, NothingQueued DEF IsInjective
<1>4. DbInv
  <2>1. TablesTyped /\ BinSound /\ Written /\ Restorable /\ Counter
    BY <1>1, <1>2 DEF TablesTyped, BinSound, Written, NoOrphans, Restorable, Counter
  <2>2. Queued BY <1>3 DEF Init, Queued
  <2> QED BY <2>1, <2>2 DEF DbInv
<1>5. sess = Idle /\ sess.id = 0 /\ modal = None BY DEF Init, Idle
<1>6. PanelTyped /\ DurableMap /\ ModalTyped
  <2>1. /\ sess.kids = {} /\ sess.who = Unassigned
        /\ sess.queue = <<>> /\ sess.pending = <<>>
    BY <1>5 DEF Idle
  <2> QED BY <1>3, <1>5, <2>1 DEF PanelTyped, DurableMap, ModalTyped, InSession, Unassigned
<1>7. DiskInv
  <2>1. files = [live |-> NoFiles, bin |-> NoFiles] /\ run = 0 /\ owed = NothingOwed /\ torn = {}
    BY DEF Init
  <2>2. NoFiles \in FileMap /\ \A s \in Sessions : NoFiles[s] = {} BY DEF NoFiles, FileMap
  <2>3. DiskTyped BY <2>1, <2>2 DEF DiskTyped, NothingOwed
  <2>4. OwedKnown BY <2>1 DEF OwedKnown, NothingOwed, None
  <2>5. RecordingsFollow BY <2>1, <2>2 DEF RecordingsFollow
  <2> QED BY <2>3, <2>4, <2>5 DEF DiskInv
<1> QED BY <1>4, <1>6, <1>7 DEF StoreInv

\* With a careful operator no event or assignment outlives its session, all that
\* lies in the trash can come back, recordings follow their session, and nothing
\* that was stored is lost but by a purge, over any crashes, restarts and moves
\* (database.py, session_trash.py).
THEOREM StoreStaysSound ==
  ASSUME \A m \in Mixes : m.careful
  PROVE  Spec => StoreSound
<1> DEFINE I == ButtonInv /\ OpenInv /\ StoreInv
<1>1. Init => I BY ButtonInit, OpenInit, StoreInit
<1>2. I /\ [Next]_vars => I' BY ButtonStep, OpenStep, StoreStep
<1>3. I => TypeOK /\ NoOrphans /\ Restorable /\ RecordingsFollow
  <2> SUFFICES ASSUME I PROVE TypeOK /\ NoOrphans /\ Restorable /\ RecordingsFollow
    OBVIOUS
  <2>1. NoOrphans /\ Restorable /\ RecordingsFollow
    BY DEF StoreInv, DbInv, Written, DiskInv
  <2>2. TypeOK
    <3>1. Range(sess.queue) \subseteq Skins BY InRange DEF StoreInv, PanelTyped
    <3>2. sess.act \in {None, "running", "paused", "failed"}
      BY DEF OpenInv, SessShape, Statuses
    <3> QED BY <3>1, <3>2 DEF TypeOK, OpenInv, PanelKnows, StoreInv, PanelTyped, ModalTyped,
                              DbInv, BinSound, DiskInv, DiskTyped
  <2> QED BY <2>1, <2>2
<1>4. I /\ [Next]_vars => [LosesNothing]_vars BY StoreStep
<1>5. NothingLost <=> [][LosesNothing]_vars BY PTL DEF NothingLost, LosesNothing
<1> HIDE DEF I
<1> QED BY <1>1, <1>2, <1>3, <1>4, <1>5, PTL DEF Spec, StoreSound

-----------------------------------------------------------------------------
(* Whom the touches belong to *)

\* A logged touch is of nobody or of the child its skin is assigned to, and its
\* number has been used.
Sound(e) ==
  /\ e.kind \in {"press", "release"} =>
       e.skin \in Skins /\ (e.who = Unknown \/ MapOf(e.s)[e.skin] = {e.who})
  /\ e.kind = "press" => e.no \in Nat /\ left.touch < e.no
EventsInv == \A e \in Known : Sound(e)

\* A touch that waits has a number of its own, used and not yet logged.
Numbers ==
  /\ \A i \in DOMAIN sess.pending : sess.pending[i].no \in Nat /\ left.touch < sess.pending[i].no
  /\ \A i, j \in DOMAIN sess.pending : sess.pending[i].no = sess.pending[j].no => i = j
TouchInv == EventsInv /\ Numbers /\ PendingIsNew

\* The body of PendingKept.
KeepsPending ==
  \A t \in Range(sess.pending) :
    \/ sess'.id = 0 \/ t \in Range(sess'.pending)
    \/ \E e \in Range(evq') : e.kind = "press" /\ e.no = t.no

LEMMA SpendOther ==
  ASSUME left \in Mix, NEW what \in {"crash", "close", "release", "button", "trash"},
         Spend(what)
  PROVE  left'.touch = left.touch
BY DEF Mix, Spend

\* Every known event is of a session with a row or a bundle.
LEMMA KnownPlace ==
  ASSUME DbInv, NEW e \in Known
  PROVE  e.s \in Sessions /\ (db.row[e.s] # "none" \/ e.s \in DOMAIN db.bin)
<1>1. CASE e \in db.events BY <1>1 DEF DbInv, Written, Live
<1>2. CASE e \in Range(evq) BY <1>2 DEF DbInv, Queued, Live
<1>3. CASE e \in Bundled
  <2>1. PICK s \in DOMAIN db.bin : e \in db.bin[s].events BY <1>3 DEF Bundled
  <2>2. e.s = s /\ s \in Sessions BY <2>1 DEF DbInv, BinSound, BundleOf
  <2> QED BY <2>1, <2>2
<1> QED BY <1>1, <1>2, <1>3 DEF Known

LEMMA EventsKept ==
  ASSUME EventsInv, left \in Mix, left' \in Mix, left'.touch <= left.touch,
         \A e \in Known' : e \notin Known => Sound(e)',
         \A e \in Known' : e \in Known => MapOf(e.s)' = MapOf(e.s)
  PROVE  EventsInv'
<1>1. left.touch \in Nat /\ left'.touch \in Nat BY DEF Mix
<1>2. ASSUME NEW e \in Known', e \in Known PROVE Sound(e)'
  <2>1. Sound(e) /\ MapOf(e.s)' = MapOf(e.s) BY <1>2 DEF EventsInv
  <2>2. e.no \in Nat /\ left.touch < e.no => left'.touch < e.no BY <1>1
  <2> QED BY <2>1, <2>2 DEF Sound
<1> QED BY <1>2 DEF EventsInv

\* What waits stays as it was, and no new event has its number.
LEMMA PendingSame ==
  ASSUME Numbers, PendingIsNew, left \in Mix, left' \in Mix, left'.touch <= left.touch,
         sess'.pending = sess.pending, sess'.who = sess.who,
         \A e \in Known' : e \in Known \/ (e.kind = "press" => e.no = left.touch)
  PROVE  Numbers' /\ PendingIsNew' /\ KeepsPending
<1>1. left.touch \in Nat /\ left'.touch \in Nat BY DEF Mix
<1>2. Numbers'
  <2>1. \A i \in DOMAIN sess.pending : left'.touch < sess.pending[i].no BY <1>1 DEF Numbers
  <2> QED BY <2>1 DEF Numbers
<1>3. PendingIsNew'
  <2> SUFFICES ASSUME NEW t \in Range(sess.pending)
               PROVE  /\ sess.who[t.skin] = None
                      /\ \A e \in Known' : e.kind = "press" => e.no # t.no
    BY DEF PendingIsNew
  <2>1. PICK i \in DOMAIN sess.pending : t = sess.pending[i] BY DEF Range
  <2>2. left.touch < t.no /\ t.no \in Nat BY <2>1 DEF Numbers
  <2>3. t.no # left.touch BY <1>1, <2>2
  <2> QED BY <2>3 DEF PendingIsNew
<1> QED BY <1>2, <1>3 DEF KeepsPending

LEMMA PendingGone ==
  ASSUME sess'.pending = <<>>, sess'.id = 0 \/ sess.pending = <<>>
  PROVE  Numbers' /\ PendingIsNew' /\ KeepsPending
<1>1. Range(<<>>) = {} BY NothingQueued
<1> QED BY <1>1 DEF Numbers, PendingIsNew, KeepsPending

\* What waits is what waited at some of the places.
LEMMA PendingLess ==
  ASSUME Numbers, PendingIsNew, PanelTyped, left \in Mix, left'.touch = left.touch,
         NEW P, P \subseteq DOMAIN sess.pending, sess'.pending = PendingAt(P),
         \A i \in P : sess'.who[sess.pending[i].skin] = None,
         \A e \in Known' : \/ e \in Known
                           \/ \E i \in DOMAIN sess.pending \ P : e.no = sess.pending[i].no,
         \A i \in DOMAIN sess.pending \ P :
           \E e \in Range(evq') : e.kind = "press" /\ e.no = sess.pending[i].no
  PROVE  Numbers' /\ PendingIsNew' /\ KeepsPending
<1>1. /\ \A r \in DOMAIN PendingAt(P) : PendingAt(P)[r] \in Range(PendingAt(P))
      /\ Range(PendingAt(P)) = {sess.pending[i] : i \in P}
  BY PendingTyped DEF PanelTyped, Range
<1>2. \A r, q \in DOMAIN PendingAt(P) : PendingAt(P)[r].no = PendingAt(P)[q].no => r = q
  <2>1. \A i, j \in P : sess.pending[i].no = sess.pending[j].no => i = j BY DEF Numbers
  <2> QED BY <2>1, PendingOnce DEF PanelTyped
<1>3. \A r \in DOMAIN PendingAt(P) : \E i \in P : PendingAt(P)[r] = sess.pending[i] BY <1>1
<1>4. Numbers'
  <2>1. \A r \in DOMAIN PendingAt(P) :
          PendingAt(P)[r].no \in Nat /\ left.touch < PendingAt(P)[r].no
    BY <1>3 DEF Numbers
  <2> QED BY <1>2, <2>1 DEF Numbers
<1>5. PendingIsNew'
  <2> SUFFICES ASSUME NEW i \in P
               PROVE  /\ sess'.who[sess.pending[i].skin] = None
                      /\ \A e \in Known' : e.kind = "press" => e.no # sess.pending[i].no
    BY <1>1 DEF PendingIsNew
  <2>1. \A j \in DOMAIN sess.pending \ P : sess.pending[j].no # sess.pending[i].no
    BY DEF Numbers
  <2>2. sess.pending[i] \in Range(sess.pending) BY DEF Range
  <2> QED BY <2>1, <2>2 DEF PendingIsNew
<1>6. KeepsPending
  <2> SUFFICES ASSUME NEW i \in DOMAIN sess.pending
               PROVE  \/ sess.pending[i] \in Range(sess'.pending)
                      \/ \E e \in Range(evq') : e.kind = "press" /\ e.no = sess.pending[i].no
    BY DEF KeepsPending, Range
  <2>1. CASE i \in P BY <1>1, <2>1
  <2>2. CASE i \notin P BY <2>2
  <2> QED BY <2>1, <2>2
<1> QED BY <1>4, <1>5, <1>6

LEMMA SameMap ==
  ASSUME db'.bin = db.bin, db'.asg = db.asg
  PROVE  \A s : MapOf(s)' = MapOf(s)
BY DEF MapOf

\* The writer's log grows, or the queue is forgotten.
LEMMA KnownLess ==
  ASSUME db'.bin = db.bin, db'.events \subseteq db.events \cup Range(evq),
         Range(evq') \subseteq Range(evq)
  PROVE  Known' \subseteq Known
<1>1. Bundled' = Bundled BY DEF Bundled
<1> QED BY <1>1 DEF Known

LEMMA KnownMore ==
  ASSUME db'.bin = db.bin, db'.events = db.events, NEW N,
         Range(evq') \subseteq Range(evq) \cup N
  PROVE  Known' \subseteq Known \cup N
<1>1. Bundled' = Bundled BY DEF Bundled
<1> QED BY <1>1 DEF Known

LEMMA EventsTable ==
  ASSUME Stored, NEW E, db' = [db EXCEPT !.events = E]
  PROVE  db'.bin = db.bin /\ db'.asg = db.asg /\ db'.events = E
BY TableNames DEF Stored, RowsTyped

Attributed == TouchInv' /\ KeepsPending

\* Nothing new is known, and the panel's own touches stay or go as a whole.
LEMMA TouchQuiet ==
  ASSUME OpenInv, TouchInv, ButtonInv', left'.touch = left.touch,
         Known' \subseteq Known, \A e \in Known' : MapOf(e.s)' = MapOf(e.s),
         \/ sess'.pending = sess.pending /\ sess'.who = sess.who
         \/ sess'.pending = <<>> /\ (sess'.id = 0 \/ sess.pending = <<>>)
  PROVE  Attributed
<1>1. left \in Mix /\ left' \in Mix /\ left'.touch <= left.touch
  BY DEF OpenInv, ButtonInv, Mix
<1>2. EventsInv' BY <1>1, EventsKept DEF TouchInv
<1>3. Numbers' /\ PendingIsNew' /\ KeepsPending
  BY <1>1, PendingSame, PendingGone DEF TouchInv
<1> QED BY <1>2, <1>3 DEF TouchInv, Attributed

LEMMA NoSession ==
  ASSUME StoreInv, ~InSession
  PROVE  sess.pending = <<>> /\ sess.id = 0
BY DEF StoreInv, PanelTyped, Idle, InSession

LEMMA TouchBoot == ASSUME OpenInv, StoreInv, TouchInv, ButtonInv', Boot PROVE Attributed
<1> DEFINE A == ActiveSessions(db)
<1>1. /\ sess' = sess /\ evq' = evq /\ left' = left
      /\ db' = db \/ db' = CloseAllBut(db, {MostRecent(A)})
  BY DEF Boot
<1>2. db'.bin = db.bin /\ db'.asg = db.asg /\ db'.events = db.events
  BY <1>1, ClosedDb DEF OpenInv, StoreInv
<1>3. Known' \subseteq Known BY <1>1, <1>2, KnownLess
<1> QED BY <1>1, <1>2, <1>3, SameMap, TouchQuiet

LEMMA TouchDecline ==
  ASSUME OpenInv, StoreInv, TouchInv, ButtonInv', DeclineResume
  PROVE  Attributed
<1>1. sess' = sess /\ evq' = evq /\ left' = left /\ db' = CloseAllBut(db, {})
  BY DEF DeclineResume
<1>2. db'.bin = db.bin /\ db'.asg = db.asg /\ db'.events = db.events
  BY <1>1, ClosedDb DEF OpenInv, StoreInv
<1>3. Known' \subseteq Known BY <1>1, <1>2, KnownLess
<1> QED BY <1>1, <1>2, <1>3, SameMap, TouchQuiet

LEMMA BegunWaits ==
  ASSUME NEW s, NEW kids, NEW robots, NEW who, NEW rec, Begin(s, kids, robots, who, rec)
  PROVE  sess'.pending = <<>>
<1>1. PICK act \in left.starts :
        sess' = [Idle EXCEPT !.id = s, !.act = act, !.kids = kids, !.robots = robots,
                   !.who = who, !.panel = PanelFor(kids, robots, who), !.recording = rec]
  BY DEF Begin
<1> QED BY <1>1 DEF Idle

LEMMA TouchAccept ==
  ASSUME OpenInv, StoreInv, TouchInv, ButtonInv', AcceptResume
  PROVE  Attributed
<1> DEFINE s == MostRecent(ActiveSessions(db))
<1>1. /\ evq' = evq /\ left' = left /\ db' = db /\ Asked
      /\ \E who : Begin(s, db.kids[s], HasStartMeta(db, s), who, TRUE)
  BY DEF AcceptResume, Asked
<1>2. sess'.pending = <<>> BY <1>1, BegunWaits
<1>3. sess.pending = <<>>
  <2>1. ~InSession BY <1>1 DEF OpenInv, PanelKnows, InSession
  <2> QED BY <2>1, NoSession
<1>4. Known' \subseteq Known BY <1>1, KnownLess
<1> QED BY <1>1, <1>2, <1>3, <1>4, SameMap, TouchQuiet

\* A new session has an id nothing was logged under.
LEMMA NewMap ==
  ASSUME DbInv, NEW s \in Sessions, s > db.last, NEW m,
         db'.bin = db.bin, db'.asg = [db.asg EXCEPT ![s] = m]
  PROVE  \A e \in Known : MapOf(e.s)' = MapOf(e.s)
<1> TAKE e \in Known
<1>1. e.s \in Sessions /\ e.s # s BY KnownPlace, FreeId
<1>2. db'.asg[e.s] = db.asg[e.s] BY <1>1 DEF DbInv, TablesTyped
<1> QED BY <1>2 DEF MapOf

LEMMA TouchNew ==
  ASSUME OpenInv, StoreInv, TouchInv, ButtonInv', NewSession
  PROVE  Attributed
<1>1. PICK s \in Offered, u \in Setups :
        /\ db' = Started(s, u, u.who)
        /\ evq' = Append(evq, StartEvent(s, u.robots))
        /\ \E read : Begin(s, u.kids, u.robots, read, u.record)
  BY DEF NewSession
<1>2. left' = left /\ ~InSession BY DEF NewSession
<1>3. u.kids \subseteq People /\ u.who \in [Skins -> People \cup {None}]
  BY SetupTyped DEF OpenInv
<1>4. s \in Sessions /\ s > db.last BY OfferedFree DEF OpenInv, StoreInv
<1>5. /\ db'.bin = db.bin /\ db'.events = db.events
      /\ \E m : db'.asg = [db.asg EXCEPT ![s] = m]
  BY <1>1, <1>3, <1>4, StartedDb DEF OpenInv, StoreInv
<1>6. \A e \in Known : MapOf(e.s)' = MapOf(e.s) BY <1>4, <1>5, NewMap DEF StoreInv
<1>7. Known' \subseteq Known \cup {StartEvent(s, u.robots)}
  <2>1. Range(evq') = Range(evq) \cup {StartEvent(s, u.robots)}
    BY <1>1, RangeAppend DEF StoreInv, DbInv, Queued
  <2> QED BY <1>5, <2>1, KnownMore
<1>8. StartEvent(s, u.robots).kind = "start" BY DEF StartEvent
<1>9. sess'.pending = <<>> /\ sess.pending = <<>> BY <1>1, <1>2, BegunWaits, NoSession
<1>10. left \in Mix /\ left' \in Mix /\ left'.touch <= left.touch
  BY <1>2 DEF OpenInv, ButtonInv, Mix
<1>11. EventsInv'
  <2>1. \A e \in Known' : e \notin Known => Sound(e)' BY <1>7, <1>8 DEF Sound
  <2> QED BY <1>6, <1>10, <2>1, EventsKept DEF TouchInv
<1> QED BY <1>9, <1>11, PendingGone DEF TouchInv, Attributed

LEMMA TouchDown ==
  ASSUME OpenInv, StoreInv, TouchInv, ButtonInv', Close \/ Crash \/ CrashDuringStart
  PROVE  Attributed
<1>1. sess'.pending = <<>> /\ sess'.id = 0 /\ evq' = <<>>
  BY DEF Close, Crash, CrashDuringStart, Down, Idle
<1>2. Range(evq') = {} BY <1>1, NothingQueued
<1>3. left'.touch = left.touch
  BY SpendOther DEF Close, Crash, CrashDuringStart, OpenInv
<1>4. CASE Close
  <2> DEFINE E == db.events \cup Range(evq)
  <2>1. db' = [db EXCEPT !.events = E] BY <1>4 DEF Close, Flushed
  <2> HIDE DEF E
  <2>2. db'.bin = db.bin /\ db'.asg = db.asg /\ db'.events = E
    BY <2>1, EventsTable DEF OpenInv
  <2>3. Known' \subseteq Known BY <1>2, <2>2, KnownLess DEF E
  <2> QED BY <1>1, <1>3, <2>2, <2>3, SameMap, TouchQuiet
<1>5. CASE Crash
  <2>1. db' = db BY <1>5 DEF Crash
  <2>2. Known' \subseteq Known BY <1>2, <2>1, KnownLess
  <2> QED BY <1>1, <1>3, <2>1, <2>2, SameMap, TouchQuiet
<1>6. CASE CrashDuringStart
  <2>1. PICK s \in Offered, u \in Setups, some \in SUBSET Skins :
          db' = Started(s, u, [k \in Skins |-> IF k \in some THEN u.who[k] ELSE None])
    BY <1>6 DEF CrashDuringStart
  <2> DEFINE who == [k \in Skins |-> IF k \in some THEN u.who[k] ELSE None]
  <2>2. u.kids \subseteq People /\ who \in [Skins -> People \cup {None}]
    BY SetupTyped DEF OpenInv
  <2>3. s \in Sessions /\ s > db.last BY OfferedFree DEF OpenInv, StoreInv
  <2>4. db' = Started(s, u, who) BY <2>1
  <2> HIDE DEF who
  <2>5. /\ db'.bin = db.bin /\ db'.events = db.events
        /\ \E m : db'.asg = [db.asg EXCEPT ![s] = m]
    BY <2>2, <2>3, <2>4, StartedDb DEF OpenInv, StoreInv
  <2>6. \A e \in Known : MapOf(e.s)' = MapOf(e.s) BY <2>3, <2>5, NewMap DEF StoreInv
  <2>7. Known' \subseteq Known BY <1>2, <2>5, KnownLess
  <2> QED BY <1>1, <1>3, <2>6, <2>7, TouchQuiet
<1> QED BY <1>4, <1>5, <1>6

LEMMA TouchStop == ASSUME OpenInv, StoreInv, TouchInv, ButtonInv', StopSession
  PROVE Attributed
<1>1. /\ InSession /\ db' = SaveSession(db, sess.id, "ended") /\ evq' = evq /\ left' = left
      /\ sess'.pending = <<>> /\ sess'.id = 0
  BY DEF StopSession, Idle
<1>2. sess.id \in Sessions /\ db.row[sess.id] # "none" BY <1>1, OnPanel DEF StoreInv
<1>3. db'.bin = db.bin /\ db'.asg = db.asg /\ db'.events = db.events
  BY <1>1, <1>2, StoppedDb DEF OpenInv, StoreInv
<1>4. Known' \subseteq Known BY <1>1, <1>3, KnownLess
<1> QED BY <1>1, <1>3, <1>4, SameMap, TouchQuiet

LEMMA TouchHalting ==
  ASSUME OpenInv, StoreInv, TouchInv, ButtonInv', Halting \/ HidePanel
  PROVE  Attributed
<1>1. db' = db /\ evq' = evq /\ (left' = left \/ Spend("button"))
  BY DEF Halting, HidePanel, PauseButton, EmergencyStop, AskRearm, AnswerRearm
<1>2. left'.touch = left.touch BY <1>1, SpendOther DEF OpenInv
<1>3. sess'.pending = sess.pending /\ sess'.who = sess.who
  BY PanelHalting DEF OpenInv, StoreInv
<1>4. Known' \subseteq Known BY <1>1, KnownLess
<1> QED BY <1>1, <1>2, <1>3, <1>4, SameMap, TouchQuiet

\* A touch is logged as the map says, and as the database does.
LEMMA LoggedSound ==
  ASSUME OpenInv, StoreInv, InSession, db' = db, NEW k \in Skins,
         NEW kind \in {"press", "release"}, NEW no, NEW who, who = WhoOf(k) \/ who = Unknown,
         kind = "press" => no \in Nat /\ left'.touch < no
  PROVE  \A e : e = TouchEvent(kind, no, k, who) => Sound(e)'
<1> SUFFICES ASSUME NEW e, e = TouchEvent(kind, no, k, who) PROVE Sound(e)' OBVIOUS
<1> PICK s : s = sess.id OBVIOUS
<1>1. /\ e.s = s /\ e.kind = kind /\ e.no = no /\ e.skin = k /\ e.who = who
  BY DEF TouchEvent
<1>2. who = Unknown \/ db.asg[s][k] = {who}
  <2>1. CASE sess.who[k] = None BY <2>1 DEF WhoOf
  <2>2. CASE sess.who[k] # None BY <2>2 DEF WhoOf, StoreInv, DurableMap
  <2> QED BY <2>1, <2>2
<1>3. MapOf(s)' = db.asg[s] BY OnPanel DEF MapOf, StoreInv
<1> QED BY <1>1, <1>2, <1>3 DEF Sound

LEMMA TouchRelease ==
  ASSUME OpenInv, StoreInv, TouchInv, ButtonInv', NEW k \in Skins, Release(k)
  PROVE  Attributed
<1> DEFINE e == TouchEvent("release", 0, k, WhoOf(k))
<1>1. InSession /\ sess' = sess /\ db' = db /\ evq' = Append(evq, e) /\ Spend("release")
  BY DEF Release, Listening
<1>2. left \in Mix /\ left' \in Mix /\ left'.touch <= left.touch
  BY <1>1, SpendOther DEF OpenInv, ButtonInv, Mix
<1>3. \A f : f = e => Sound(f)' BY <1>1, LoggedSound
<1>4. e.kind = "release" BY DEF TouchEvent
<1> HIDE DEF e
<1>5. Range(evq') = Range(evq) \cup {e}
  BY <1>1, RangeAppend DEF StoreInv, DbInv, Queued
<1>6. Known' \subseteq Known \cup {e} BY <1>1, <1>5, KnownMore
<1>7. EventsInv'
  <2>1. \A f \in Known' : f \notin Known => Sound(f)' BY <1>3, <1>6
  <2> QED BY <1>1, <1>2, <2>1, SameMap, EventsKept DEF TouchInv
<1>8. Numbers' /\ PendingIsNew' /\ KeepsPending
  <2>1. \A f \in Known' : f \in Known \/ (f.kind = "press" => f.no = left.touch)
    BY <1>4, <1>6
  <2> QED BY <1>1, <1>2, <2>1, PendingSame DEF TouchInv
<1> QED BY <1>7, <1>8 DEF TouchInv, Attributed

LEMMA TouchPress ==
  ASSUME OpenInv, StoreInv, TouchInv, ButtonInv', NEW k \in Skins, Press(k)
  PROVE  Attributed
<1> DEFINE e == TouchEvent("press", left.touch, k, WhoOf(k))
           w == [skin |-> k, no |-> left.touch]
<1>1. /\ sess'.id = sess.id /\ sess'.who = sess.who /\ InSession /\ db' = db
      /\ \/ sess' = sess /\ evq' = Append(evq, e)
         \/ /\ evq' = evq /\ sess.who[k] = None
            /\ sess'.pending = Append(sess.pending, w)
  BY PanelPress DEF OpenInv, StoreInv
<1>2. left.touch \in Nat /\ left'.touch \in Nat /\ left'.touch < left.touch
  BY DEF OpenInv, Press, Spend, Mix
<1>3. left \in Mix /\ left' \in Mix /\ left'.touch <= left.touch
  BY <1>2 DEF OpenInv, ButtonInv
<1>4. CASE sess' = sess /\ evq' = Append(evq, e)
  <2>1. \A f : f = e => Sound(f)' BY <1>1, <1>2, LoggedSound
  <2>2. e.no = left.touch BY DEF TouchEvent
  <2> HIDE DEF e
  <2>3. Range(evq') = Range(evq) \cup {e}
    BY <1>4, RangeAppend DEF StoreInv, DbInv, Queued
  <2>4. Known' \subseteq Known \cup {e} BY <1>1, <2>3, KnownMore
  <2>5. EventsInv'
    <3>1. \A f \in Known' : f \notin Known => Sound(f)' BY <2>1, <2>4
    <3> QED BY <1>1, <1>3, <3>1, SameMap, EventsKept DEF TouchInv
  <2>6. Numbers' /\ PendingIsNew' /\ KeepsPending
    <3>1. \A f \in Known' : f \in Known \/ (f.kind = "press" => f.no = left.touch)
      BY <2>2, <2>4
    <3> QED BY <1>3, <1>4, <3>1, PendingSame DEF TouchInv
  <2> QED BY <2>5, <2>6 DEF TouchInv, Attributed
<1>5. CASE evq' = evq /\ sess.who[k] = None /\ sess'.pending = Append(sess.pending, w)
  <2>1. w.skin = k /\ w.no = left.touch OBVIOUS
  <2> HIDE DEF w, e
  <2> DEFINE q == sess.pending  a == sess'.pending  n == Len(q)
  <2>2. Known' \subseteq Known BY <1>1, <1>5, KnownLess
  <2>3. EventsInv' BY <1>1, <1>3, <2>2, SameMap, EventsKept DEF TouchInv
  <2>4. Range(a) = Range(q) \cup {w} /\ a \in Seq(Range(a))
    BY <1>5, RangeAppend DEF StoreInv, PanelTyped
  <2>5. /\ n \in Nat /\ DOMAIN q = 1 .. n /\ DOMAIN a = 1 .. n + 1
        /\ \A i \in 1 .. n : a[i] = q[i]
        /\ a[n + 1] = w
    <3> DEFINE S == Range(q) \cup {w}
    <3>1. q \in Seq(S) /\ w \in S BY SeqMonotonic DEF StoreInv, PanelTyped
    <3> HIDE DEF S
    <3>2. /\ a \in Seq(S) /\ Len(a) = n + 1 /\ \A i \in 1 .. n : a[i] = q[i]
          /\ a[n + 1] = w
      BY <1>5, <3>1, AppendProperties
    <3> QED BY <3>1, <3>2, LenProperties
  <2> HIDE DEF q, a, n
  <2>6. \A i \in DOMAIN a : (i \in DOMAIN q /\ a[i] = q[i]) \/ (i = n + 1 /\ a[i] = w)
    BY <2>5
  <2>7. /\ \A i \in DOMAIN q : q[i].no \in Nat /\ left.touch < q[i].no
        /\ \A i, j \in DOMAIN q : q[i].no = q[j].no => i = j
    BY DEF TouchInv, Numbers, q
  <2>8. \A i \in DOMAIN a : a[i].no \in Nat /\ left'.touch < a[i].no
    BY <1>2, <2>1, <2>6, <2>7
  <2>9. \A i, j \in DOMAIN a : a[i].no = a[j].no => i = j
    BY <1>2, <2>1, <2>6, <2>7
  <2>10. Numbers' BY <2>8, <2>9 DEF Numbers, a
  <2>11. PendingIsNew'
    <3> SUFFICES ASSUME NEW t \in Range(q) \cup {w}
                 PROVE  /\ sess.who[t.skin] = None
                        /\ \A f \in Known : f.kind = "press" => f.no # t.no
      BY <1>1, <2>2, <2>4 DEF PendingIsNew, a
    <3>1. CASE t \in Range(q) BY <3>1 DEF TouchInv, PendingIsNew, q
    <3>2. CASE t = w BY <1>2, <1>5, <2>1, <3>2 DEF TouchInv, EventsInv, Sound
    <3> QED BY <3>1, <3>2
  <2>12. KeepsPending BY <2>4 DEF KeepsPending, a, q
  <2> QED BY <2>3, <2>10, <2>11, <2>12 DEF TouchInv, Attributed
<1> QED BY <1>1, <1>4, <1>5

LEMMA TouchSkip == ASSUME OpenInv, StoreInv, TouchInv, ButtonInv', SkipTouch PROVE Attributed
<1> DEFINE k == Head(sess.queue)
           first == Min(OfSkin(k))
           e == TouchEvent("press", sess.pending[first].no, k, Unknown)
           P == DOMAIN sess.pending \ {first}
<1>1. /\ sess'.id = sess.id /\ sess'.who = sess.who /\ InSession
      /\ \/ sess'.pending = sess.pending /\ evq' = evq
         \/ OfSkin(k) # {} /\ sess'.pending = PendingAt(P) /\ evq' = Append(evq, e)
  BY PanelSkip DEF OpenInv, StoreInv
<1>2. db' = db /\ left' = left BY DEF SkipTouch
<1>3. k \in Skins BY AskedOf DEF SkipTouch, StoreInv
<1>4. left \in Mix /\ left' \in Mix /\ left'.touch <= left.touch
  BY <1>2 DEF OpenInv, ButtonInv, Mix
<1>5. CASE sess'.pending = sess.pending /\ evq' = evq
  <2>1. Known' \subseteq Known BY <1>2, <1>5, KnownLess
  <2> QED BY <1>1, <1>2, <1>5, <2>1, SameMap, TouchQuiet
<1>6. CASE OfSkin(k) # {} /\ sess'.pending = PendingAt(P) /\ evq' = Append(evq, e)
  <2>1. first \in OfSkin(k)
    <3>1. DOMAIN sess.pending = 1 .. Len(sess.pending) /\ Len(sess.pending) \in Nat
      BY LenProperties DEF StoreInv, PanelTyped
    <3>2. OfSkin(k) \subseteq Nat BY <3>1 DEF OfSkin
    <3> QED BY <1>6, <3>2, LeastPlace
  <2> HIDE DEF first, k
  <2>2. first \in DOMAIN sess.pending BY <2>1 DEF OfSkin
  <2>3. sess.pending[first].no \in Nat /\ left'.touch < sess.pending[first].no
    BY <1>2, <2>2 DEF TouchInv, Numbers
  <2>4. \A f : f = e => Sound(f)' BY <1>1, <1>2, <1>3, <2>3, LoggedSound
  <2>5. e.no = sess.pending[first].no /\ e.kind = "press" BY DEF TouchEvent
  <2> HIDE DEF e
  <2>6. Range(evq') = Range(evq) \cup {e}
    BY <1>6, RangeAppend DEF StoreInv, DbInv, Queued
  <2>7. Known' \subseteq Known \cup {e} BY <1>2, <2>6, KnownMore
  <2>8. EventsInv'
    <3>1. \A f \in Known' : f \notin Known => Sound(f)' BY <2>4, <2>7
    <3> QED BY <1>2, <1>4, <3>1, SameMap, EventsKept DEF TouchInv
  <2>9. Numbers' /\ PendingIsNew' /\ KeepsPending
    <3>1. P \subseteq DOMAIN sess.pending /\ DOMAIN sess.pending \ P = {first} BY <2>2
    <3>2. \A i \in P : sess'.who[sess.pending[i].skin] = None
      BY <1>1 DEF TouchInv, PendingIsNew, Range
    <3> HIDE DEF P
    <3>3. \A f \in Known' : \/ f \in Known
                            \/ \E i \in DOMAIN sess.pending \ P : f.no = sess.pending[i].no
      BY <2>5, <2>7, <3>1
    <3>4. \A i \in DOMAIN sess.pending \ P :
            \E f \in Range(evq') : f.kind = "press" /\ f.no = sess.pending[i].no
      BY <2>5, <2>6, <3>1
    <3> QED BY <1>2, <1>4, <1>6, <3>1, <3>2, <3>3, <3>4, PendingLess DEF TouchInv, StoreInv
  <2> QED BY <2>8, <2>9 DEF TouchInv, Attributed
<1> QED BY <1>1, <1>5, <1>6

LEMMA TouchAssign ==
  ASSUME OpenInv, StoreInv, StoreInv', TouchInv, ButtonInv',
         NEW p \in sess.kids, AssignSkin(p)
  PROVE  Attributed
<1> PICK s : s = sess.id OBVIOUS
<1> DEFINE k == Head(sess.queue)
           F == [i \in DOMAIN PendingOf(k) |-> TouchEvent("press", PendingOf(k)[i].no, k, p)]
           P == DOMAIN sess.pending \ OfSkin(k)
<1>1. evq' = evq \o F /\ left' = left BY DEF AssignSkin
<1>2. /\ sess'.id = s /\ InSession /\ p \in People
      /\ sess'.who = [sess.who EXCEPT ![k] = p]
      /\ sess'.pending = PendingAt(P)
      /\ db' = SaveAssignment(db, s, k, p)
  BY PanelAssign DEF OpenInv, StoreInv, OthersThan
<1>3. s \in Sessions /\ s \notin DOMAIN db.bin BY <1>2, OnPanel DEF StoreInv
<1>4. k \in Skins /\ sess.who[k] = None BY AskedOf DEF AssignSkin, StoreInv
<1>5. db.asg[s][k] = {} BY <1>2, <1>4 DEF StoreInv, DurableMap
<1>6. OfSkin(k) \subseteq DOMAIN sess.pending BY PlacesOf
<1>7. F \in Seq(Range(F)) /\ Range(F) = {TouchEvent("press", sess.pending[i].no, k, p) : i \in OfSkin(k)}
  <2>1. /\ DOMAIN PendingOf(k) = 1 .. Cardinality(OfSkin(k)) /\ Cardinality(OfSkin(k)) \in Nat
        /\ Range(PendingOf(k)) = {sess.pending[i] : i \in OfSkin(k)}
    BY <1>6, PendingTyped DEF PendingOf, StoreInv, PanelTyped
  <2>2. F \in [1 .. Cardinality(OfSkin(k)) -> Range(F)] BY <2>1 DEF Range
  <2>3. F \in Seq(Range(F))
    <3> DEFINE n == Cardinality(OfSkin(k))
    <3>1. n \in Nat /\ F \in [1 .. n -> Range(F)] BY <2>1, <2>2
    <3> HIDE DEF n, F
    <3> QED BY <3>1, SeqDef
  <2>4. Range(F) = {TouchEvent("press", t.no, k, p) : t \in Range(PendingOf(k))}
    BY DEF Range
  <2> QED BY <2>1, <2>3, <2>4
<1>8. left \in Mix /\ left' \in Mix /\ left'.touch <= left.touch
  BY <1>1 DEF OpenInv, ButtonInv, Mix
<1> HIDE DEF k, F
<1>9. Range(evq') = Range(evq) \cup Range(F)
  BY <1>1, <1>7, RangeConcat DEF StoreInv, DbInv, Queued
<1>10. /\ db'.bin = db.bin /\ db'.events = db.events
       /\ db'.asg = [db.asg EXCEPT ![s] = [db.asg[s] EXCEPT ![k] = {p}]]
  <2> DEFINE a == [db.asg EXCEPT ![s] = [db.asg[s] EXCEPT ![k] = db.asg[s][k] \cup {p}]]
  <2>1. db' = [row |-> db.row, kids |-> db.kids, asg |-> a, events |-> db.events,
               bin |-> db.bin, last |-> db.last]
    BY <1>2, <1>3, <1>4, AssignedTables DEF OpenInv, Stored, StoreInv, DbInv
  <2>2. a = [db.asg EXCEPT ![s] = [db.asg[s] EXCEPT ![k] = {p}]] BY <1>5
  <2> HIDE DEF a
  <2>3. db'.bin = db.bin /\ db'.events = db.events /\ db'.asg = a BY <2>1
  <2> QED BY <2>2, <2>3
<1>11. Known' \subseteq Known \cup Range(F) BY <1>9, <1>10, KnownMore
<1>12. /\ \A t : t # s => MapOf(t)' = MapOf(t)
       /\ MapOf(s) = db.asg[s] /\ MapOf(s)' = [db.asg[s] EXCEPT ![k] = {p}]
  <2>1. \A t : t # s => db'.asg[t] = db.asg[t] BY <1>10 DEF StoreInv, DbInv, TablesTyped
  <2>2. db'.asg[s] = [db.asg[s] EXCEPT ![k] = {p}]
    BY <1>3, <1>10 DEF StoreInv, DbInv, TablesTyped
  <2> QED BY <1>3, <1>10, <2>1, <2>2 DEF MapOf
<1>13. \A i \in Skins : i # k => MapOf(s)'[i] = MapOf(s)[i]
  <2>1. db.asg[s] \in Maps BY <1>3 DEF StoreInv, DbInv, TablesTyped
  <2> QED BY <1>12, <2>1 DEF Maps
<1>14. MapOf(s)'[k] = {p}
  <2>1. db.asg[s] \in Maps BY <1>3 DEF StoreInv, DbInv, TablesTyped
  <2> QED BY <1>4, <1>12, <2>1 DEF Maps
<1>15. ASSUME NEW e \in Known PROVE Sound(e)'
  <2>1. Sound(e) BY DEF TouchInv, EventsInv
  <2>2. CASE e.s # s
    <3>1. MapOf(e.s)' = MapOf(e.s) BY <1>12, <2>2
    <3> QED BY <1>1, <2>1, <3>1 DEF Sound
  <2>3. CASE e.s = s /\ e.skin # k
    <3>1. e.skin \in Skins => MapOf(e.s)'[e.skin] = MapOf(e.s)[e.skin] BY <1>13, <2>3
    <3> QED BY <1>1, <2>1, <3>1 DEF Sound
  <2>4. CASE e.s = s /\ e.skin = k
    <3>1. MapOf(e.s)[e.skin] = {} BY <1>5, <1>12, <2>4
    <3>2. MapOf(e.s)[e.skin] # {e.who} BY <3>1
    <3> QED BY <1>1, <2>1, <3>2 DEF Sound
  <2> QED BY <2>2, <2>3, <2>4
<1>16. ASSUME NEW e \in Range(F) PROVE Sound(e)'
  <2>1. PICK i \in OfSkin(k) : e = TouchEvent("press", sess.pending[i].no, k, p) BY <1>7
  <2>2. /\ e.s = s /\ e.kind = "press" /\ e.skin = k /\ e.who = p /\ e.no = sess.pending[i].no
    BY <2>1 DEF TouchEvent
  <2>3. e.no \in Nat /\ left'.touch < e.no BY <1>1, <1>6, <2>2 DEF TouchInv, Numbers
  <2>4. MapOf(e.s)'[e.skin] = {e.who} BY <1>14, <2>2
  <2> QED BY <1>4, <2>2, <2>3, <2>4 DEF Sound
<1>17. EventsInv' BY <1>11, <1>15, <1>16 DEF EventsInv
<1>18. Numbers' /\ PendingIsNew' /\ KeepsPending
  <2>1. P \subseteq DOMAIN sess.pending /\ DOMAIN sess.pending \ P = OfSkin(k) BY <1>6
  <2>2. \A i \in P : sess'.who[sess.pending[i].skin] = None
    <3> TAKE i \in P
    <3>1. sess.pending[i] \in Range(sess.pending) /\ sess.pending[i].skin # k
      BY DEF Range, OfSkin
    <3>2. sess.who[sess.pending[i].skin] = None /\ sess.pending[i].skin \in Skins
      BY <3>1 DEF TouchInv, PendingIsNew, StoreInv, PanelTyped
    <3> QED BY <1>2, <3>1, <3>2 DEF StoreInv, PanelTyped
  <2> HIDE DEF P
  <2>3. \A i, j : TouchEvent("press", j, k, p).kind = "press" /\ TouchEvent("press", j, k, p).no = j
    BY DEF TouchEvent
  <2>4. \A e \in Known' : \/ e \in Known
                          \/ \E i \in DOMAIN sess.pending \ P : e.no = sess.pending[i].no
    BY <1>7, <1>11, <2>1, <2>3
  <2>5. \A i \in DOMAIN sess.pending \ P :
          \E e \in Range(evq') : e.kind = "press" /\ e.no = sess.pending[i].no
    BY <1>7, <1>9, <2>1, <2>3
  <2> QED BY <1>1, <1>2, <1>8, <2>1, <2>2, <2>4, <2>5, PendingLess DEF TouchInv, StoreInv
<1> QED BY <1>17, <1>18 DEF TouchInv, Attributed

LEMMA TouchWriter == ASSUME OpenInv, StoreInv, TouchInv, ButtonInv', Writer PROVE Attributed
<1> DEFINE E == db.events \cup {Head(evq)}
<1>1. /\ sess' = sess /\ left' = left /\ evq # <<>> /\ evq' = Tail(evq)
      /\ db' = db \/ db' = [db EXCEPT !.events = E]
  BY DEF Writer, WriteEvent
<1>2. Head(evq) \in Range(evq) /\ Range(evq') \subseteq Range(evq)
  BY <1>1, RangeTail DEF StoreInv, DbInv, Queued
<1>3. db'.bin = db.bin /\ db'.asg = db.asg /\ db'.events \subseteq db.events \cup Range(evq)
  <2>1. CASE db' = db BY <2>1
  <2>2. CASE db' = [db EXCEPT !.events = E]
    <3> HIDE DEF E
    <3>1. db'.bin = db.bin /\ db'.asg = db.asg /\ db'.events = E
      BY <2>2, EventsTable DEF OpenInv
    <3> QED BY <1>2, <3>1 DEF E
  <2> QED BY <1>1, <2>1, <2>2
<1>4. Known' \subseteq Known BY <1>2, <1>3, KnownLess
<1> QED BY <1>1, <1>3, <1>4, SameMap, TouchQuiet

LEMMA TouchTrash ==
  ASSUME OpenInv, StoreInv, TouchInv, ButtonInv', NEW s \in Trashable, Trash(s)
  PROVE  Attributed
<1> DEFINE E == db.events \cup Range(evq)  G == {e \in E : e.s = s}
<1>1. sess' = sess /\ evq' = <<>> /\ left'.touch = left.touch
  BY SpendOther DEF Trash, OpenInv
<1>2. /\ s \in Sessions /\ db'.bin = Binned(s, E) /\ db'.events = E \ G
      /\ db'.asg = [db.asg EXCEPT ![s] = NoAssignment] /\ s \notin DOMAIN db.bin
  BY TrashOf, InUse DEF Trashable, StoreInv
<1>3. /\ DOMAIN db'.bin = DOMAIN db.bin \cup {s}
      /\ db'.bin[s].asg = db.asg[s] /\ db'.bin[s].events = G
      /\ \A t \in DOMAIN db.bin : db'.bin[t] = db.bin[t]
  BY <1>2 DEF Binned
<1>4. E \subseteq Known /\ G \subseteq E BY DEF Known
<1> HIDE DEF E, G
<1>5. Known' \subseteq Known
  <2>1. Range(evq') = {} BY <1>1, NothingQueued
  <2>2. Bundled' \subseteq Bundled \cup G
    <3> SUFFICES ASSUME NEW t \in DOMAIN db'.bin, NEW e \in db'.bin[t].events
                 PROVE  e \in Bundled \cup G
      BY DEF Bundled
    <3> QED BY <1>3 DEF Bundled
  <2> QED BY <1>2, <1>4, <2>1, <2>2 DEF Known
<1>6. \A e \in Known' : MapOf(e.s)' = MapOf(e.s)
  <2> SUFFICES ASSUME NEW t PROVE MapOf(t)' = MapOf(t) OBVIOUS
  <2>1. CASE t = s BY <1>2, <1>3, <2>1 DEF MapOf
  <2>2. CASE t # s BY <1>2, <1>3, <2>2 DEF MapOf, StoreInv, DbInv, TablesTyped
  <2> QED BY <2>1, <2>2
<1> QED BY <1>1, <1>5, <1>6, TouchQuiet

LEMMA TouchRestore ==
  ASSUME OpenInv, StoreInv, TouchInv, ButtonInv', NEW s \in DOMAIN db.bin, Restore(s)
  PROVE  Attributed
<1>1. sess' = sess /\ evq' = evq /\ left'.touch = left.touch /\ db' = RestoreSession(db, s)
  BY SpendOther DEF Restore, OpenInv
<1>2. /\ db'.bin = [t \in DOMAIN db.bin \ {s} |-> db.bin[t]]
      /\ db'.events = db.events \cup db.bin[s].events
      /\ db'.asg = [db.asg EXCEPT ![s] = db.bin[s].asg]
  BY <1>1, RestoredDb DEF OpenInv, StoreInv
<1>3. Known' \subseteq Known
  <2>1. Bundled' \subseteq Bundled BY <1>2 DEF Bundled
  <2>2. db.bin[s].events \subseteq Bundled BY DEF Bundled
  <2> QED BY <1>1, <1>2, <2>1, <2>2 DEF Known
<1>4. \A e \in Known' : MapOf(e.s)' = MapOf(e.s)
  <2> SUFFICES ASSUME NEW t PROVE MapOf(t)' = MapOf(t) OBVIOUS
  <2>1. db.asg \in [Sessions -> Maps] /\ s \in Sessions
    BY DEF StoreInv, DbInv, TablesTyped, BinSound
  <2>2. CASE t = s BY <1>2, <2>1, <2>2 DEF MapOf
  <2>3. CASE t # s BY <1>2, <2>1, <2>3 DEF MapOf
  <2> QED BY <2>2, <2>3
<1> QED BY <1>1, <1>3, <1>4, TouchQuiet

\* What is purged was of no other session, and nothing live is of it.
LEMMA TouchPurge ==
  ASSUME OpenInv, StoreInv, StoreInv', TouchInv, ButtonInv', NEW S, S \subseteq DOMAIN db.bin,
         Purge(S)
  PROVE  Attributed
<1>1. sess' = sess /\ evq' = evq /\ left'.touch = left.touch /\ db' = PurgeSessions(db, S)
  BY SpendOther DEF Purge, OpenInv
<1>2. /\ db'.bin = [t \in DOMAIN db.bin \ S |-> db.bin[t]] /\ db'.row = db.row
      /\ db'.events = db.events /\ db'.asg = db.asg
  BY <1>1, PurgedDb DEF OpenInv, StoreInv
<1>3. Known' \subseteq Known
  <2>1. Bundled' \subseteq Bundled BY <1>2 DEF Bundled
  <2> QED BY <1>1, <1>2, <2>1 DEF Known
<1>4. \A e \in Known' : MapOf(e.s)' = MapOf(e.s)
  <2> TAKE e \in Known'
  <2>1. e.s \in Sessions /\ (db'.row[e.s] # "none" \/ e.s \in DOMAIN db'.bin)
    <3>1. CASE e \in db'.events BY <3>1 DEF StoreInv, DbInv, Written, Live
    <3>2. CASE e \in Range(evq)' BY <3>2 DEF StoreInv, DbInv, Queued, Live
    <3>3. CASE e \in Bundled'
      <4>1. PICK t \in DOMAIN db'.bin : e \in db'.bin[t].events BY <3>3 DEF Bundled
      <4>2. e.s = t /\ t \in Sessions BY <4>1 DEF StoreInv, DbInv, BinSound, BundleOf
      <4> QED BY <4>1, <4>2
    <3> QED BY <3>1, <3>2, <3>3 DEF Known
  <2>2. e.s \notin S BY <1>2, <2>1 DEF StoreInv, DbInv, Restorable
  <2> QED BY <1>2, <2>2 DEF MapOf
<1> QED BY <1>1, <1>3, <1>4, TouchQuiet

LEMMA TouchTrashing ==
  ASSUME OpenInv, StoreInv, StoreInv', TouchInv, ButtonInv', Trashing
  PROVE  Attributed
<1>1. CASE \E s \in Trashable : Trash(s) BY <1>1, TouchTrash
<1>2. CASE \E s \in DOMAIN db.bin : Restore(s) BY <1>2, TouchRestore
<1>3. CASE \E S : S \subseteq DOMAIN db.bin /\ Purge(S) BY <1>3, TouchPurge
<1>4. CASE \E s \in Sessions : MoveFile(s)
  <2>1. sess' = sess /\ evq' = evq /\ left' = left /\ db' = db BY <1>4 DEF MoveFile
  <2>2. Known' \subseteq Known BY <2>1, KnownLess
  <2> QED BY <2>1, <2>2, SameMap, TouchQuiet
<1> QED BY <1>1, <1>2, <1>3, <1>4 DEF Trashing

LEMMA TouchStutter ==
  ASSUME OpenInv, StoreInv, TouchInv, ButtonInv', UNCHANGED vars
  PROVE  Attributed
<1>1. sess' = sess /\ evq' = evq /\ left' = left /\ db' = db BY DEF vars
<1>2. Known' \subseteq Known BY <1>1, KnownLess
<1> QED BY <1>1, <1>2, SameMap, TouchQuiet

LEMMA TouchStep ==
  ASSUME OpenInv, StoreInv, StoreInv', TouchInv, ButtonInv', [Next]_vars
  PROVE  TouchInv' /\ KeepsPending
<1> USE DEF Attributed
<1>1. CASE Process BY <1>1, TouchBoot, TouchDown DEF Process
<1>2. CASE Panel
  BY <1>2, TouchDecline, TouchAccept, TouchNew, TouchStop, TouchHalting, TouchSkip, TouchAssign
     DEF Panel
<1>3. CASE Touches BY <1>3, TouchPress, TouchRelease DEF Touches
<1> QED BY <1>1, <1>2, <1>3, TouchHalting, TouchTrashing, TouchWriter, TouchStutter DEF Next

LEMMA TouchInit == Init => TouchInv
<1> SUFFICES ASSUME Init PROVE TouchInv OBVIOUS
<1>1. db.events = {} /\ DOMAIN db.bin = {} /\ evq = <<>> /\ sess.pending = <<>>
  BY DEF Init, EmptyDb, Idle
<1>2. Range(<<>>) = {} BY NothingQueued
<1>3. Known = {} BY <1>1, <1>2 DEF Known, Bundled
<1> QED BY <1>1, <1>2, <1>3 DEF TouchInv, EventsInv, Numbers, PendingIsNew

\* With a careful operator a touch that waits for its child has not been logged,
\* and waits until it is logged or the session ends. A logged one is of nobody or
\* of the child the database has for its skin, in the tables, the queue and the
\* trash alike (_on_touch_event, _on_skin_assigned).
THEOREM TouchesStayAttributed ==
  ASSUME \A m \in Mixes : m.careful
  PROVE  Spec => TouchesAttributed
<1> DEFINE I == ButtonInv /\ OpenInv /\ StoreInv /\ TouchInv
<1>1. Init => I BY ButtonInit, OpenInit, StoreInit, TouchInit
<1>2. I /\ [Next]_vars => I' BY ButtonStep, OpenStep, StoreStep, TouchStep
<1>3. I => DurableMap /\ OneChildPerSkin /\ PendingIsNew
  BY DEF StoreInv, TouchInv, EventsInv, Sound, OneChildPerSkin
<1>4. I /\ [Next]_vars => [KeepsPending]_vars
  BY ButtonStep, StoreStep, TouchStep
<1>5. PendingKept <=> [][KeepsPending]_vars BY PTL DEF PendingKept, KeepsPending
<1> HIDE DEF I
<1> QED BY <1>1, <1>2, <1>3, <1>4, <1>5, PTL DEF Spec, TouchesAttributed

-----------------------------------------------------------------------------
(* Commands of the calibration: a fold over a sequence *)

\* A non-empty family of subsets of a finite set has a least one.
LEMMA LeastSet ==
  ASSUME NEW D, IsFiniteSet(D), NEW F, F # {}, \A s \in F : s \subseteq D
  PROVE  \E s \in F : \A u \in F : u \subseteq s => u = s
<1>1. FiniteSubsetsOf(D) = SUBSET D BY FS_FiniteSubsetsOfFinite
<1>2. IsWellFoundedOn(StrictSubsetOrdering(D), SUBSET D)
  BY <1>1, FS_StrictSubsetOrderingWellFounded
<1>4. F \subseteq SUBSET D OBVIOUS
<1>3. \E s \in F : \A u \in F : <<u, s>> \notin StrictSubsetOrdering(D)
  BY <1>2, <1>4, WFMin
<1> QED BY <1>3, <1>4 DEF StrictSubsetOrdering

LEMMA MaxIn ==
  ASSUME NEW D \in SUBSET Int, IsFiniteSet(D), D # {}
  PROVE  Calibration!Max(D) \in D
<1> DEFINE Greatest(s) == \E x \in s : \A y \in s : x >= y
<1> SUFFICES Greatest(D) BY DEF Calibration!Max
<1> DEFINE F == {s \in SUBSET D : s # {} /\ ~Greatest(s)}
<1> SUFFICES ASSUME F # {} PROVE FALSE OBVIOUS
<1>1. PICK s \in F : \A u \in F : u \subseteq s => u = s
  <2>1. \A s \in F : s \subseteq D OBVIOUS
  <2> HIDE DEF F
  <2> QED BY <2>1, LeastSet
<1>2. PICK x \in s : TRUE OBVIOUS
<1>3. CASE s = {x} BY <1>1, <1>3
<1>4. CASE s \ {x} # {}
  <2>0. s \ {x} \subseteq s /\ s \ {x} # s /\ s \ {x} \in SUBSET D BY <1>2
  <2>1. Greatest(s \ {x})
    <3> HIDE DEF Greatest
    <3> QED BY <1>1, <1>4, <2>0
  <2>2. PICK m \in s \ {x} : \A y \in s \ {x} : m >= y BY <2>1
  <2> QED BY <1>1, <1>2, <2>2
<1> QED BY <1>2, <1>3, <1>4

\* The iteration of a fold over the subsets of D, and its solution.
Iterates(h, D, base, g, ch) ==
  \A u \in SUBSET D : h[u] = IF u = {} THEN base ELSE g[ch[u]][h[u \ {ch[u]}]]

LEMMA IterationUnique ==
  ASSUME NEW D, IsFiniteSet(D), NEW base, NEW g, NEW ch,
         \A u \in SUBSET D : u # {} => ch[u] \in u,
         NEW s \in SUBSET D, NEW v \in SUBSET s, NEW h, NEW k,
         Iterates(h, s, base, g, ch), Iterates(k, v, base, g, ch)
  PROVE  \A u \in SUBSET v : h[u] = k[u]
<1> DEFINE F == {u \in SUBSET v : h[u] # k[u]}
<1> SUFFICES ASSUME F # {} PROVE FALSE OBVIOUS
<1>1. PICK u \in F : \A w \in F : w \subseteq u => w = u
  <2>1. \A w \in F : w \subseteq D OBVIOUS
  <2> HIDE DEF F
  <2> QED BY <2>1, LeastSet
<1>2. u \in SUBSET v /\ u \in SUBSET s /\ u \in SUBSET D OBVIOUS
<1>3. u # {} BY <1>1, <1>2 DEF Iterates
<1>4. u \ {ch[u]} \in SUBSET v /\ u \ {ch[u]} # u /\ u \ {ch[u]} \subseteq u BY <1>2, <1>3
<1>5. h[u \ {ch[u]}] = k[u \ {ch[u]}] BY <1>1, <1>4
<1> QED BY <1>1, <1>2, <1>3, <1>5 DEF Iterates

LEMMA IterationExists ==
  ASSUME NEW D, IsFiniteSet(D), NEW T, NEW base \in T, NEW g, NEW ch,
         \A u \in SUBSET D : u # {} => ch[u] \in u,
         \A x \in D, y \in T : g[x][y] \in T
  PROVE  \E h \in [SUBSET D -> T] : Iterates(h, D, base, g, ch)
<1> DEFINE Solves(h, s) == h \in [SUBSET s -> T] /\ Iterates(h, s, base, g, ch)
           F == {s \in SUBSET D : ~\E h : Solves(h, s)}
<1> SUFFICES ASSUME F # {} PROVE FALSE OBVIOUS
<1>1. PICK s \in F : \A w \in F : w \subseteq s => w = s
  <2>1. \A s \in F : s \subseteq D OBVIOUS
  <2> HIDE DEF F
  <2> QED BY <2>1, LeastSet
<1>2. s \in SUBSET D /\ ~\E h : Solves(h, s) OBVIOUS
<1>3. \A w \in SUBSET s : w # s => \E h : Solves(h, w) BY <1>1, <1>2
<1> DEFINE a == [w \in SUBSET s |-> CHOOSE h : Solves(h, w)]
           h == [u \in SUBSET s |-> IF u = {} THEN base
                                    ELSE g[ch[u]][a[u \ {ch[u]}][u \ {ch[u]}]]]
<1> HIDE DEF Solves
<1>4. \A w \in SUBSET s : w # s => Solves(a[w], w) BY <1>3
<1>5. \A u \in SUBSET s : u # {} => /\ ch[u] \in u /\ ch[u] \in D
                                    /\ u \ {ch[u]} \in SUBSET s /\ u \ {ch[u]} # s
  BY <1>2
<1> HIDE DEF a
<1>6. h \in [SUBSET s -> T]
  <2> SUFFICES ASSUME NEW u \in SUBSET s, u # {}
               PROVE  g[ch[u]][a[u \ {ch[u]}][u \ {ch[u]}]] \in T
    OBVIOUS
  <2>1. Solves(a[u \ {ch[u]}], u \ {ch[u]}) BY <1>4, <1>5
  <2>2. a[u \ {ch[u]}][u \ {ch[u]}] \in T BY <2>1 DEF Solves
  <2> QED BY <1>5, <2>2
<1>7. \A w \in SUBSET s : w # s => h[w] = a[w][w]
  <2> SUFFICES ASSUME NEW w \in SUBSET s, w # s PROVE h[w] = a[w][w] OBVIOUS
  <2>1. Solves(a[w], w) BY <1>4
  <2>2. a[w][w] = IF w = {} THEN base ELSE g[ch[w]][a[w][w \ {ch[w]}]]
    BY <2>1 DEF Solves, Iterates
  <2>3. CASE w = {} BY <2>2, <2>3
  <2>4. CASE w # {}
    <3> DEFINE v == w \ {ch[w]}
    <3>1. v \in SUBSET w /\ v \in SUBSET s /\ v # s /\ v \in SUBSET v /\ w \in SUBSET D
      BY <1>2
    <3>2. Solves(a[v], v) BY <1>4, <3>1
    <3> HIDE DEF v
    <3>3. /\ Iterates(a[w], w, base, g, ch) /\ Iterates(a[v], v, base, g, ch)
      BY <2>1, <3>2 DEF Solves
    <3>4. \A p, q : Iterates(p, w, base, g, ch) /\ Iterates(q, v, base, g, ch)
                     => \A u \in SUBSET v : p[u] = q[u]
      BY <3>1, IterationUnique
    <3>5. a[w][v] = a[v][v] BY <3>1, <3>3, <3>4
    <3> QED BY <2>2, <2>4, <3>5 DEF v
  <2> QED BY <2>3, <2>4
<1>8. Iterates(h, s, base, g, ch)
  <2> SUFFICES ASSUME NEW u \in SUBSET s, u # {}
               PROVE  h[u] = g[ch[u]][h[u \ {ch[u]}]]
    BY DEF Iterates
  <2>1. h[u \ {ch[u]}] = a[u \ {ch[u]}][u \ {ch[u]}] BY <1>5, <1>7
  <2> QED BY <2>1
<1> QED BY <1>2, <1>6, <1>8 DEF Solves

\* What each step of a fold keeps, the fold keeps.
LEMMA FoldKeeps ==
  ASSUME NEW S, IsFiniteSet(S), NEW T, NEW h, NEW ch,
         \A u \in SUBSET S : u # {} => ch[u] \in u,
         h[{}] \in T,
         \A u \in SUBSET S : u # {} /\ h[u \ {ch[u]}] \in T => h[u] \in T
  PROVE  h[S] \in T
<1> DEFINE F == {u \in SUBSET S : h[u] \notin T}
<1> SUFFICES ASSUME F # {} PROVE FALSE OBVIOUS
<1>1. PICK u \in F : \A w \in F : w \subseteq u => w = u
  <2>1. \A s \in F : s \subseteq S OBVIOUS
  <2> HIDE DEF F
  <2> QED BY <2>1, LeastSet
<1>2. u # {} BY <1>1
<1>3. u \ {ch[u]} \in SUBSET S /\ u \ {ch[u]} # u /\ u \ {ch[u]} \subseteq u BY <1>1, <1>2
<1>4. h[u \ {ch[u]}] \in T BY <1>1, <1>3
<1> QED BY <1>1, <1>2, <1>4

LEMMA MaxPicks ==
  ASSUME NEW S \in SUBSET Int, IsFiniteSet(S)
  PROVE  \A u \in SUBSET S : u # {} => Calibration!Max(u) \in u
<1> SUFFICES ASSUME NEW u \in SUBSET S, u # {} PROVE Calibration!Max(u) \in u OBVIOUS
<1>1. u \in SUBSET Int /\ IsFiniteSet(u) BY FS_Subset
<1> QED BY <1>1, MaxIn

Specs    == [ch : Chambers, kind : Calibration!Kinds]
Runs     == [dir : {0, 1}, ch : Chambers, duty : 0 .. 2]
Commands == [op : {"vent", "shut", "hold_duty", "hold_off", "hold"}, ch : Chambers]
            \cup [op : {"run"}, run : Runs] \cup {Calibration!TestStop}
Nodes    == [test : {Calibration!Off} \cup Runs, valves : [Chambers -> SUBSET {0, 1}],
             vents : SUBSET Chambers, holds : SUBSET Chambers]

LEMMA NodeFields ==
  ASSUME NEW n \in Nodes
  PROVE  /\ n = [test |-> n.test, valves |-> n.valves, vents |-> n.vents, holds |-> n.holds]
         /\ n.test \in {Calibration!Off} \cup Runs /\ n.valves \in [Chambers -> SUBSET {0, 1}]
         /\ n.vents \in SUBSET Chambers /\ n.holds \in SUBSET Chambers
BY DEF Nodes

LEMMA ValvesSet ==
  ASSUME NEW v \in [Chambers -> SUBSET {0, 1}], NEW c \in Chambers, NEW x \in SUBSET {0, 1}
  PROVE  [v EXCEPT ![c] = x] \in [Chambers -> SUBSET {0, 1}]
OBVIOUS

LEMMA NewNode ==
  ASSUME NEW n \in Nodes, NEW c \in Chambers, NEW open \in BOOLEAN
  PROVE  /\ Calibration!Vented(n, c, open).test = n.test
         /\ Calibration!Vented(n, c, open).valves
              = [n.valves EXCEPT ![c] = IF open THEN {0, 1} ELSE {}]
         /\ Calibration!Vented(n, c, open).holds = n.holds \ {c}
         /\ [n EXCEPT !.holds = @ \ {c}, !.valves[c] = {}].test = n.test
         /\ [n EXCEPT !.holds = @ \ {c}, !.valves[c] = {}].valves = [n.valves EXCEPT ![c] = {}]
         /\ [n EXCEPT !.holds = @ \ {c}, !.valves[c] = {}].holds = n.holds \ {c}
<1>1. PICK t, v, w, h : n = [test |-> t, valves |-> v, vents |-> w, holds |-> h]
  BY NodeFields
<1>2. n.test = t /\ n.valves = v /\ n.vents = w /\ n.holds = h BY <1>1
<1> QED BY <1>1, <1>2 DEF Calibration!Vented, Calibration!Infl, Calibration!Defl

LEMMA ObeyTyped ==
  ASSUME NEW n \in Nodes, NEW cmd \in Commands
  PROVE  Calibration!Obey(n, cmd) \in Nodes
<1> USE NodeFields
<1>1. CASE cmd \in [op : {"vent", "shut", "hold_duty", "hold_off", "hold"}, ch : Chambers]
  <2>1. \A x \in SUBSET {0, 1} : [n.valves EXCEPT ![cmd.ch] = x] \in [Chambers -> SUBSET {0, 1}]
    BY <1>1, ValvesSet
  <2>2. cmd.ch \in Chambers /\ cmd.op \in {"vent", "shut", "hold_duty", "hold_off", "hold"}
    BY <1>1
  <2>3. CASE cmd.op = "vent"
    BY <2>1, <2>2, <2>3 DEF Calibration!Obey, Calibration!Vented, Nodes,
       Calibration!Infl, Calibration!Defl
  <2>4. CASE cmd.op = "shut"
    BY <2>1, <2>2, <2>4 DEF Calibration!Obey, Calibration!Vented, Nodes,
       Calibration!Infl, Calibration!Defl
  <2>5. CASE cmd.op = "hold_duty" BY <2>2, <2>5 DEF Calibration!Obey, Nodes
  <2>6. CASE cmd.op = "hold_off" BY <2>2, <2>6 DEF Calibration!Obey, Nodes
  <2>7. CASE cmd.op = "hold" BY <2>1, <2>2, <2>7 DEF Calibration!Obey, Nodes
  <2> QED BY <2>2, <2>3, <2>4, <2>5, <2>6, <2>7
<1>2. CASE cmd \in [op : {"run"}, run : Runs]
  <2>1. cmd.run \in Runs /\ cmd.op = "run" BY <1>2
  <2>2. cmd.run.dir \in {0, 1} BY <2>1 DEF Runs
  <2>3. Calibration!Obey(n, cmd) = Calibration!TestRan(n, cmd.run)
    BY <2>1 DEF Calibration!Obey
  <2>4. [c \in Chambers |-> IF c = cmd.run.ch THEN {cmd.run.dir} ELSE {}]
          \in [Chambers -> SUBSET {0, 1}]
    BY <2>2
  <2> QED BY <2>1, <2>3, <2>4 DEF Calibration!TestRan, Nodes
<1>3. CASE cmd = Calibration!TestStop
  <2>1. Calibration!Obey(n, cmd) = Calibration!TestStopped(n)
    BY <1>3 DEF Calibration!Obey, Calibration!TestStop
  <2> QED BY <2>1 DEF Calibration!TestStopped, Nodes
<1> QED BY <1>1, <1>2, <1>3 DEF Commands

\* A batch of commands is carried out one after the other.
Carried(path, n, cmds) ==
  /\ path \in [0 .. Len(cmds) -> Nodes] /\ path[0] = n
  /\ \A k \in 1 .. Len(cmds) : path[k] = Calibration!Obey(path[k - 1], cmds[k])

LEMMA UpTo ==
  ASSUME NEW k \in Nat
  PROVE  /\ 1 .. k \in SUBSET Int /\ IsFiniteSet(1 .. k)
         /\ k > 0 => /\ Calibration!Max(1 .. k) = k /\ (1 .. k) \ {k} = 1 .. (k - 1)
                     /\ 1 .. k # {}
         /\ \A m \in Nat : k <= m => 1 .. k \in SUBSET (1 .. m)
<1>1. IsFiniteSet(1 .. k) BY FS_Interval
<1>2. k > 0 => Calibration!Max(1 .. k) = k
  <2> SUFFICES ASSUME k > 0 PROVE Calibration!Max(1 .. k) = k OBVIOUS
  <2> DEFINE Greatest(x) == x \in 1 .. k /\ \A y \in 1 .. k : x >= y
  <2>1. Greatest(k) OBVIOUS
  <2>2. \A x : Greatest(x) => x = k BY <2>1
  <2> QED BY <2>1, <2>2 DEF Calibration!Max
<1> QED BY <1>1, <1>2

LEMMA CommandsRun ==
  ASSUME NEW cmds \in Seq(Commands), NEW n \in Nodes
  PROVE  \E path : /\ Carried(path, n, cmds)
                  /\ Calibration!FoldLeft(Calibration!Obey, n, cmds) = path[Len(cmds)]
<1> DEFINE D == DOMAIN cmds
           ch == [u \in SUBSET D |-> Calibration!Max(u)]
           g == [x \in D |-> [y \in Nodes |-> Calibration!Obey(y, cmds[x])]]
           Solves(h) == h = [u \in SUBSET D |-> IF u = {} THEN n
                               ELSE Calibration!Obey(h[u \ {Calibration!Max(u)}],
                                                     cmds[Calibration!Max(u)])]
           iter == CHOOSE h : Solves(h)
<1>0. Len(cmds) \in Nat /\ D = 1 .. Len(cmds) /\ \A x \in D : cmds[x] \in Commands OBVIOUS
<1>1. D \in SUBSET Int /\ IsFiniteSet(D) BY <1>0, UpTo
<1>2. \A u \in SUBSET D : u # {} => ch[u] \in u /\ ch[u] = Calibration!Max(u) /\ ch[u] \in D
  BY <1>1, MaxPicks
<1>3. \A x \in D, y \in Nodes : g[x][y] \in Nodes /\ g[x][y] = Calibration!Obey(y, cmds[x])
  BY <1>0, ObeyTyped
<1>4. PICK h \in [SUBSET D -> Nodes] : Iterates(h, D, n, g, ch)
  <2> HIDE DEF g, ch, D
  <2> QED BY <1>1, <1>2, <1>3, IterationExists
<1>5. \A u \in SUBSET D :
        h[u] = IF u = {} THEN n ELSE Calibration!Obey(h[u \ {Calibration!Max(u)}],
                                                      cmds[Calibration!Max(u)])
  <2> SUFFICES ASSUME NEW u \in SUBSET D
               PROVE  h[u] = IF u = {} THEN n
                             ELSE Calibration!Obey(h[u \ {Calibration!Max(u)}],
                                                   cmds[Calibration!Max(u)])
    OBVIOUS
  <2>1. h[u] = IF u = {} THEN n ELSE g[ch[u]][h[u \ {ch[u]}]] BY <1>4 DEF Iterates
  <2>2. CASE u = {} BY <2>1, <2>2
  <2>3. CASE u # {}
    <3>1. h[u \ {ch[u]}] \in Nodes
      <4>1. u \ {ch[u]} \in SUBSET D OBVIOUS
      <4> HIDE DEF ch
      <4> QED BY <1>4, <4>1
    <3> HIDE DEF g, ch
    <3>2. g[ch[u]][h[u \ {ch[u]}]] = Calibration!Obey(h[u \ {ch[u]}], cmds[ch[u]])
      BY <1>2, <1>3, <2>3, <3>1
    <3> QED BY <1>2, <2>1, <2>3, <3>2
  <2> QED BY <2>2, <2>3
<1>6. Solves(iter)
  <2>1. h = [u \in SUBSET D |-> h[u]] BY <1>4
  <2>2. Solves(h) BY <1>5, <2>1
  <2> HIDE DEF Solves
  <2> QED BY <2>2
<1>7. Calibration!FoldLeft(Calibration!Obey, n, cmds) = iter[D]
  BY DEF Calibration!FoldLeft, Calibration!MapThenFoldSet
<1> DEFINE path == [k \in 0 .. Len(cmds) |-> iter[1 .. k]]
<1>8. iter[{}] = n
  <2> HIDE DEF iter
  <2> QED BY <1>6
<1>9. \A u \in SUBSET D : u # {} => iter[u] = Calibration!Obey(iter[u \ {ch[u]}], cmds[ch[u]])
  <2> SUFFICES ASSUME NEW u \in SUBSET D, u # {}
               PROVE  iter[u] = Calibration!Obey(iter[u \ {ch[u]}], cmds[ch[u]])
    OBVIOUS
  <2>1. ch[u] = Calibration!Max(u) BY <1>2
  <2> HIDE DEF iter, ch
  <2> QED BY <1>6, <2>1
<1>10. \A k \in 0 .. Len(cmds) : iter[1 .. k] \in Nodes
  <2> SUFFICES ASSUME NEW k \in 0 .. Len(cmds) PROVE iter[1 .. k] \in Nodes OBVIOUS
  <2>1. 1 .. k \in SUBSET D /\ IsFiniteSet(1 .. k) BY <1>0, UpTo
  <2>2. \A u \in SUBSET (1 .. k) : u # {} => ch[u] \in u
    <3> HIDE DEF ch
    <3> QED BY <1>2, <2>1
  <2>3. \A u \in SUBSET (1 .. k) : u # {} /\ iter[u \ {ch[u]}] \in Nodes => iter[u] \in Nodes
    <3> HIDE DEF iter, ch, D
    <3> SUFFICES ASSUME NEW u \in SUBSET (1 .. k), u # {}, iter[u \ {ch[u]}] \in Nodes
                 PROVE  iter[u] \in Nodes
      OBVIOUS
    <3>1. u \in SUBSET D BY <2>1
    <3>2. iter[u] = Calibration!Obey(iter[u \ {ch[u]}], cmds[ch[u]]) BY <1>9, <3>1
    <3>3. cmds[ch[u]] \in Commands BY <1>0, <1>2, <3>1
    <3> QED BY <3>2, <3>3, ObeyTyped
  <2> HIDE DEF iter, ch
  <2> QED BY <1>8, <2>1, <2>2, <2>3, FoldKeeps
<1>11. path \in [0 .. Len(cmds) -> Nodes]
  <2> HIDE DEF iter
  <2> QED BY <1>10
<1>12. path[0] = n /\ path[Len(cmds)] = iter[D]
  <2> HIDE DEF iter
  <2>1. 1 .. 0 = {} OBVIOUS
  <2> QED BY <1>0, <1>8, <2>1
<1>13. \A k \in 1 .. Len(cmds) : path[k] = Calibration!Obey(path[k - 1], cmds[k])
  <2> SUFFICES ASSUME NEW k \in 1 .. Len(cmds)
               PROVE  path[k] = Calibration!Obey(path[k - 1], cmds[k])
    OBVIOUS
  <2>0. k \in 1 .. Len(cmds) /\ Len(cmds) \in Nat /\ D = 1 .. Len(cmds) BY <1>0
  <2>1. 1 .. k \in SUBSET D /\ 1 .. k # {}
    <3> HIDE DEF D, iter, ch
    <3> QED BY <2>0, UpTo
  <2>2. ch[1 .. k] = k /\ (1 .. k) \ {k} = 1 .. (k - 1) BY <2>1, UpTo
  <2> HIDE DEF iter, ch
  <2>3. iter[1 .. k] = Calibration!Obey(iter[1 .. (k - 1)], cmds[k]) BY <1>9, <2>1, <2>2
  <2>4. k \in 0 .. Len(cmds) /\ k - 1 \in 0 .. Len(cmds) BY <1>0
  <2> QED BY <2>3, <2>4
<1> HIDE DEF iter, path
<1> QED BY <1>7, <1>11, <1>12, <1>13 DEF Carried

\* What the node is told to do, and what it does then.
LEMMA CommandTypes ==
  /\ \A c \in Chambers :
       /\ {Calibration!VentOpen(c), Calibration!VentShut(c), Calibration!HoldDuty(c),
           Calibration!HoldOff(c), Calibration!Hold(c)} \subseteq Commands
       /\ \A d \in {0, 1}, duty \in 0 .. 2 : Calibration!TestRun(d, c, duty) \in Commands
  /\ Calibration!TestStop \in Commands
BY DEF Calibration!VentOpen, Calibration!VentShut, Calibration!HoldDuty, Calibration!HoldOff,
       Calibration!Hold, Calibration!TestRun, Calibration!TestStop, Commands, Runs

LEMMA Obeyed ==
  ASSUME NEW n \in Nodes, NEW c \in Chambers
  PROVE  /\ Calibration!Obey(n, Calibration!VentOpen(c)) = Calibration!Vented(n, c, TRUE)
         /\ Calibration!Obey(n, Calibration!VentShut(c)) = Calibration!Vented(n, c, FALSE)
         /\ Calibration!Obey(n, Calibration!TestStop) = Calibration!TestStopped(n)
         /\ Calibration!Obey(n, Calibration!HoldDuty(c)) = [n EXCEPT !.holds = @ \cup {c}]
         /\ Calibration!Obey(n, Calibration!HoldOff(c)) = [n EXCEPT !.holds = @ \ {c}]
         /\ Calibration!Obey(n, Calibration!Hold(c))
              = [n EXCEPT !.holds = @ \ {c}, !.valves[c] = {}]
         /\ \A d, duty : Calibration!Obey(n, Calibration!TestRun(d, c, duty))
                           = Calibration!TestRan(n, [dir |-> d, ch |-> c, duty |-> duty])
BY DEF Calibration!Obey, Calibration!VentOpen, Calibration!VentShut, Calibration!TestStop,
       Calibration!HoldDuty, Calibration!HoldOff, Calibration!Hold, Calibration!TestRun

LEMMA Counted ==
  ASSUME NEW S
  PROVE  /\ Calibration!IsFiniteSet(S) <=> IsFiniteSet(S)
         /\ Calibration!Cardinality(S) = Cardinality(S)
BY DEF Calibration!IsFiniteSet, IsFiniteSet, Calibration!Cardinality, Cardinality

LEMMA RowsListed ==
  /\ Calibration!AllRows \in Seq(Chambers) /\ Len(Calibration!AllRows) \in Nat \ {0}
<1>1. IsFiniteSet(Chambers) /\ Chambers # {}
  BY StudyAssumption, Counted DEF Calibration!BatchParameters
<1>2. Cardinality(Chambers) \in Nat /\ ExistsBijection(1 .. Cardinality(Chambers), Chambers)
  BY <1>1, FS_CardinalityType
<1> DEFINE n == Cardinality(Chambers)
<1>3. PICK f \in [1 .. n -> Chambers] : Calibration!IsInjective(f) /\ n # 0
  <2>1. PICK g \in Bijection(1 .. n, Chambers) : TRUE BY <1>2 DEF ExistsBijection
  <2>2. /\ g \in [1 .. n -> Chambers] /\ \A a, b \in 1 .. n : g[a] = g[b] => a = b
        /\ \A c \in Chambers : \E i \in 1 .. n : g[i] = c
    BY <2>1 DEF Bijection, Injection, Surjection, IsInjective
  <2> HIDE DEF n
  <2>3. Calibration!IsInjective(g) BY <2>2 DEF Calibration!IsInjective
  <2>4. n # 0 BY <1>1, <2>2
  <2> QED BY <2>2, <2>3, <2>4
<1>4. Calibration!AllRows \in [1 .. n -> Chambers]
  BY <1>3, Counted DEF Calibration!AllRows, Calibration!SetToSeq
<1> HIDE DEF n
<1>5. n \in Nat BY <1>2 DEF n
<1> QED BY <1>3, <1>4, <1>5

LEMMA HaltTyped ==
  /\ Calibration!Halt \in Seq(Commands) /\ Len(Calibration!Halt) \in Nat \ {0}
  /\ Calibration!Halt[1] = Calibration!TestStop
  /\ \A i \in 1 .. Len(Calibration!Halt) :
       \E c \in Chambers : Calibration!Halt[i] \in {Calibration!TestStop, Calibration!HoldOff(c),
                                                    Calibration!VentShut(c), Calibration!Hold(c)}
<1> DEFINE n == Len(Calibration!AllRows)
           row(i) == ((i - 1) \div 4) + 1
           place(i) == ((i - 1) % 4) + 1
<1>1. n \in Nat \ {0} /\ 4 * n \in Nat \ {0} /\ \A r \in 1 .. n : Calibration!AllRows[r] \in Chambers
  BY RowsListed
<1>2. \A i \in 1 .. 4 * n : row(i) \in 1 .. n /\ place(i) \in 1 .. 4
  <2> HIDE DEF n
  <2> QED BY <1>1
<1>3. row(1) = 1 /\ place(1) = 1 OBVIOUS
<1> HIDE DEF row, place
<1>4. Calibration!Halt =
        [i \in 1 .. 4 * n |-> Calibration!StopRow(Calibration!AllRows[row(i)])[place(i)]]
  BY DEF Calibration!Halt, row, place
<1> HIDE DEF n
<1>5. \A c \in Chambers, p \in 1 .. 4 :
        /\ Calibration!StopRow(c)[p] \in {Calibration!TestStop, Calibration!HoldOff(c),
                                          Calibration!VentShut(c), Calibration!Hold(c)}
        /\ Calibration!StopRow(c)[1] = Calibration!TestStop
        /\ Calibration!StopRow(c)[p] \in Commands
  BY CommandTypes DEF Calibration!StopRow
<1>6. \A i \in 1 .. 4 * n :
        \E c \in Chambers : /\ Calibration!Halt[i] \in {Calibration!TestStop, Calibration!HoldOff(c),
                                                    Calibration!VentShut(c), Calibration!Hold(c)}
                            /\ Calibration!Halt[i] \in Commands
  BY <1>1, <1>2, <1>4, <1>5
<1>7. Calibration!Halt[1] = Calibration!TestStop BY <1>1, <1>3, <1>4, <1>5
<1>8. Calibration!Halt \in Seq(Commands) /\ Len(Calibration!Halt) = 4 * n
  BY <1>1, <1>4, <1>6
<1> QED BY <1>1, <1>6, <1>7, <1>8

LEMMA ObeyKeepsOff ==
  ASSUME NEW n \in Nodes, NEW c \in Chambers,
         NEW cmd \in {Calibration!TestStop, Calibration!HoldOff(c), Calibration!VentShut(c),
                      Calibration!Hold(c)}
  PROVE  /\ n.test = Calibration!Off => Calibration!Obey(n, cmd).test = Calibration!Off
         /\ cmd = Calibration!TestStop => Calibration!Obey(n, cmd).test = Calibration!Off
<1>1. CASE cmd = Calibration!TestStop
  BY <1>1, Obeyed, NodeFields DEF Calibration!TestStopped
<1>2. CASE cmd = Calibration!HoldOff(c) /\ cmd # Calibration!TestStop
  BY <1>2, NodeFields DEF Calibration!Obey, Calibration!HoldOff
<1>3. CASE cmd = Calibration!VentShut(c) /\ cmd # Calibration!TestStop
  <2>1. Calibration!Vented(n, c, FALSE).test = n.test BY NewNode
  <2>2. Calibration!Obey(n, cmd) = Calibration!Vented(n, c, FALSE) BY <1>3, Obeyed
  <2> QED BY <1>3, <2>1, <2>2
<1>4. CASE cmd = Calibration!Hold(c) /\ cmd # Calibration!TestStop
  <2>1. [n EXCEPT !.holds = @ \ {c}, !.valves[c] = {}].test = n.test BY NewNode
  <2>2. Calibration!Obey(n, cmd) = [n EXCEPT !.holds = @ \ {c}, !.valves[c] = {}]
    BY <1>4, Obeyed
  <2> QED BY <1>4, <2>1, <2>2
<1> QED BY <1>1, <1>2, <1>3, <1>4

\* The commands of _stop, when none is lost, end a test run.
LEMMA HaltEnds ==
  ASSUME NEW n \in Nodes
  PROVE  Calibration!FoldLeft(Calibration!Obey, n, Calibration!Halt).test = Calibration!Off
<1>1. PICK path : /\ Carried(path, n, Calibration!Halt)
                  /\ Calibration!FoldLeft(Calibration!Obey, n, Calibration!Halt)
                       = path[Len(Calibration!Halt)]
  BY HaltTyped, CommandsRun
<1> DEFINE N == Len(Calibration!Halt)
           F == {k \in 1 .. N : path[k].test # Calibration!Off}
<1>2. N \in Nat \ {0} BY HaltTyped
<1>3. ASSUME NEW k \in 1 .. N, k = 1 \/ path[k - 1].test = Calibration!Off
      PROVE  path[k].test = Calibration!Off
  <2>1. k - 1 \in 0 .. N BY <1>2
  <2>2. path[k - 1] \in Nodes /\ path[k] = Calibration!Obey(path[k - 1], Calibration!Halt[k])
    <3> HIDE DEF N
    <3> QED BY <1>1, <2>1 DEF Carried, N
  <2>3. PICK c \in Chambers : Calibration!Halt[k] \in {Calibration!TestStop, Calibration!HoldOff(c),
                                                    Calibration!VentShut(c), Calibration!Hold(c)}
    BY HaltTyped
  <2>4. k = 1 => Calibration!Halt[k] = Calibration!TestStop BY HaltTyped
  <2> QED BY <1>3, <2>2, <2>3, <2>4, ObeyKeepsOff
<1> SUFFICES ASSUME F # {} PROVE FALSE BY <1>1, <1>2
<1>4. F \subseteq Nat OBVIOUS
<1>5. PICK m \in F : \A y \in F : m <= y
  <2> HIDE DEF F
  <2> QED BY <1>4, LeastPlace
<1>6. m # 1 /\ m - 1 \notin F
  <2>1. m # 1 BY <1>2, <1>3
  <2>2. m \in Nat /\ ~(m <= m - 1) BY <1>4
  <2> HIDE DEF F
  <2> QED BY <1>5, <2>1, <2>2
<1> QED BY <1>3, <1>5, <1>6

LEMMA SendsTyped ==
  ASSUME node \in Nodes, hit \in BOOLEAN, NEW cmds \in Seq(Commands), Calibration!Sends(cmds)
  PROVE  node' \in Nodes /\ hit' \in BOOLEAN /\ (hit => hit')
<1>1. \A s \in Seq(Commands) : Calibration!FoldLeft(Calibration!Obey, node, s) \in Nodes
  <2> TAKE s \in Seq(Commands)
  <2>1. PICK path : /\ Carried(path, node, s)
                    /\ Calibration!FoldLeft(Calibration!Obey, node, s) = path[Len(s)]
    BY CommandsRun
  <2>2. Len(s) \in 0 .. Len(s) OBVIOUS
  <2> QED BY <2>1, <2>2 DEF Carried
<1>2. \A i \in DOMAIN cmds : Calibration!RemoveAt(cmds, i) \in Seq(Commands)
  BY DEF Calibration!RemoveAt
<1> QED BY <1>1, <1>2 DEF Calibration!Sends

LEMMA SendsOne ==
  ASSUME node \in Nodes, NEW a \in Commands, Calibration!Sends(<<a>>)
  PROVE  hit' \/ node' = Calibration!Obey(node, a)
<1>1. <<a>> \in Seq(Commands) /\ Len(<<a>>) = 1 OBVIOUS
<1>2. PICK path : /\ Carried(path, node, <<a>>)
                  /\ Calibration!FoldLeft(Calibration!Obey, node, <<a>>) = path[1]
  BY <1>1, CommandsRun
<1>3. path[1] = Calibration!Obey(node, a) BY <1>2 DEF Carried
<1>4. CASE Calibration!Silent /\ hit' = hit BY <1>4 DEF Calibration!Silent
<1> QED BY <1>2, <1>3, <1>4 DEF Calibration!Sends

LEMMA SendsTwo ==
  ASSUME node \in Nodes, NEW a \in Commands, NEW b \in Commands, Calibration!Sends(<<a, b>>)
  PROVE  hit' \/ node' = Calibration!Obey(Calibration!Obey(node, a), b)
<1>1. <<a, b>> \in Seq(Commands) /\ Len(<<a, b>>) = 2 OBVIOUS
<1>2. PICK path : /\ Carried(path, node, <<a, b>>)
                  /\ Calibration!FoldLeft(Calibration!Obey, node, <<a, b>>) = path[2]
  BY <1>1, CommandsRun
<1>3. path[1] = Calibration!Obey(node, a) /\ path[2] = Calibration!Obey(path[1], b)
  BY <1>2 DEF Carried
<1>4. CASE Calibration!Silent /\ hit' = hit BY <1>4 DEF Calibration!Silent
<1> QED BY <1>2, <1>3, <1>4 DEF Calibration!Sends

LEMMA SendsNone ==
  ASSUME node \in Nodes, Calibration!Sends(<<>>)
  PROVE  hit' \/ node' = node
<1>1. <<>> \in Seq(Commands) /\ Len(<<>>) = 0 OBVIOUS
<1>2. PICK path : /\ Carried(path, node, <<>>)
                  /\ Calibration!FoldLeft(Calibration!Obey, node, <<>>) = path[0]
  BY <1>1, CommandsRun
<1>3. path[0] = node BY <1>2 DEF Carried
<1> QED BY <1>2, <1>3 DEF Calibration!Sends, Calibration!Silent

LEMMA VentKeepsRun ==
  ASSUME NEW n \in Nodes, NEW c \in Chambers
  PROVE  /\ Calibration!Obey(n, Calibration!VentOpen(c)).test = n.test
         /\ Calibration!Obey(n, Calibration!VentOpen(c)).valves[c] = {0, 1}
<1>1. PICK t, v, w, h : n = [test |-> t, valves |-> v, vents |-> w, holds |-> h]
  BY NodeFields
<1>2. n.test = t /\ n.valves = v /\ v \in [Chambers -> SUBSET {0, 1}] BY <1>1, NodeFields
<1>3. /\ Calibration!Vented(n, c, TRUE).test = n.test
      /\ Calibration!Vented(n, c, TRUE).valves[c] = {0, 1}
  BY <1>1, <1>2 DEF Calibration!Vented, Calibration!Infl, Calibration!Defl
<1> QED BY <1>3, Obeyed

\* What a command changes of the node.
LEMMA Effects ==
  ASSUME NEW n \in Nodes, NEW c \in Chambers
  PROVE  /\ LET m == Calibration!Obey(n, Calibration!VentOpen(c))
            IN  m \in Nodes /\ m.test = n.test /\ m.valves[c] = {0, 1}
         /\ LET m == Calibration!Obey(n, Calibration!VentShut(c))
            IN  m \in Nodes /\ m.test = n.test /\ m.valves[c] = {} /\ c \notin m.vents
         /\ LET m == Calibration!Obey(n, Calibration!TestStop)
            IN  m \in Nodes /\ m.test = Calibration!Off /\ m.vents = n.vents /\ m.holds = n.holds
         /\ LET m == Calibration!Obey(n, Calibration!HoldDuty(c))
            IN  m \in Nodes /\ m.test = n.test /\ c \in m.holds /\ m.vents = n.vents
         /\ LET m == Calibration!Obey(n, Calibration!HoldOff(c))
            IN  m \in Nodes /\ m.test = n.test /\ c \notin m.holds
         /\ LET m == Calibration!Obey(n, Calibration!Hold(c))
            IN  m \in Nodes /\ m.test = n.test /\ c \notin m.holds /\ m.valves[c] = {}
<1>0. \A cmd \in {Calibration!VentOpen(c), Calibration!VentShut(c), Calibration!TestStop,
                  Calibration!HoldDuty(c), Calibration!HoldOff(c), Calibration!Hold(c)} :
        Calibration!Obey(n, cmd) \in Nodes
  BY CommandTypes, ObeyTyped
<1>1. PICK t, v, w, h : n = [test |-> t, valves |-> v, vents |-> w, holds |-> h]
  BY NodeFields
<1>2. /\ n.test = t /\ n.valves = v /\ n.vents = w /\ n.holds = h
      /\ v \in [Chambers -> SUBSET {0, 1}]
  BY <1>1, NodeFields
<1>4. /\ Calibration!Vented(n, c, FALSE).test = n.test
      /\ Calibration!Vented(n, c, FALSE).valves[c] = {}
      /\ Calibration!Vented(n, c, FALSE).vents = w \ {c}
  BY <1>1, <1>2 DEF Calibration!Vented, Calibration!Infl, Calibration!Defl
<1>5. /\ Calibration!TestStopped(n).test = Calibration!Off
      /\ Calibration!TestStopped(n).vents = w /\ Calibration!TestStopped(n).holds = h
  BY <1>1, <1>2 DEF Calibration!TestStopped
<1>6. /\ [n EXCEPT !.holds = @ \cup {c}].test = t /\ [n EXCEPT !.holds = @ \cup {c}].vents = w
      /\ [n EXCEPT !.holds = @ \cup {c}].holds = h \cup {c}
  BY <1>1, <1>2
<1>7. /\ [n EXCEPT !.holds = @ \ {c}].test = t
      /\ [n EXCEPT !.holds = @ \ {c}].holds = h \ {c}
  BY <1>1, <1>2
<1>8. /\ [n EXCEPT !.holds = @ \ {c}, !.valves[c] = {}].test = t
      /\ [n EXCEPT !.holds = @ \ {c}, !.valves[c] = {}].valves[c] = {}
      /\ [n EXCEPT !.holds = @ \ {c}, !.valves[c] = {}].holds = h \ {c}
  BY <1>1, <1>2
<1>11. /\ Calibration!Obey(n, Calibration!VentOpen(c)).test = n.test
       /\ Calibration!Obey(n, Calibration!VentOpen(c)).valves[c] = {0, 1}
  BY VentKeepsRun
<1>12. /\ Calibration!Obey(n, Calibration!VentShut(c)).test = n.test
       /\ Calibration!Obey(n, Calibration!VentShut(c)).valves[c] = {}
       /\ c \notin Calibration!Obey(n, Calibration!VentShut(c)).vents
  BY <1>4, Obeyed
<1>13. /\ Calibration!Obey(n, Calibration!TestStop).test = Calibration!Off
       /\ Calibration!Obey(n, Calibration!TestStop).vents = n.vents
       /\ Calibration!Obey(n, Calibration!TestStop).holds = n.holds
  BY <1>2, <1>5, Obeyed
<1>14. /\ Calibration!Obey(n, Calibration!HoldDuty(c)).test = n.test
       /\ Calibration!Obey(n, Calibration!HoldDuty(c)).vents = n.vents
       /\ c \in Calibration!Obey(n, Calibration!HoldDuty(c)).holds
  BY <1>2, <1>6, Obeyed
<1>15. /\ Calibration!Obey(n, Calibration!HoldOff(c)).test = n.test
       /\ c \notin Calibration!Obey(n, Calibration!HoldOff(c)).holds
  BY <1>2, <1>7, Obeyed
<1>16. /\ Calibration!Obey(n, Calibration!Hold(c)).test = n.test
       /\ c \notin Calibration!Obey(n, Calibration!Hold(c)).holds
       /\ Calibration!Obey(n, Calibration!Hold(c)).valves[c] = {}
  BY <1>2, <1>8, Obeyed
<1> QED BY <1>0, <1>11, <1>12, <1>13, <1>14, <1>15, <1>16

\* A test run: a fresh one opens one valve and drops every vent, one of the same
\* side and chamber changes nothing.
LEMMA RunEffects ==
  ASSUME NEW n \in Nodes, NEW r \in Runs
  PROVE  LET m == Calibration!Obey(n, [op |-> "run", run |-> r])
         IN  /\ m \in Nodes
             /\ n.test = Calibration!Off => /\ m.test = r /\ m.valves[r.ch] = {r.dir}
                                            /\ m.vents = {}
             /\ n.test = r => m = n
             /\ r.ch \notin n.vents => r.ch \notin m.vents
<1> DEFINE cmd == [op |-> "run", run |-> r]
<1>1. cmd \in Commands BY DEF Commands
<1>2. Calibration!Obey(n, cmd) = Calibration!TestRan(n, r) BY DEF Calibration!Obey
<1>3. r.ch \in Chambers /\ r.dir # -1 BY DEF Runs
<1>4. Calibration!Off.dir = -1 BY DEF Calibration!Off
<1>5. CASE n.test.dir = r.dir /\ n.test.ch = r.ch
  BY <1>1, <1>2, <1>3, <1>4, <1>5, ObeyTyped DEF Calibration!TestRan
<1>6. CASE ~(n.test.dir = r.dir /\ n.test.ch = r.ch)
  BY <1>1, <1>2, <1>3, <1>4, <1>6, ObeyTyped DEF Calibration!TestRan
<1> QED BY <1>5, <1>6

-----------------------------------------------------------------------------
(* What a calibration keeps, as long as nothing has gone wrong. *)

Phases == {"deflate", "prefill", "sweep", "downsweep", "hold_fill", "hold_servo", "hold_leak"}
Jobs   == [ch : Chambers, kind : Calibration!Kinds, queue : Seq(Specs), phase : Phases,
           idx : 1 .. 2, seen : 0 .. 4, still : BOOLEAN]

CalTyped ==
  /\ window \in {"open", "closed", "crashed"} /\ buttons \in BOOLEAN
  /\ honest \in BOOLEAN /\ clean \in BOOLEAN /\ hit \in BOOLEAN /\ (mode = "slow" => hit)
  /\ node \in Nodes /\ level \in [Chambers -> 0 .. 3]
  /\ pending \in Seq(Specs) /\ asked \in Seq(Specs)
  /\ job \in Jobs \cup {Calibration!NoJob}

\* The node as each phase of a job needs it: what the phase before has left, and
\* no dead-man takes away.
NodeReady(j, n) ==
  /\ j.phase = "deflate" => n.test = Calibration!Off /\ n.valves[j.ch] = {0, 1}
  /\ j.phase \in {"sweep", "downsweep"} => /\ n.test = Calibration!RunOf(j).run
                                           /\ n.valves[j.ch] = {n.test.dir}
  /\ j.phase = "hold_fill" => j.ch \notin n.vents
  /\ j.phase = "hold_servo" => /\ n.test = Calibration!Off
                               /\ j.ch \in n.holds /\ j.ch \notin n.vents
  /\ j.phase = "hold_leak" => /\ n.test = Calibration!Off
                              /\ j.ch \notin n.holds /\ n.valves[j.ch] = {}

\* A chamber being emptied has stopped where it was last read, and stays still
\* only when it is empty.
Emptied(j, l) ==
  j.phase = "deflate" => /\ j.seen # Calibration!Unseen => l[j.ch] = j.seen
                         /\ j.still => l[j.ch] = 0

Prepared ==
  /\ honest
  /\ job = Calibration!NoJob => node.test = Calibration!Off
  /\ job # Calibration!NoJob => clean /\ NodeReady(job, node) /\ Emptied(job, level)

CalSafe == Calibration!OneAtATime /\ Calibration!NothingSkipped
CalInv  == CalTyped /\ CalSafe /\ (window = "open" /\ ~hit => Prepared)

LEMMA JobFields ==
  ASSUME NEW j \in Jobs
  PROVE  /\ j = [ch |-> j.ch, kind |-> j.kind, queue |-> j.queue, phase |-> j.phase,
                 idx |-> j.idx, seen |-> j.seen, still |-> j.still]
         /\ j.ch \in Chambers /\ j.kind \in Calibration!Kinds /\ j.queue \in Seq(Specs)
         /\ j.phase \in Phases /\ j.idx \in 1 .. 2 /\ j.seen \in 0 .. 4 /\ j.still \in BOOLEAN
         /\ j # Calibration!NoJob /\ j.phase # "none"
<1>1. j.phase \in Phases BY DEF Jobs
<1>2. j.phase # "none" BY <1>1 DEF Phases
<1>3. Calibration!NoJob.phase = "none" BY DEF Calibration!NoJob
<1> QED BY <1>2, <1>3 DEF Jobs

LEMMA NoJobPhase == Calibration!NoJob.phase = "none" /\ "none" \notin Phases
BY DEF Calibration!NoJob, Phases

LEMMA Entered ==
  ASSUME NEW j \in Jobs, NEW p \in Phases
  PROVE  LET k == Calibration!Enter(j, p)
         IN  /\ k \in Jobs /\ k.ch = j.ch /\ k.kind = j.kind /\ k.queue = j.queue
             /\ k.phase = p /\ k.idx = j.idx /\ k.seen = Calibration!Unseen /\ ~k.still
<1>1. PICK c, m, q, f, i, s, t : j = [ch |-> c, kind |-> m, queue |-> q, phase |-> f,
                                      idx |-> i, seen |-> s, still |-> t]
  BY JobFields
<1>2. /\ c \in Chambers /\ m \in Calibration!Kinds /\ q \in Seq(Specs) /\ i \in 1 .. 2
      /\ j.ch = c /\ j.kind = m /\ j.queue = q /\ j.idx = i
  BY <1>1, JobFields
<1>3. LET k == Calibration!Enter(j, p)
      IN  /\ k.ch = c /\ k.kind = m /\ k.queue = q /\ k.phase = p /\ k.idx = i
          /\ k.seen = 4 /\ k.still = FALSE
  BY <1>1 DEF Calibration!Enter, Calibration!Unseen
<1>4. Calibration!Enter(j, p) \in Jobs
  <2>1. \A x \in 0 .. 4, y \in BOOLEAN : [j EXCEPT !.phase = p, !.seen = x, !.still = y] \in Jobs
    BY <1>1, <1>2 DEF Jobs
  <2>2. 4 \in 0 .. 4 OBVIOUS
  <2> QED BY <2>1, <2>2 DEF Calibration!Enter, Calibration!Unseen
<1> QED BY <1>2, <1>3, <1>4 DEF Calibration!Unseen

LEMMA EnteredNext ==
  ASSUME NEW j \in Jobs, NEW p \in Phases, j.idx + 1 \in 1 .. 2
  PROVE  LET k == [Calibration!Enter(j, p) EXCEPT !.idx = @ + 1]
         IN  /\ k \in Jobs /\ k.ch = j.ch /\ k.kind = j.kind /\ k.queue = j.queue
             /\ k.phase = p /\ k.idx = j.idx + 1 /\ k.seen = Calibration!Unseen /\ ~k.still
<1>1. PICK e \in Jobs : e = Calibration!Enter(j, p) BY Entered
<1>2. e.ch = j.ch /\ e.kind = j.kind /\ e.queue = j.queue /\ e.phase = p /\ e.idx = j.idx
      /\ e.seen = Calibration!Unseen /\ ~e.still
  BY <1>1, Entered
<1>3. PICK c, m, q, f, i, s, t : e = [ch |-> c, kind |-> m, queue |-> q, phase |-> f,
                                      idx |-> i, seen |-> s, still |-> t]
  BY JobFields
<1>4. /\ e.ch = c /\ e.kind = m /\ e.queue = q /\ e.phase = f /\ e.idx = i /\ e.seen = s
      /\ e.still = t
  BY <1>3
<1>5. [e EXCEPT !.idx = @ + 1] = [ch |-> c, kind |-> m, queue |-> q, phase |-> f,
                                  idx |-> i + 1, seen |-> s, still |-> t]
  BY <1>3
<1>6. [e EXCEPT !.idx = @ + 1] \in Jobs
  <2>1. c \in Chambers /\ m \in Calibration!Kinds /\ q \in Seq(Specs) /\ f \in Phases
        /\ i + 1 \in 1 .. 2 /\ s \in 0 .. 4 /\ t \in BOOLEAN
    BY <1>2, <1>4, JobFields
  <2> QED BY <1>5, <2>1 DEF Jobs
<1>7. LET k == [e EXCEPT !.idx = @ + 1]
      IN  /\ k.ch = c /\ k.kind = m /\ k.queue = q /\ k.phase = f /\ k.idx = i + 1
          /\ k.seen = s /\ k.still = t
  BY <1>5
<1> QED BY <1>1, <1>2, <1>4, <1>6, <1>7

LEMMA FedJob ==
  ASSUME NEW j \in Jobs, NEW v \in 0 .. 3
  PROVE  LET k == Calibration!Fed(j, v)
         IN  /\ k \in Jobs /\ k.ch = j.ch /\ k.kind = j.kind /\ k.queue = j.queue
             /\ k.phase = j.phase /\ k.idx = j.idx
             /\ j.phase = "deflate" => /\ k.seen = (IF j.seen < v THEN j.seen ELSE v)
                                       /\ k.still <=> v >= j.seen
<1>1. PICK c, m, q, f, i, s, t : j = [ch |-> c, kind |-> m, queue |-> q, phase |-> f,
                                      idx |-> i, seen |-> s, still |-> t]
  BY JobFields
<1>2. /\ c \in Chambers /\ m \in Calibration!Kinds /\ q \in Seq(Specs) /\ f \in Phases
      /\ i \in 1 .. 2 /\ s \in 0 .. 4
      /\ j.ch = c /\ j.kind = m /\ j.queue = q /\ j.phase = f /\ j.idx = i /\ j.seen = s
  BY <1>1, JobFields
<1> DEFINE new == IF f \in {"deflate", "downsweep"} /\ s < v THEN s ELSE v
<1> DEFINE set == Calibration!Settled(j, v)
<1>5. set \in BOOLEAN /\ (f = "deflate" => (set <=> v >= s))
  <2>1. CASE f \in {"deflate", "downsweep"}
    <3>1. set = (v >= j.seen) BY <1>2, <2>1 DEF Calibration!Settled
    <3> HIDE DEF set
    <3>2. v >= j.seen <=> v >= s BY <1>2
    <3>3. (v >= j.seen) \in BOOLEAN OBVIOUS
    <3> QED BY <3>1, <3>2, <3>3, Zenon
  <2>2. CASE f = "hold_leak" BY <1>2, <2>2 DEF Calibration!Settled
  <2>3. CASE f \notin {"deflate", "downsweep", "hold_leak"}
    <3>1. set = (v = j.seen) BY <1>2, <2>3 DEF Calibration!Settled
    <3> HIDE DEF set
    <3> QED BY <2>3, <3>1
  <2> QED BY <2>1, <2>2, <2>3
<1>4. new \in 0 .. 4 BY <1>2
<1>6. Calibration!Fed(j, v) = [j EXCEPT !.still = set, !.seen = new]
  BY <1>2 DEF Calibration!Fed
<1>8. f = "deflate" => new = IF s < v THEN s ELSE v OBVIOUS
<1> HIDE DEF new, set
<1>3. LET k == [j EXCEPT !.still = set, !.seen = new]
      IN  /\ k.ch = c /\ k.kind = m /\ k.queue = q /\ k.phase = f /\ k.idx = i
          /\ k.seen = new /\ k.still = set
  BY <1>1
<1>7. [j EXCEPT !.still = set, !.seen = new] \in Jobs
  BY <1>1, <1>2, <1>4, <1>5 DEF Jobs
<1> QED BY <1>2, <1>3, <1>5, <1>6, <1>7, <1>8

LEMMA RunOfJob ==
  ASSUME NEW j \in Jobs
  PROVE  /\ Calibration!RunOf(j).run \in Runs /\ Calibration!RunOf(j).run.ch = j.ch
         /\ Calibration!RunOf(j) = [op |-> "run", run |-> Calibration!RunOf(j).run]
         /\ Calibration!RunOf(j) \in Commands
<1>1. Calibration!Duty(j) \in 0 .. 2
  <2>1. j.idx \in 1 .. 2 BY JobFields
  <2> QED BY <2>1 DEF Calibration!Duty
<1>2. j.ch \in Chambers BY JobFields
<1> DEFINE d == IF j.phase = "downsweep" THEN Calibration!Defl ELSE Calibration!Infl
           r == [dir |-> d, ch |-> j.ch, duty |-> Calibration!Duty(j)]
<1>3. d \in {0, 1} BY DEF Calibration!Infl, Calibration!Defl
<1>4. Calibration!RunOf(j) = [op |-> "run", run |-> r]
  BY DEF Calibration!RunOf, Calibration!TestRun
<1> HIDE DEF d
<1>5. r \in Runs /\ r.ch = j.ch BY <1>1, <1>2, <1>3 DEF Runs
<1> HIDE DEF r
<1> QED BY <1>4, <1>5 DEF Commands

LEMMA Appended ==
  ASSUME NEW S, NEW a \in S, NEW b \in S
  PROVE  Append(<<a>>, b) = <<a, b>>
<1>1. <<a>> \in Seq(S) /\ Len(<<a>>) = 1 /\ <<a, b>> \in Seq(S) /\ Len(<<a, b>>) = 2
  OBVIOUS
<1>2. Append(<<a>>, b) \in Seq(S) /\ Len(Append(<<a>>, b)) = 2 BY <1>1, AppendProperties
<1>3. Append(<<a>>, b)[1] = a /\ Append(<<a>>, b)[2] = b BY <1>1, AppendProperties
<1>4. \A i \in 1 .. 2 : Append(<<a>>, b)[i] = <<a, b>>[i] BY <1>3
<1> QED BY <1>1, <1>2, <1>4, SeqEqual

LEMMA SpecsSeq ==
  ASSUME NEW c \in Chambers, NEW k \in Calibration!Kinds, NEW q \in Seq(Specs)
  PROVE  /\ <<[ch |-> c, kind |-> k]>> \o q \in Seq(Specs)
         /\ Tail(<<[ch |-> c, kind |-> k]>> \o q) = q
<1> DEFINE x == [ch |-> c, kind |-> k]
<1>1. x \in Specs BY DEF Specs
<1> HIDE DEF x
<1>2. <<x>> \o q \in Seq(Specs) /\ Tail(<<x>> \o q) = q BY <1>1
<1> QED BY <1>2 DEF x

\* The job in hand goes on, whatever phase it is in.
LEMMA JobGoesOn ==
  ASSUME CalSafe, job \in Jobs, job' \in Jobs, job'.ch = job.ch, job'.kind = job.kind,
         job'.queue = job.queue, UNCHANGED <<window, buttons, asked>>
  PROVE  CalSafe'
<1>1. job # Calibration!NoJob /\ job' # Calibration!NoJob BY JobFields
<1>2. Calibration!OneAtATime' BY <1>1 DEF CalSafe, Calibration!OneAtATime
<1>3. Calibration!NothingSkipped' BY <1>1 DEF CalSafe, Calibration!NothingSkipped
<1> QED BY <1>2, <1>3 DEF CalSafe

\* The next of the batch follows, or the buttons come back.
LEMMA JobEnds ==
  ASSUME CalTyped, CalSafe, job \in Jobs, NEW j \in Jobs, j.ch = job.ch, j.kind = job.kind,
         j.queue = job.queue, Calibration!FinishJob(j), UNCHANGED window
  PROVE  /\ pending' \in Seq(Specs) /\ asked' \in Seq(Specs) /\ buttons' \in BOOLEAN
         /\ clean' = TRUE /\ job' = Calibration!NoJob /\ CalSafe'
<1>1. job # Calibration!NoJob /\ j.queue \in Seq(Specs) BY JobFields
<1>2. pending' = j.queue /\ job' = Calibration!NoJob /\ clean' = TRUE
      /\ buttons' = (j.queue = <<>>)
      /\ asked' = IF asked = <<>> THEN asked ELSE Tail(asked)
  BY DEF Calibration!FinishJob
<1>3. asked' \in Seq(Specs) BY <1>2 DEF CalTyped
<1>4. Calibration!OneAtATime' BY <1>2 DEF Calibration!OneAtATime
<1>5. window = "open" /\ asked # <<>> => Tail(asked) = j.queue
  <2>1. window = "open" /\ asked # <<>> =>
          asked = <<[ch |-> job.ch, kind |-> job.kind]>> \o job.queue
    BY <1>1 DEF CalSafe, Calibration!NothingSkipped
  <2>2. Tail(<<[ch |-> job.ch, kind |-> job.kind]>> \o job.queue) = job.queue
    BY JobFields, SpecsSeq
  <2> QED BY <2>1, <2>2
<1>6. Calibration!NothingSkipped' BY <1>2, <1>5 DEF Calibration!NothingSkipped
<1>7. buttons' \in BOOLEAN BY <1>2
<1> QED BY <1>1, <1>2, <1>3, <1>4, <1>6, <1>7 DEF CalSafe

\* The commands of each phase are commands.
LEMMA PhaseCommands ==
  ASSUME NEW j \in Jobs
  PROVE  /\ Calibration!VentOpen(j.ch) \in Commands /\ Calibration!VentShut(j.ch) \in Commands
         /\ Calibration!HoldDuty(j.ch) \in Commands /\ Calibration!HoldOff(j.ch) \in Commands
         /\ Calibration!Hold(j.ch) \in Commands /\ Calibration!TestStop \in Commands
         /\ Calibration!RunOf(j) \in Commands
BY JobFields, CommandTypes, RunOfJob

LEMMA NextPhase ==
  ASSUME NEW j
  PROVE  /\ Calibration!AfterVent(j) \in {"prefill", "hold_fill", "sweep"}
         /\ Calibration!AfterVent(j) \in Phases
BY DEF Calibration!AfterVent, Phases

Same(j) == j.ch = job.ch /\ j.kind = job.kind /\ j.queue = job.queue /\ j.phase = job.phase

\* Each way on, as what it does to the job and which commands it sends.
LEMMA BeginSteps ==
  ASSUME NEW j \in Jobs, NEW p \in Phases, NEW cmd \in Commands, Calibration!Begin(j, p, <<cmd>>)
  PROVE  /\ job' \in Jobs /\ job'.ch = j.ch /\ job'.kind = j.kind /\ job'.queue = j.queue
         /\ job'.phase = p /\ job'.seen = Calibration!Unseen /\ ~job'.still
         /\ Calibration!Sends(<<cmd, IF p = "hold_servo" THEN Calibration!HoldDuty(j.ch)
                                     ELSE Calibration!RunOf(job')>>)
         /\ clean' = (p = "sweep" => level[j.ch] = 0)
         /\ UNCHANGED <<pending, buttons, honest, asked>>
<1>1. job' = Calibration!Enter(j, p) BY DEF Calibration!Begin
<1>2. \A x \in Commands : Append(<<cmd>>, x) = <<cmd, x>> BY Appended
<1>5. Calibration!HoldDuty(j.ch) \in Commands /\ Calibration!RunOf(job') \in Commands
  BY <1>1, Entered, PhaseCommands
<1>3. Calibration!Sends(<<cmd, IF p = "hold_servo" THEN Calibration!HoldDuty(j.ch)
                               ELSE Calibration!RunOf(job')>>)
  BY <1>2, <1>5 DEF Calibration!Begin
<1>4. clean' = (p = "sweep" => level[j.ch] = 0) /\ UNCHANGED <<pending, buttons, honest, asked>>
  BY DEF Calibration!Begin
<1> QED BY <1>1, <1>3, <1>4, Entered

LEMMA BeginTyped ==
  ASSUME CalTyped, CalSafe, job \in Jobs, NEW j \in Jobs, Same(j), NEW p \in Phases,
         NEW cmd \in Commands, Calibration!Begin(j, p, <<cmd>>),
         UNCHANGED <<window, mode>>, level' \in [Chambers -> 0 .. 3]
  PROVE  CalTyped' /\ CalSafe'
<1> DEFINE x == IF p = "hold_servo" THEN Calibration!HoldDuty(j.ch) ELSE Calibration!RunOf(job')
<1>1. job' \in Jobs BY BeginSteps
<1>2. x \in Commands BY <1>1, PhaseCommands
<1>3. Calibration!Sends(<<cmd, x>>) BY BeginSteps
<1> HIDE DEF x
<1>4. <<cmd, x>> \in Seq(Commands) BY <1>2
<1>5. node' \in Nodes /\ hit' \in BOOLEAN /\ (hit => hit')
  BY <1>3, <1>4, SendsTyped DEF CalTyped
<1>6. CalSafe' BY <1>1, BeginSteps, JobGoesOn DEF Same
<1>7. clean' \in BOOLEAN BY BeginSteps
<1> QED BY <1>1, <1>5, <1>6, <1>7, BeginSteps DEF CalTyped

LEMMA SweepSteps ==
  ASSUME NEW j \in Jobs, NEW ok, Calibration!OnSweepDone(j, ok)
  PROVE  /\ Calibration!Sends(<<Calibration!TestStop, Calibration!VentOpen(j.ch)>>)
         /\ honest' = (honest /\ ok)
         /\ \/ /\ job' \in Jobs /\ job'.ch = j.ch /\ job'.kind = j.kind /\ job'.queue = j.queue
               /\ job'.phase = "deflate" /\ job'.seen = Calibration!Unseen /\ ~job'.still
               /\ clean' = TRUE /\ UNCHANGED <<pending, buttons, asked>>
            \/ Calibration!FinishJob(j)
<1>1. CASE j.kind = "duty" /\ j.idx + 1 \in Calibration!Duties
  <2>1. j.idx + 1 \in 1 .. 2 BY <1>1 DEF Calibration!Duties
  <2>2. "deflate" \in Phases BY DEF Phases
  <2>3. /\ job' = [Calibration!Enter(j, "deflate") EXCEPT !.idx = @ + 1]
        /\ clean' = TRUE /\ UNCHANGED <<pending, buttons, asked>>
        /\ Calibration!Sends(<<Calibration!TestStop, Calibration!VentOpen(j.ch)>>)
        /\ honest' = (honest /\ ok)
    BY <1>1 DEF Calibration!OnSweepDone, Calibration!Record
  <2>4. LET k == [Calibration!Enter(j, "deflate") EXCEPT !.idx = @ + 1]
        IN  /\ k \in Jobs /\ k.ch = j.ch /\ k.kind = j.kind /\ k.queue = j.queue
            /\ k.phase = "deflate" /\ k.seen = Calibration!Unseen /\ ~k.still
    BY <2>1, <2>2, EnteredNext
  <2> QED BY <2>3, <2>4
<1>2. CASE ~(j.kind = "duty" /\ j.idx + 1 \in Calibration!Duties)
  BY <1>2 DEF Calibration!OnSweepDone, Calibration!Record
<1> QED BY <1>1, <1>2

LEMMA SweepTyped ==
  ASSUME CalTyped, CalSafe, job \in Jobs, NEW j \in Jobs, Same(j), NEW ok \in BOOLEAN,
         Calibration!OnSweepDone(j, ok), UNCHANGED <<window, mode>>,
         level' \in [Chambers -> 0 .. 3]
  PROVE  CalTyped' /\ CalSafe'
<1>1. Calibration!VentOpen(j.ch) \in Commands /\ Calibration!TestStop \in Commands
  BY PhaseCommands
<1> DEFINE x == Calibration!VentOpen(j.ch)
           y == Calibration!TestStop
<1>2. Calibration!Sends(<<y, x>>) BY SweepSteps
<1> HIDE DEF x, y
<1>3. <<y, x>> \in Seq(Commands) BY <1>1 DEF x, y
<1>4. node' \in Nodes /\ hit' \in BOOLEAN /\ (hit => hit')
  BY <1>2, <1>3, SendsTyped DEF CalTyped
<1>5. honest' \in BOOLEAN BY SweepSteps
<1>6. CASE job' \in Jobs /\ UNCHANGED <<pending, buttons, asked>> /\ clean' = TRUE
           /\ job'.ch = j.ch /\ job'.kind = j.kind /\ job'.queue = j.queue
  <2>1. CalSafe' BY <1>6, JobGoesOn DEF Same
  <2> QED BY <1>4, <1>5, <1>6, <2>1 DEF CalTyped
<1>7. CASE Calibration!FinishJob(j)
  BY <1>4, <1>5, <1>7, JobEnds DEF CalTyped, Same
<1> QED BY <1>6, <1>7, SweepSteps

LEMMA HoldPointSteps ==
  ASSUME NEW j \in Jobs, NEW ok, Calibration!FinishHoldPoint(j, ok)
  PROVE  /\ Calibration!Sends(<<Calibration!HoldOff(j.ch), Calibration!Hold(j.ch)>>)
         /\ honest' = (honest /\ ok)
         /\ job' \in Jobs /\ job'.ch = j.ch /\ job'.kind = j.kind /\ job'.queue = j.queue
         /\ job'.phase = "hold_leak" /\ job'.seen = Calibration!Unseen /\ ~job'.still
         /\ clean' = TRUE /\ UNCHANGED <<pending, buttons, asked>>
<1>1. "hold_leak" \in Phases BY DEF Phases
<1> QED BY <1>1, Entered DEF Calibration!FinishHoldPoint, Calibration!Record

LEMMA HoldPointTyped ==
  ASSUME CalTyped, CalSafe, job \in Jobs, NEW j \in Jobs, Same(j), NEW ok \in BOOLEAN,
         Calibration!FinishHoldPoint(j, ok), UNCHANGED <<window, mode>>,
         level' \in [Chambers -> 0 .. 3]
  PROVE  CalTyped' /\ CalSafe'
<1> DEFINE x == Calibration!HoldOff(j.ch)
           y == Calibration!Hold(j.ch)
<1>1. x \in Commands /\ y \in Commands BY PhaseCommands
<1>2. Calibration!Sends(<<x, y>>) BY HoldPointSteps
<1> HIDE DEF x, y
<1>3. <<x, y>> \in Seq(Commands) BY <1>1
<1>4. node' \in Nodes /\ hit' \in BOOLEAN /\ (hit => hit')
  BY <1>2, <1>3, SendsTyped DEF CalTyped
<1>5. honest' \in BOOLEAN BY HoldPointSteps
<1>6. CalSafe' BY HoldPointSteps, JobGoesOn DEF Same
<1> QED BY <1>4, <1>5, <1>6, HoldPointSteps DEF CalTyped

LEMMA LeakPointSteps ==
  ASSUME NEW j \in Jobs, NEW ok, Calibration!FinishLeakPoint(j, ok)
  PROVE  /\ honest' \in {honest, honest /\ ok}
         /\ \/ /\ Calibration!Sends(<<Calibration!RunOf(job')>>)
               /\ job' \in Jobs /\ job'.ch = j.ch /\ job'.kind = j.kind /\ job'.queue = j.queue
               /\ job'.phase = "hold_fill" /\ job'.seen = Calibration!Unseen /\ ~job'.still
               /\ clean' = TRUE /\ UNCHANGED <<pending, buttons, asked>>
            \/ Calibration!Sends(<<Calibration!VentOpen(j.ch)>>) /\ Calibration!FinishJob(j)
<1>0. honest' \in {honest, honest /\ ok}
  BY DEF Calibration!FinishLeakPoint, Calibration!Record
<1>1. CASE j.idx + 1 \in Calibration!Plateaus
  <2>1. j.idx + 1 \in 1 .. 2 BY <1>1 DEF Calibration!Plateaus
  <2>2. "hold_fill" \in Phases BY DEF Phases
  <2>3. /\ job' = [Calibration!Enter(j, "hold_fill") EXCEPT !.idx = @ + 1]
        /\ clean' = TRUE /\ UNCHANGED <<pending, buttons, asked>>
        /\ Calibration!Sends(<<Calibration!RunOf(job')>>)
    BY <1>1 DEF Calibration!FinishLeakPoint
  <2>4. LET k == [Calibration!Enter(j, "hold_fill") EXCEPT !.idx = @ + 1]
        IN  /\ k \in Jobs /\ k.ch = j.ch /\ k.kind = j.kind /\ k.queue = j.queue
            /\ k.phase = "hold_fill" /\ k.seen = Calibration!Unseen /\ ~k.still
    BY <2>1, <2>2, EnteredNext
  <2> QED BY <1>0, <2>3, <2>4
<1>2. CASE j.idx + 1 \notin Calibration!Plateaus
  BY <1>0, <1>2 DEF Calibration!FinishLeakPoint
<1> QED BY <1>1, <1>2

LEMMA LeakPointTyped ==
  ASSUME CalTyped, CalSafe, job \in Jobs, NEW j \in Jobs, Same(j), NEW ok \in BOOLEAN,
         Calibration!FinishLeakPoint(j, ok), UNCHANGED <<window, mode>>,
         level' \in [Chambers -> 0 .. 3]
  PROVE  CalTyped' /\ CalSafe'
<1>1. honest' \in BOOLEAN BY LeakPointSteps DEF CalTyped
<1>2. \A x \in Commands : Calibration!Sends(<<x>>) =>
        node' \in Nodes /\ hit' \in BOOLEAN /\ (hit => hit')
  <2> SUFFICES ASSUME NEW x \in Commands, Calibration!Sends(<<x>>)
               PROVE  node' \in Nodes /\ hit' \in BOOLEAN /\ (hit => hit')
    OBVIOUS
  <2>1. <<x>> \in Seq(Commands) OBVIOUS
  <2> QED BY <2>1, SendsTyped DEF CalTyped
<1>3. CASE /\ Calibration!Sends(<<Calibration!RunOf(job')>>)
           /\ job' \in Jobs /\ job'.ch = j.ch /\ job'.kind = j.kind /\ job'.queue = j.queue
           /\ clean' = TRUE /\ UNCHANGED <<pending, buttons, asked>>
  <2>1. CalSafe' BY <1>3, JobGoesOn DEF Same
  <2>2. Calibration!RunOf(job') \in Commands BY <1>3, PhaseCommands
  <2>3. node' \in Nodes /\ hit' \in BOOLEAN /\ (hit => hit') BY <1>2, <1>3, <2>2
  <2> QED BY <1>1, <1>3, <2>1, <2>3 DEF CalTyped
<1>4. CASE Calibration!Sends(<<Calibration!VentOpen(j.ch)>>) /\ Calibration!FinishJob(j)
  <2>1. Calibration!VentOpen(j.ch) \in Commands BY PhaseCommands
  <2>2. node' \in Nodes /\ hit' \in BOOLEAN /\ (hit => hit') BY <1>2, <1>4, <2>1
  <2> QED BY <1>1, <1>4, <2>2, JobEnds DEF CalTyped, Same
<1> QED BY <1>3, <1>4, LeakPointSteps

LEMMA AdvanceTyped ==
  ASSUME CalTyped, CalSafe, job \in Jobs, NEW j \in Jobs, Same(j), NEW ok \in BOOLEAN,
         Calibration!Advance(j, ok), UNCHANGED <<window, mode>>,
         level' \in [Chambers -> 0 .. 3]
  PROVE  CalTyped' /\ CalSafe'
<1>1. CASE Calibration!Begin(j, Calibration!AfterVent(j), <<Calibration!VentShut(j.ch)>>)
  BY <1>1, NextPhase, PhaseCommands, BeginTyped
<1>2. CASE Calibration!Begin(j, "downsweep", <<Calibration!TestStop>>)
  BY <1>2, PhaseCommands, BeginTyped DEF Phases
<1>3. CASE Calibration!Begin(j, "hold_servo", <<Calibration!TestStop>>)
  BY <1>3, PhaseCommands, BeginTyped DEF Phases
<1>4. CASE Calibration!OnSweepDone(j, ok) BY <1>4, SweepTyped
<1>5. CASE Calibration!FinishHoldPoint(j, ok) BY <1>5, HoldPointTyped
<1>6. CASE Calibration!FinishLeakPoint(j, ok) BY <1>6, LeakPointTyped
<1> QED BY <1>1, <1>2, <1>3, <1>4, <1>5, <1>6 DEF Calibration!Advance

\* What the phases leave behind: each of them, with no command lost, leaves the
\* node as the next one needs it.
Calm(j, ok) ==
  /\ CalTyped /\ honest /\ ok /\ ~hit' /\ job \in Jobs
  /\ NodeReady(j, node) /\ (j.phase = "deflate" => level[j.ch] = 0)

LEMMA FromVent ==
  ASSUME NEW j \in Jobs, NEW ok, Calm(j, ok), j.phase = "deflate",
         Calibration!Begin(j, Calibration!AfterVent(j), <<Calibration!VentShut(j.ch)>>)
  PROVE  Prepared'
<1> DEFINE p == Calibration!AfterVent(j)
           c == j.ch
           mid == Calibration!Obey(node, Calibration!VentShut(c))
           r == Calibration!RunOf(job').run
<1>1. /\ job' \in Jobs /\ job'.ch = c /\ job'.phase = p /\ job'.seen = Calibration!Unseen
      /\ ~job'.still /\ clean' = (p = "sweep" => level[j.ch] = 0) /\ honest' = honest
      /\ Calibration!Sends(<<Calibration!VentShut(c), Calibration!RunOf(job')>>)
  BY NextPhase, PhaseCommands, BeginSteps
<1>2. node' = Calibration!Obey(mid, Calibration!RunOf(job'))
  BY <1>1, PhaseCommands, SendsTwo DEF Calm, CalTyped
<1>3. c \in Chambers /\ node \in Nodes BY JobFields DEF Calm, CalTyped
<1>4. mid \in Nodes /\ mid.test = Calibration!Off /\ c \notin mid.vents
  BY <1>3, Effects DEF Calm, NodeReady
<1>5. r \in Runs /\ r.ch = c /\ Calibration!RunOf(job') = [op |-> "run", run |-> r]
  BY <1>1, RunOfJob
<1> HIDE DEF mid, r, c
<1>6. node'.test = r /\ node'.valves[c] = {r.dir} /\ c \notin node'.vents
  BY <1>2, <1>4, <1>5, RunEffects
<1>7. p \in {"prefill", "hold_fill", "sweep"} BY NextPhase
<1>8. NodeReady(job', node') BY <1>1, <1>6, <1>7 DEF NodeReady, r
<1>9. Emptied(job', level') BY <1>1, <1>7 DEF Emptied
<1>10. honest' /\ clean' /\ job' # Calibration!NoJob
  BY <1>1, JobFields DEF Calm
<1> QED BY <1>8, <1>9, <1>10 DEF Prepared

LEMMA FromPrefill ==
  ASSUME NEW j \in Jobs, NEW ok, Calm(j, ok), j.phase = "prefill",
         Calibration!Begin(j, "downsweep", <<Calibration!TestStop>>)
  PROVE  Prepared'
<1> DEFINE c == j.ch
           mid == Calibration!Obey(node, Calibration!TestStop)
           r == Calibration!RunOf(job').run
<1>1. /\ job' \in Jobs /\ job'.ch = c /\ job'.phase = "downsweep"
      /\ clean' = TRUE /\ honest' = honest
      /\ Calibration!Sends(<<Calibration!TestStop, Calibration!RunOf(job')>>)
  BY PhaseCommands, BeginSteps DEF Phases
<1>2. node' = Calibration!Obey(mid, Calibration!RunOf(job'))
  BY <1>1, PhaseCommands, SendsTwo DEF Calm, CalTyped
<1>3. c \in Chambers /\ node \in Nodes BY JobFields DEF Calm, CalTyped
<1>4. mid \in Nodes /\ mid.test = Calibration!Off BY <1>3, Effects
<1>5. r \in Runs /\ r.ch = c /\ Calibration!RunOf(job') = [op |-> "run", run |-> r]
  BY <1>1, RunOfJob
<1> HIDE DEF mid, r, c
<1>6. node'.test = r /\ node'.valves[c] = {r.dir} BY <1>2, <1>4, <1>5, RunEffects
<1>8. NodeReady(job', node') BY <1>1, <1>6 DEF NodeReady, r
<1>9. Emptied(job', level') BY <1>1 DEF Emptied
<1>10. honest' /\ clean' /\ job' # Calibration!NoJob BY <1>1, JobFields DEF Calm
<1> QED BY <1>8, <1>9, <1>10 DEF Prepared

LEMMA FromHoldFill ==
  ASSUME NEW j \in Jobs, NEW ok, Calm(j, ok), j.phase = "hold_fill",
         Calibration!Begin(j, "hold_servo", <<Calibration!TestStop>>)
  PROVE  Prepared'
<1> DEFINE c == j.ch
           mid == Calibration!Obey(node, Calibration!TestStop)
<1>1. /\ job' \in Jobs /\ job'.ch = c /\ job'.phase = "hold_servo"
      /\ clean' = TRUE /\ honest' = honest
      /\ Calibration!Sends(<<Calibration!TestStop, Calibration!HoldDuty(c)>>)
  BY PhaseCommands, BeginSteps DEF Phases
<1>2. node' = Calibration!Obey(mid, Calibration!HoldDuty(c))
  BY <1>1, PhaseCommands, SendsTwo DEF Calm, CalTyped
<1>3. c \in Chambers /\ node \in Nodes /\ c \notin node.vents
  BY JobFields DEF Calm, CalTyped, NodeReady
<1>4. mid \in Nodes /\ mid.test = Calibration!Off /\ c \notin mid.vents BY <1>3, Effects
<1> HIDE DEF mid, c
<1>6. node'.test = Calibration!Off /\ c \in node'.holds /\ c \notin node'.vents
  BY <1>2, <1>3, <1>4, Effects
<1>8. NodeReady(job', node') BY <1>1, <1>6 DEF NodeReady
<1>9. Emptied(job', level') BY <1>1 DEF Emptied
<1>10. honest' /\ clean' /\ job' # Calibration!NoJob BY <1>1, JobFields DEF Calm
<1> QED BY <1>8, <1>9, <1>10 DEF Prepared

LEMMA FromSweep ==
  ASSUME NEW j \in Jobs, NEW ok, Calm(j, ok), Calibration!OnSweepDone(j, ok)
  PROVE  Prepared'
<1> DEFINE c == j.ch
           mid == Calibration!Obey(node, Calibration!TestStop)
<1>1. /\ Calibration!Sends(<<Calibration!TestStop, Calibration!VentOpen(c)>>)
      /\ honest'
  BY SweepSteps DEF Calm
<1>2. node' = Calibration!Obey(mid, Calibration!VentOpen(c))
  BY <1>1, PhaseCommands, SendsTwo DEF Calm, CalTyped
<1>3. c \in Chambers /\ node \in Nodes BY JobFields DEF Calm, CalTyped
<1>4. mid \in Nodes /\ mid.test = Calibration!Off BY <1>3, Effects
<1> HIDE DEF mid
<1>5. node'.test = Calibration!Off /\ node'.valves[c] = {0, 1}
  BY <1>2, <1>3, <1>4, Effects
<1>6. CASE /\ job' \in Jobs /\ job'.ch = j.ch /\ job'.phase = "deflate"
           /\ job'.seen = Calibration!Unseen /\ ~job'.still /\ clean' = TRUE
  <2>1. NodeReady(job', node') BY <1>5, <1>6 DEF NodeReady
  <2>2. Emptied(job', level') BY <1>6 DEF Emptied
  <2>3. job' # Calibration!NoJob BY <1>6, JobFields
  <2> QED BY <1>1, <1>6, <2>1, <2>2, <2>3 DEF Prepared, Calm
<1>7. CASE Calibration!FinishJob(j)
  <2>1. job' = Calibration!NoJob BY <1>7 DEF Calibration!FinishJob
  <2> QED BY <1>1, <1>5, <2>1 DEF Prepared, Calm
<1> QED BY <1>6, <1>7, SweepSteps

LEMMA FromServo ==
  ASSUME NEW j \in Jobs, NEW ok, Calm(j, ok), j.phase = "hold_servo",
         Calibration!FinishHoldPoint(j, ok)
  PROVE  Prepared'
<1> DEFINE c == j.ch
           mid == Calibration!Obey(node, Calibration!HoldOff(c))
<1>1. /\ Calibration!Sends(<<Calibration!HoldOff(c), Calibration!Hold(c)>>)
      /\ honest' /\ job' \in Jobs /\ job'.ch = c
      /\ job'.phase = "hold_leak" /\ clean' = TRUE
  BY HoldPointSteps DEF Calm
<1>2. node' = Calibration!Obey(mid, Calibration!Hold(c))
  BY <1>1, PhaseCommands, SendsTwo DEF Calm, CalTyped
<1>3. c \in Chambers /\ node \in Nodes /\ node.test = Calibration!Off
  BY JobFields DEF Calm, CalTyped, NodeReady
<1>4. mid \in Nodes /\ mid.test = Calibration!Off BY <1>3, Effects
<1> HIDE DEF mid, c
<1>5. node'.test = Calibration!Off /\ c \notin node'.holds /\ node'.valves[c] = {}
  BY <1>2, <1>3, <1>4, Effects
<1>6. NodeReady(job', node') BY <1>1, <1>5 DEF NodeReady
<1>7. Emptied(job', level') BY <1>1 DEF Emptied
<1>8. job' # Calibration!NoJob BY <1>1, JobFields
<1> QED BY <1>1, <1>6, <1>7, <1>8 DEF Prepared, Calm

LEMMA FromLeak ==
  ASSUME NEW j \in Jobs, NEW ok, Calm(j, ok), j.phase = "hold_leak",
         Calibration!FinishLeakPoint(j, ok)
  PROVE  Prepared'
<1> DEFINE c == j.ch
           r == Calibration!RunOf(job').run
<1>1. honest' BY LeakPointSteps DEF Calm
<1>2. c \in Chambers /\ node \in Nodes /\ node.test = Calibration!Off
  BY JobFields DEF Calm, CalTyped, NodeReady
<1>3. CASE /\ Calibration!Sends(<<Calibration!RunOf(job')>>)
           /\ job' \in Jobs /\ job'.ch = c /\ job'.phase = "hold_fill" /\ clean' = TRUE
  <2>1. node' = Calibration!Obey(node, Calibration!RunOf(job'))
    BY <1>2, <1>3, PhaseCommands, SendsOne DEF Calm
  <2>2. r \in Runs /\ r.ch = c /\ Calibration!RunOf(job') = [op |-> "run", run |-> r]
    BY <1>3, RunOfJob
  <2> HIDE DEF r, c
  <2>3. node'.vents = {} BY <1>2, <2>1, <2>2, RunEffects
  <2>4. NodeReady(job', node') BY <1>3, <2>3 DEF NodeReady
  <2>5. Emptied(job', level') BY <1>3 DEF Emptied
  <2>6. job' # Calibration!NoJob BY <1>3, JobFields
  <2> QED BY <1>1, <1>3, <2>4, <2>5, <2>6 DEF Prepared
<1>4. CASE Calibration!Sends(<<Calibration!VentOpen(c)>>) /\ Calibration!FinishJob(j)
  <2>1. node' = Calibration!Obey(node, Calibration!VentOpen(c))
    BY <1>2, <1>4, PhaseCommands, SendsOne DEF Calm
  <2> HIDE DEF c
  <2>4. Calibration!Obey(node, Calibration!VentOpen(c)).test = node.test
    BY <1>2, VentKeepsRun
  <2>2. node'.test = Calibration!Off BY <1>2, <2>1, <2>4
  <2>3. job' = Calibration!NoJob BY <1>4 DEF Calibration!FinishJob
  <2> QED BY <1>1, <2>2, <2>3 DEF Prepared
<1> QED BY <1>3, <1>4, LeakPointSteps

LEMMA AdvancePrepares ==
  ASSUME NEW j \in Jobs, NEW ok, Calm(j, ok), Calibration!Advance(j, ok)
  PROVE  Prepared'
BY FromVent, FromPrefill, FromHoldFill, FromSweep, FromServo, FromLeak DEF Calibration!Advance

LEMMA HitStays ==
  ASSUME hit \in BOOLEAN, NEW j, NEW ok, Calibration!Advance(j, ok)
  PROVE  hit => hit'
<1>1. \A cmds : Calibration!Sends(cmds) => (hit => hit') BY DEF Calibration!Sends
<1>2. \E cmds : Calibration!Sends(cmds)
  <2>1. \A p, before : Calibration!Begin(j, p, before) => \E cmds : Calibration!Sends(cmds)
    BY DEF Calibration!Begin
  <2>2. Calibration!OnSweepDone(j, ok) => \E cmds : Calibration!Sends(cmds)
    BY DEF Calibration!OnSweepDone
  <2>3. Calibration!FinishHoldPoint(j, ok) => \E cmds : Calibration!Sends(cmds)
    BY DEF Calibration!FinishHoldPoint
  <2>4. Calibration!FinishLeakPoint(j, ok) => \E cmds : Calibration!Sends(cmds)
    BY DEF Calibration!FinishLeakPoint
  <2> QED BY <2>1, <2>2, <2>3, <2>4 DEF Calibration!Advance
<1> QED BY <1>1, <1>2

LEMMA ReadyCarries ==
  ASSUME NEW j, NEW k, NEW n, j.ch = k.ch, j.kind = k.kind, j.phase = k.phase,
         j.idx = k.idx, NodeReady(j, n)
  PROVE  NodeReady(k, n)
<1>1. Calibration!RunOf(j) = Calibration!RunOf(k)
  BY DEF Calibration!RunOf, Calibration!Duty
<1> QED BY <1>1 DEF NodeReady

LEMMA DrivenTyped == ASSUME NEW j PROVE Calibration!Driven(j) \in BOOLEAN
<1>1. CASE j.phase \in {"sweep", "downsweep"} BY <1>1 DEF Calibration!Driven
<1>2. CASE j.phase = "hold_servo" BY <1>2 DEF Calibration!Driven
<1>3. CASE j.phase = "hold_leak" BY <1>3 DEF Calibration!Driven
<1>4. CASE j.phase \notin {"sweep", "downsweep", "hold_servo", "hold_leak"}
  BY <1>4 DEF Calibration!Driven
<1> QED BY <1>1, <1>2, <1>3, <1>4

LEMMA ReadyDrives ==
  ASSUME NEW j, NodeReady(j, node)
  PROVE  Calibration!Driven(j)
<1>1. CASE j.phase \in {"sweep", "downsweep"} BY <1>1 DEF Calibration!Driven, NodeReady
<1>2. CASE j.phase = "hold_servo" BY <1>2 DEF Calibration!Driven, NodeReady
<1>3. CASE j.phase = "hold_leak" BY <1>3 DEF Calibration!Driven, NodeReady
<1>4. CASE j.phase \notin {"sweep", "downsweep", "hold_servo", "hold_leak"}
  BY <1>4 DEF Calibration!Driven
<1> QED BY <1>1, <1>2, <1>3, <1>4

\* The air: levels stay levels, and an open vent empties its chamber.
LEMMA AirMoves ==
  ASSUME CalTyped, Calibration!Air
  PROVE  /\ level' \in [Chambers -> 0 .. 3]
         /\ ~hit => \A c \in Chambers :
              node.test = Calibration!Off /\ node.valves[c] = {0, 1}
                => level'[c] = IF level[c] > 0 THEN level[c] - 1 ELSE level[c]
<1>1. \A c \in Chambers : level[c] \in 0 .. 3 BY DEF CalTyped
<1>2. \A c \in Chambers : Calibration!Moved(c) \in 0 .. 3
  <2> TAKE c \in Chambers
  <2> DEFINE up   == node.test # Calibration!Off /\ node.valves[c] = {node.test.dir}
             vent == node.test = Calibration!Off /\ node.valves[c] = {0, 1} /\ level[c] > 0
  <2>1. CASE up BY <1>1, <2>1 DEF Calibration!Moved, Calibration!Over
  <2>2. CASE ~up /\ vent
    BY <1>1, <2>2 DEF Calibration!Moved, Calibration!Infl, Calibration!Defl
  <2>3. CASE ~up /\ ~vent
    BY <1>1, <2>3 DEF Calibration!Moved, Calibration!Infl, Calibration!Defl
  <2> QED BY <2>1, <2>2, <2>3
<1>3. ASSUME NEW c \in Chambers, node.test = Calibration!Off, node.valves[c] = {0, 1}
      PROVE  Calibration!Moved(c) = IF level[c] > 0 THEN level[c] - 1 ELSE level[c]
  <2>1. CASE level[c] > 0
    BY <1>3, <2>1 DEF Calibration!Moved, Calibration!Infl, Calibration!Defl
  <2>2. CASE ~(level[c] > 0)
    BY <1>3, <2>2 DEF Calibration!Moved, Calibration!Infl, Calibration!Defl
  <2> QED BY <2>1, <2>2
<1>4. CASE level' = [c \in Chambers |-> Calibration!Moved(c)] BY <1>2, <1>3, <1>4
<1>5. CASE mode = "slow" /\ UNCHANGED level BY <1>5 DEF CalTyped
<1> QED BY <1>4, <1>5 DEF Calibration!Air

LEMMA KeptSafe ==
  ASSUME CalSafe, UNCHANGED <<window, job, pending, buttons, asked>>
  PROVE  CalSafe'
BY DEF CalSafe, Calibration!OneAtATime, Calibration!NothingSkipped

LEMMA StatusKeeps ==
  ASSUME CalInv, Calibration!Status
  PROVE  CalInv'
<1>0. /\ CalTyped /\ CalSafe /\ (window = "open" /\ ~hit => Prepared) BY DEF CalInv
<1>1. Calibration!Air /\ UNCHANGED <<window, mode, todo>> BY DEF Calibration!Status
<1>2. level' \in [Chambers -> 0 .. 3] BY <1>0, <1>1, AirMoves
<1>3. CASE job # Calibration!NoJob /\ Calibration!FeedJobPressure(level'[job.ch])
  <2>1. job \in Jobs BY <1>0, <1>3 DEF CalTyped
  <2> DEFINE v == level'[job.ch]
             j == Calibration!Fed(job, v)
             ok == clean /\ Calibration!Driven(job)
  <2>2. v \in 0 .. 3 BY <1>2, <2>1, JobFields
  <2>3. /\ j \in Jobs /\ j.ch = job.ch /\ j.kind = job.kind /\ j.queue = job.queue
        /\ j.phase = job.phase /\ j.idx = job.idx
        /\ job.phase = "deflate" => /\ j.seen = (IF job.seen < v THEN job.seen ELSE v)
                                    /\ j.still <=> v >= job.seen
    BY <2>1, <2>2, FedJob
  <2>4. ok \in BOOLEAN BY <1>0, DrivenTyped DEF CalTyped
  <2>5. ASSUME window = "open", ~hit
        PROVE  /\ ok /\ honest /\ NodeReady(job, node) /\ Emptied(job, level)
               /\ NodeReady(j, node) /\ clean
    <3>1. clean /\ honest /\ NodeReady(job, node) /\ Emptied(job, level)
      BY <1>0, <1>3, <2>5 DEF Prepared
    <3> HIDE DEF j, v
    <3> QED BY <2>3, <3>1, ReadyDrives, ReadyCarries
  <2>6. CASE Calibration!Reached(j, v) /\ Calibration!Advance(j, ok)
    <3> HIDE DEF j, v, ok
    <3>1. CalTyped' /\ CalSafe'
      BY <1>0, <1>1, <1>2, <2>1, <2>3, <2>4, <2>6, AdvanceTyped DEF Same
    <3>2. ASSUME window' = "open", ~hit' PROVE Prepared'
      <4>1. window = "open" /\ ~hit
        <5>1. hit => hit' BY <1>0, <2>6, HitStays DEF CalTyped
        <5> QED BY <1>1, <3>2, <5>1
      <4>2. Calibration!Reached(j, v) => j.phase # "deflate" BY DEF Calibration!Reached
      <4>3. Calm(j, ok) BY <1>0, <2>1, <2>5, <2>6, <3>2, <4>1, <4>2 DEF Calm
      <4> QED BY <2>3, <2>6, <4>3, AdvancePrepares
    <3> QED BY <3>1, <3>2 DEF CalInv
  <2>7. CASE /\ job' = j /\ clean' = ok
             /\ UNCHANGED <<pending, buttons, honest, asked, node, hit>>
    <3>1. CalSafe'
      <4> HIDE DEF j, v, ok
      <4> QED BY <1>0, <1>1, <2>1, <2>3, <2>7, JobGoesOn
    <3>2. CalTyped'
      <4> HIDE DEF j, v, ok
      <4> QED BY <1>0, <1>1, <1>2, <2>3, <2>4, <2>7 DEF CalTyped
    <3>3. ASSUME window' = "open", ~hit' PROVE Prepared'
      <4>1. window = "open" /\ ~hit BY <1>1, <2>7, <3>3
      <4>2. Emptied(j, level')
        <5> SUFFICES ASSUME job.phase = "deflate"
                     PROVE  v = j.seen /\ (j.still => v = 0)
          BY <2>3 DEF Emptied
        <5>1. node.test = Calibration!Off /\ node.valves[job.ch] = {0, 1}
          BY <2>5, <4>1 DEF NodeReady
        <5>2. job.ch \in Chambers /\ job.seen \in 0 .. 4 /\ level[job.ch] \in 0 .. 3
          BY <1>0, <2>1, JobFields DEF CalTyped
        <5>3. v = IF level[job.ch] > 0 THEN level[job.ch] - 1 ELSE level[job.ch]
          BY <1>0, <1>1, <4>1, <5>1, <5>2, AirMoves
        <5>4. job.seen = 4 \/ level[job.ch] = job.seen
          BY <2>5, <4>1 DEF Emptied, Calibration!Unseen
        <5> HIDE DEF j, v
        <5> QED BY <2>2, <2>3, <5>2, <5>3, <5>4
      <4> HIDE DEF j, v, ok
      <4>3. j # Calibration!NoJob BY <2>3, JobFields
      <4> QED BY <2>5, <2>7, <4>1, <4>2, <4>3 DEF Prepared
    <3> QED BY <3>1, <3>2, <3>3 DEF CalInv
  <2> QED BY <1>3, <2>6, <2>7 DEF Calibration!FeedJobPressure
<1>4. CASE /\ window # "open" \/ job = Calibration!NoJob \/ Calibration!Silent
           /\ Calibration!Unheard /\ UNCHANGED hit
  <2>1. CalTyped' BY <1>0, <1>1, <1>2, <1>4 DEF CalTyped, Calibration!Unheard
  <2>2. CalSafe' BY <1>0, <1>1, <1>4, KeptSafe DEF Calibration!Unheard
  <2>3. ASSUME window' = "open", ~hit' PROVE Prepared'
    <3>1. window = "open" /\ ~hit /\ job = Calibration!NoJob
      BY <1>1, <1>4, <2>3 DEF Calibration!Silent
    <3> QED BY <1>0, <1>4, <3>1 DEF Prepared, Calibration!Unheard
  <2> QED BY <2>1, <2>2, <2>3 DEF CalInv
<1>5. CASE hit' = TRUE /\ Calibration!Unheard
  <2>1. CalTyped' BY <1>0, <1>1, <1>2, <1>5 DEF CalTyped, Calibration!Unheard
  <2>2. CalSafe' BY <1>0, <1>1, <1>5, KeptSafe DEF Calibration!Unheard
  <2> QED BY <1>5, <2>1, <2>2 DEF CalInv
<1> QED BY <1>3, <1>4, <1>5 DEF Calibration!Status

LEMMA TicksKeep ==
  ASSUME CalInv, Calibration!TickVent \/ Calibration!TickCeiling
  PROVE  CalInv'
<1>0. /\ CalTyped /\ CalSafe /\ (window = "open" /\ ~hit => Prepared) BY DEF CalInv
<1>1. Calibration!Advance(job, clean) /\ UNCHANGED <<window, level, mode>>
  BY DEF Calibration!TickVent, Calibration!TickCeiling
<1>2. job \in Jobs
  <2>1. job.phase # "none" BY <1>1 DEF Calibration!Advance
  <2> QED BY <1>0, <2>1, NoJobPhase DEF CalTyped
<1>3. CalTyped' /\ CalSafe'
  BY <1>0, <1>1, <1>2, AdvanceTyped DEF Same, CalTyped
<1>4. ASSUME window' = "open", ~hit' PROVE Prepared'
  <2>1. window = "open" /\ ~hit BY <1>0, <1>1, <1>4, HitStays DEF CalTyped
  <2>2. job.phase = "deflate" => job.still
    BY <2>1 DEF Calibration!TickVent, Calibration!TickCeiling, Calibration!TimedOut
  <2>3. job # Calibration!NoJob BY <1>2, JobFields
  <2>4. /\ honest /\ clean /\ NodeReady(job, node)
        /\ (job.phase = "deflate" => level[job.ch] = 0)
    BY <1>0, <2>1, <2>2, <2>3 DEF Prepared, Emptied
  <2>5. Calm(job, clean) BY <1>0, <1>2, <1>4, <2>4 DEF Calm
  <2> QED BY <1>1, <1>2, <2>5, AdvancePrepares
<1> QED BY <1>3, <1>4 DEF CalInv

LEMMA KeepaliveKeeps ==
  ASSUME CalInv, Calibration!Keepalive
  PROVE  CalInv'
<1>0. /\ CalTyped /\ CalSafe /\ (window = "open" /\ ~hit => Prepared) BY DEF CalInv
<1>1. /\ job # Calibration!NoJob /\ Calibration!Sends(Calibration!KeepaliveOf(job))
      /\ UNCHANGED <<window, job, pending, buttons, honest, asked, clean, level, mode>>
  BY DEF Calibration!Keepalive
<1>2. job \in Jobs BY <1>0, <1>1 DEF CalTyped
<1>3. /\ job.phase = "deflate" => Calibration!KeepaliveOf(job) = <<Calibration!VentOpen(job.ch)>>
      /\ job.phase = "hold_servo" => Calibration!KeepaliveOf(job) = <<Calibration!HoldDuty(job.ch)>>
      /\ job.phase = "hold_leak" => Calibration!KeepaliveOf(job) = <<>>
      /\ job.phase \notin {"deflate", "hold_servo", "hold_leak"}
           => Calibration!KeepaliveOf(job) = <<Calibration!RunOf(job)>>
  BY DEF Calibration!KeepaliveOf
<1>4. Calibration!KeepaliveOf(job) \in Seq(Commands)
  <2>1. \A x \in Commands : <<x>> \in Seq(Commands) OBVIOUS
  <2>2. <<>> \in Seq(Commands) OBVIOUS
  <2> QED BY <1>2, <1>3, <2>1, <2>2, PhaseCommands
<1>5. node' \in Nodes /\ hit' \in BOOLEAN /\ (hit => hit')
  BY <1>0, <1>1, <1>4, SendsTyped DEF CalTyped
<1>6. CalTyped' BY <1>0, <1>1, <1>5 DEF CalTyped
<1>7. CalSafe' BY <1>0, <1>1, KeptSafe
<1>8. ASSUME window' = "open", ~hit' PROVE Prepared'
  <2>1. window = "open" /\ ~hit BY <1>1, <1>5, <1>8
  <2>2. honest /\ clean /\ NodeReady(job, node) /\ Emptied(job, level)
    BY <1>0, <1>1, <2>1 DEF Prepared
  <2>3. node \in Nodes /\ job.ch \in Chambers BY <1>0, <1>2, JobFields DEF CalTyped
  <2>4. NodeReady(job, node')
    <3>1. CASE job.phase = "deflate"
      <4>1. node' = Calibration!Obey(node, Calibration!VentOpen(job.ch))
        BY <1>1, <1>2, <1>3, <1>8, <2>3, <3>1, PhaseCommands, SendsOne
      <4>2. node'.test = node.test /\ node'.valves[job.ch] = {0, 1}
        BY <2>3, <4>1, VentKeepsRun
      <4> QED BY <2>2, <3>1, <4>2 DEF NodeReady
    <3>2. CASE job.phase = "hold_servo"
      <4>1. node' = Calibration!Obey(node, Calibration!HoldDuty(job.ch))
        BY <1>1, <1>2, <1>3, <1>8, <2>3, <3>2, PhaseCommands, SendsOne
      <4>2. node'.test = node.test /\ job.ch \in node'.holds /\ node'.vents = node.vents
        BY <2>3, <4>1, Effects
      <4> QED BY <2>2, <3>2, <4>2 DEF NodeReady
    <3>3. CASE job.phase = "hold_leak"
      <4>1. node' = node BY <1>1, <1>3, <1>8, <2>3, <3>3, SendsNone
      <4> QED BY <2>2, <4>1
    <3>4. CASE job.phase \notin {"deflate", "hold_servo", "hold_leak"}
      <4> DEFINE r == Calibration!RunOf(job).run
      <4>1. node' = Calibration!Obey(node, Calibration!RunOf(job))
        BY <1>1, <1>2, <1>3, <1>8, <2>3, <3>4, PhaseCommands, SendsOne
      <4>2. r \in Runs /\ r.ch = job.ch /\ Calibration!RunOf(job) = [op |-> "run", run |-> r]
        BY <1>2, RunOfJob
      <4>5. job.phase \in {"sweep", "downsweep"} => node.test = r
        BY <2>2 DEF NodeReady
      <4>6. job.phase = "hold_fill" => r.ch \notin node.vents
        BY <2>2, <4>2 DEF NodeReady
      <4> HIDE DEF r
      <4>3. node.test = r => node' = node BY <2>3, <4>1, <4>2, RunEffects
      <4>4. r.ch \notin node.vents => r.ch \notin node'.vents
        BY <2>3, <4>1, <4>2, RunEffects
      <4> QED BY <2>2, <3>4, <4>2, <4>3, <4>4, <4>5, <4>6 DEF NodeReady
    <3> QED BY <3>1, <3>2, <3>3, <3>4
  <2> QED BY <1>1, <2>2, <2>4 DEF Prepared
<1> QED BY <1>6, <1>7, <1>8 DEF CalInv

LEMMA DeadManKeeps ==
  ASSUME CalInv, Calibration!DeadMan
  PROVE  CalInv'
<1>0. /\ CalTyped /\ CalSafe /\ (window = "open" /\ ~hit => Prepared) BY DEF CalInv
<1>1. UNCHANGED <<window, job, pending, buttons, honest, asked, clean, level, mode, hit>>
  BY DEF Calibration!DeadMan
<1>2. node \in Nodes BY <1>0 DEF CalTyped
<1>3. CalSafe' BY <1>0, <1>1, KeptSafe
<1>4. job # Calibration!NoJob => job \in Jobs /\ job.ch \in Chambers /\ job.phase \in Phases
  BY <1>0, JobFields DEF CalTyped
<1>5. CASE Calibration!LapseRun
  <2>1. node.test # Calibration!Off /\ node' = Calibration!Obey(node, Calibration!TestStop)
    BY <1>5 DEF Calibration!LapseRun, Calibration!Obey, Calibration!TestStop
  <2>2. node' \in Nodes BY <1>2, <2>1, CommandTypes, ObeyTyped
  <2>3. CalTyped' BY <1>0, <1>1, <2>2 DEF CalTyped
  <2>4. ASSUME window' = "open", ~hit' PROVE FALSE
    <3>1. window = "open" /\ ~hit BY <1>1, <2>4
    <3>2. ~(job.phase \in {"prefill", "sweep", "downsweep", "hold_fill"})
      BY <1>5, <3>1 DEF Calibration!LapseRun, Calibration!Feeding
    <3>3. job # Calibration!NoJob BY <1>0, <2>1, <3>1 DEF Prepared
    <3>4. job.phase \in {"deflate", "hold_servo", "hold_leak"} BY <1>4, <3>2, <3>3 DEF Phases
    <3> QED BY <1>0, <2>1, <3>1, <3>3, <3>4 DEF Prepared, NodeReady
  <2> QED BY <1>3, <2>3, <2>4 DEF CalInv
<1>6. CASE Calibration!LapseVent
  <2>1. PICK c \in node.vents : /\ ~(Calibration!Feeding({"deflate"}) /\ job.ch = c)
                                /\ node' = Calibration!Vented(node, c, FALSE)
    BY <1>6 DEF Calibration!LapseVent
  <2>2. c \in Chambers BY <1>2, <2>1, NodeFields
  <2>3. node' = Calibration!Obey(node, Calibration!VentShut(c)) BY <1>2, <2>1, <2>2, Obeyed
  <2>4. node' \in Nodes BY <1>2, <2>2, <2>3, CommandTypes, ObeyTyped
  <2>5. CalTyped' BY <1>0, <1>1, <2>4 DEF CalTyped
  <2>6. /\ node'.test = node.test /\ node'.valves = [node.valves EXCEPT ![c] = {}]
        /\ node'.holds = node.holds \ {c} /\ node'.vents \subseteq node.vents
    BY <1>2, <2>1, <2>2, NewNode, NodeFields DEF Calibration!Vented
  <2>7. ASSUME window' = "open", ~hit' PROVE Prepared'
    <3>1. window = "open" /\ ~hit BY <1>1, <2>7
    <3>2. node.test = Calibration!Off BY <1>6 DEF Calibration!LapseVent
    <3>3. ASSUME job # Calibration!NoJob PROVE NodeReady(job, node')
      <4>1. NodeReady(job, node) /\ job.ch \in Chambers BY <1>0, <1>4, <3>1, <3>3 DEF Prepared
      <4>2. job.phase = "deflate" => job.ch # c BY <2>1, <3>1 DEF Calibration!Feeding
      <4>3. job.phase \notin {"sweep", "downsweep"}
        <5>1. Calibration!RunOf(job).run # Calibration!Off
          <6>1. Calibration!RunOf(job).run \in Runs BY <1>4, <3>3, RunOfJob
          <6> QED BY <6>1 DEF Runs, Calibration!Off
        <5> QED BY <3>2, <4>1, <5>1 DEF NodeReady
      <4>4. node.valves \in [Chambers -> SUBSET {0, 1}] BY <1>2, NodeFields
      <4>5. job.ch # c => node'.valves[job.ch] = node.valves[job.ch]
        BY <2>6, <4>1, <4>4
      <4>6. node'.valves[job.ch] \in {node.valves[job.ch], {}} BY <2>2, <2>6, <4>1, <4>4
      <4>7. job.ch \notin node.vents => job.ch # c /\ job.ch \notin node'.vents
        BY <2>1, <2>6
      <4>8. job.ch \notin node.holds => job.ch \notin node'.holds BY <2>6
      <4>9. job.ch # c /\ job.ch \in node.holds => job.ch \in node'.holds BY <2>6
      <4> QED BY <2>6, <4>1, <4>2, <4>3, <4>5, <4>6, <4>7, <4>8, <4>9 DEF NodeReady
    <3> QED BY <1>0, <1>1, <2>6, <3>1, <3>3 DEF Prepared
  <2> QED BY <1>3, <2>5, <2>7 DEF CalInv
<1>7. CASE Calibration!LapseHold
  <2>1. node' = [node EXCEPT !.holds = {}] BY <1>7 DEF Calibration!LapseHold
  <2>2. node' \in Nodes BY <1>2, <2>1, NodeFields DEF Nodes
  <2>3. /\ node'.test = node.test /\ node'.valves = node.valves /\ node'.vents = node.vents
        /\ node'.holds = {}
    BY <1>2, <2>1, NodeFields
  <2>4. CalTyped' BY <1>0, <1>1, <2>2 DEF CalTyped
  <2>5. ASSUME window' = "open", ~hit' PROVE Prepared'
    <3>1. window = "open" /\ ~hit BY <1>1, <2>5
    <3>2. job.phase # "hold_servo"
      BY <1>7, <3>1 DEF Calibration!LapseHold, Calibration!Feeding
    <3>3. ASSUME job # Calibration!NoJob PROVE NodeReady(job, node')
      BY <1>0, <2>3, <3>1, <3>2, <3>3 DEF Prepared, NodeReady
    <3> QED BY <1>0, <1>1, <2>3, <3>1, <3>3 DEF Prepared
  <2> QED BY <1>3, <2>4, <2>5 DEF CalInv
<1> QED BY <1>5, <1>6, <1>7 DEF Calibration!DeadMan

\* The first command of a job, of a batch asked for or waiting.
LEMMA JobStarts ==
  ASSUME CalTyped, NEW batch \in Seq(Specs), batch # <<>>, Calibration!StartJob(batch)
  PROVE  /\ job' \in Jobs /\ job'.queue = Tail(batch) /\ job'.phase = "deflate"
         /\ [ch |-> job'.ch, kind |-> job'.kind] = Head(batch)
         /\ job'.seen = Calibration!Unseen /\ ~job'.still
         /\ buttons' = FALSE /\ clean' = TRUE
         /\ node' \in Nodes /\ hit' \in BOOLEAN /\ (hit => hit')
         /\ ~hit' /\ node.test = Calibration!Off => NodeReady(job', node')
<1>1. Head(batch) \in Specs /\ Tail(batch) \in Seq(Specs) OBVIOUS
<1> DEFINE s == Head(batch)
           q == Tail(batch)
<1>2. /\ s.ch \in Chambers /\ s.kind \in Calibration!Kinds
      /\ s = [ch |-> s.ch, kind |-> s.kind]
  BY <1>1 DEF Specs
<1>3. /\ job' = [ch |-> s.ch, kind |-> s.kind, queue |-> q, phase |-> "deflate", idx |-> 1,
                 seen |-> Calibration!Unseen, still |-> FALSE]
      /\ buttons' = FALSE /\ clean' = TRUE
      /\ Calibration!Sends(<<Calibration!VentOpen(s.ch)>>)
  BY DEF Calibration!StartJob
<1> HIDE DEF s, q
<1>4. job' \in Jobs
  <2>1. q \in Seq(Specs) BY <1>1 DEF q
  <2> QED BY <1>2, <1>3, <2>1 DEF Jobs, Phases, Calibration!Unseen
<1>5. /\ job'.queue = q /\ job'.phase = "deflate" /\ job'.ch = s.ch /\ job'.kind = s.kind
      /\ job'.seen = Calibration!Unseen /\ ~job'.still
  BY <1>3
<1>6. Calibration!VentOpen(s.ch) \in Commands BY <1>2, CommandTypes
<1>7. node' \in Nodes /\ hit' \in BOOLEAN /\ (hit => hit')
  <2> DEFINE x == Calibration!VentOpen(s.ch)
  <2>1. Calibration!Sends(<<x>>) /\ x \in Commands BY <1>3, <1>6
  <2> HIDE DEF x
  <2>2. <<x>> \in Seq(Commands) BY <2>1
  <2> QED BY <2>1, <2>2, SendsTyped DEF CalTyped
<1>8. ASSUME ~hit', node.test = Calibration!Off PROVE NodeReady(job', node')
  <2>1. node' = Calibration!Obey(node, Calibration!VentOpen(s.ch))
    BY <1>3, <1>6, <1>8, SendsOne DEF CalTyped
  <2>2. node'.test = node.test /\ node'.valves[s.ch] = {0, 1}
    BY <1>2, <2>1, VentKeepsRun DEF CalTyped
  <2> QED BY <1>5, <1>8, <2>2 DEF NodeReady
<1> QED BY <1>2, <1>3, <1>4, <1>5, <1>7, <1>8 DEF s, q

LEMMA Rejoined ==
  ASSUME NEW S, NEW b \in Seq(S), b # <<>>
  PROVE  b = <<Head(b)>> \o Tail(b)
OBVIOUS

LEMMA StartPrepares ==
  ASSUME CalTyped, NEW batch \in Seq(Specs), batch # <<>>, Calibration!StartJob(batch),
         ~hit', node.test = Calibration!Off, honest, UNCHANGED honest
  PROVE  Prepared'
<1>1. /\ job' \in Jobs /\ clean' = TRUE /\ job'.seen = Calibration!Unseen /\ ~job'.still
      /\ NodeReady(job', node')
  BY JobStarts
<1>2. Emptied(job', level') BY <1>1 DEF Emptied
<1>3. job' # Calibration!NoJob BY <1>1, JobFields
<1> QED BY <1>1, <1>2, <1>3 DEF Prepared

LEMMA CalibrateKeeps ==
  ASSUME CalInv, Calibration!Calibrate
  PROVE  CalInv'
<1>0. /\ CalTyped /\ CalSafe /\ (window = "open" /\ ~hit => Prepared) BY DEF CalInv
<1>1. PICK batch \in Batches : Calibration!StartJob(batch) /\ asked' = batch
  BY DEF Calibration!Calibrate
<1>2. window = "open" /\ job = Calibration!NoJob
      /\ UNCHANGED <<window, pending, honest, level, mode>>
  BY DEF Calibration!Calibrate
<1>3. batch \in Seq(Specs) /\ batch # <<>>
  BY <1>1, StudyAssumption DEF Calibration!BatchParameters, Specs
<1>4. CalTyped' BY <1>0, <1>1, <1>2, <1>3, JobStarts DEF CalTyped
<1>5. CalSafe'
  <2>1. Calibration!OneAtATime' BY <1>0, <1>1, <1>3, JobStarts DEF Calibration!OneAtATime
  <2>2. job' # Calibration!NoJob BY <1>0, <1>1, <1>3, JobStarts, JobFields
  <2>3. <<[ch |-> job'.ch, kind |-> job'.kind]>> \o job'.queue = asked'
    BY <1>0, <1>1, <1>3, JobStarts, Rejoined
  <2> QED BY <2>1, <2>2, <2>3 DEF CalSafe, Calibration!NothingSkipped
<1>6. ASSUME window' = "open", ~hit' PROVE Prepared'
  <2>1. ~hit BY <1>0, <1>1, <1>3, <1>6, JobStarts
  <2>2. honest /\ node.test = Calibration!Off BY <1>0, <1>2, <2>1 DEF Prepared
  <2> QED BY <1>0, <1>1, <1>2, <1>3, <1>6, <2>2, StartPrepares
<1> QED BY <1>4, <1>5, <1>6 DEF CalInv

LEMMA RunQueueKeeps ==
  ASSUME CalInv, Calibration!RunQueue
  PROVE  CalInv'
<1>0. /\ CalTyped /\ CalSafe /\ (window = "open" /\ ~hit => Prepared) BY DEF CalInv
<1>1. pending # <<>> /\ pending' = <<>> /\ UNCHANGED <<window, honest, asked, level, mode>>
  BY DEF Calibration!RunQueue
<1>2. pending \in Seq(Specs) /\ pending' \in Seq(Specs) BY <1>0, <1>1 DEF CalTyped
<1>3. CASE job = Calibration!NoJob /\ Calibration!StartJob(pending)
  <2>1. CalTyped' BY <1>0, <1>1, <1>2, <1>3, JobStarts DEF CalTyped
  <2>2. Calibration!OneAtATime'
    BY <1>0, <1>1, <1>2, <1>3, JobStarts DEF Calibration!OneAtATime
  <2>3. job' # Calibration!NoJob BY <1>0, <1>1, <1>2, <1>3, JobStarts, JobFields
  <2>4. <<[ch |-> job'.ch, kind |-> job'.kind]>> \o job'.queue = pending
    BY <1>0, <1>1, <1>2, <1>3, JobStarts, Rejoined
  <2>5. window = "open" /\ asked # <<>> => asked = pending
    BY <1>0, <1>3 DEF CalSafe, Calibration!NothingSkipped
  <2>6. CalSafe' BY <1>1, <2>2, <2>3, <2>4, <2>5 DEF CalSafe, Calibration!NothingSkipped
  <2>7. ASSUME window' = "open", ~hit' PROVE Prepared'
    <3>1. ~hit BY <1>0, <1>1, <1>2, <1>3, <2>7, JobStarts
    <3>2. honest /\ node.test = Calibration!Off BY <1>0, <1>1, <1>3, <2>7, <3>1 DEF Prepared
    <3> QED BY <1>0, <1>1, <1>2, <1>3, <2>7, <3>2, StartPrepares
  <2> QED BY <2>1, <2>6, <2>7 DEF CalInv
<1>4. CASE job # Calibration!NoJob /\ UNCHANGED <<job, buttons, clean, node, hit>>
  <2>1. CalTyped' BY <1>0, <1>1, <1>2, <1>4 DEF CalTyped
  <2>2. CalSafe'
    BY <1>0, <1>1, <1>4 DEF CalSafe, Calibration!OneAtATime, Calibration!NothingSkipped
  <2>3. (window = "open" /\ ~hit => Prepared)' BY <1>0, <1>1, <1>4 DEF Prepared
  <2> QED BY <2>1, <2>2, <2>3 DEF CalInv
<1> QED BY <1>3, <1>4 DEF Calibration!RunQueue

LEMMA StopKeeps ==
  ASSUME CalInv, Calibration!Stop \/ Calibration!Close
  PROVE  CalInv'
<1>0. /\ CalTyped /\ CalSafe /\ (window = "open" /\ ~hit => Prepared) BY DEF CalInv
<1>1. /\ window' \in {"open", "closed"} /\ window = "open" /\ Calibration!StopAll
  BY DEF Calibration!Stop, Calibration!Close
<1>2. /\ job' = Calibration!NoJob /\ clean' = TRUE /\ buttons' = TRUE /\ asked' = <<>>
      /\ Calibration!Sends(Calibration!Halt) /\ UNCHANGED <<honest, level, mode, pending>>
  BY <1>1 DEF Calibration!StopAll
<1>3. node' \in Nodes /\ hit' \in BOOLEAN /\ (hit => hit')
  BY <1>0, <1>2, HaltTyped, SendsTyped DEF CalTyped
<1>4. CalTyped' BY <1>0, <1>1, <1>2, <1>3 DEF CalTyped
<1>5. CalSafe' BY <1>2 DEF CalSafe, Calibration!OneAtATime, Calibration!NothingSkipped
<1>6. ASSUME ~hit' PROVE Prepared'
  <2>1. ~hit /\ honest BY <1>0, <1>1, <1>3, <1>6 DEF Prepared
  <2>2. node' = Calibration!FoldLeft(Calibration!Obey, node, Calibration!Halt)
    BY <1>2, <1>6, <2>1 DEF Calibration!Sends, Calibration!Silent
  <2>3. node'.test = Calibration!Off BY <1>0, <2>2, HaltEnds DEF CalTyped
  <2> QED BY <1>2, <2>1, <2>3 DEF Prepared
<1> QED BY <1>4, <1>5, <1>6 DEF CalInv

LEMMA CrashKeeps ==
  ASSUME CalInv, Calibration!Crash \/ Calibration!LinkDies
  PROVE  CalInv'
<1>0. /\ CalTyped /\ CalSafe /\ (window = "open" /\ ~hit => Prepared) BY DEF CalInv
<1>1. CASE Calibration!Crash
  <2>1. CalTyped' BY <1>0, <1>1 DEF CalTyped, Calibration!Crash
  <2>2. CalSafe'
    BY <1>1 DEF CalSafe, Calibration!Crash, Calibration!OneAtATime, Calibration!NothingSkipped
  <2> QED BY <1>1, <2>1, <2>2 DEF CalInv, Calibration!Crash
<1>2. CASE Calibration!LinkDies
  <2>1. CalTyped' BY <1>0, <1>2 DEF CalTyped, Calibration!LinkDies
  <2>2. CalSafe' BY <1>0, <1>2, KeptSafe DEF Calibration!LinkDies
  <2> QED BY <1>2, <2>1, <2>2 DEF CalInv, Calibration!LinkDies
<1> QED BY <1>1, <1>2

LEMMA CalInitial == Calibration!Init => CalInv
<1> SUFFICES ASSUME Calibration!Init PROVE CalInv OBVIOUS
<1>1. Calibration!Rest.test = Calibration!Off /\ Calibration!Rest \in Nodes
  BY DEF Calibration!Rest, Nodes
<1>2. CalTyped
  <2>1. level \in [Chambers -> 0 .. 3] BY DEF Calibration!Init, Calibration!Full
  <2>2. hit = (mode = "slow") BY DEF Calibration!Init
  <2>3. hit \in BOOLEAN /\ (mode = "slow" => hit) BY <2>2
  <2>4. <<>> \in Seq(Specs) OBVIOUS
  <2> QED BY <1>1, <2>1, <2>3, <2>4 DEF Calibration!Init, CalTyped
<1>3. CalSafe
  BY DEF Calibration!Init, CalSafe, Calibration!OneAtATime, Calibration!NothingSkipped
<1>4. Prepared BY <1>1 DEF Calibration!Init, Prepared
<1> QED BY <1>2, <1>3, <1>4 DEF CalInv

LEMMA CalStep ==
  ASSUME CalInv, [StudyNext]_<<part, vars, calibration, touch>>
  PROVE  CalInv'
<1>1. CASE UNCHANGED calibration
  <2>1. UNCHANGED <<window, job, pending, buttons, honest, asked, clean, node, level, mode, hit>>
    BY <1>1 DEF calibration
  <2>2. CalTyped' BY <2>1 DEF CalInv, CalTyped
  <2>3. CalSafe' BY <2>1, KeptSafe DEF CalInv
  <2> QED BY <2>1, <2>2, <2>3 DEF CalInv, Prepared
<1>2. CASE Calibration!Next
  BY <1>2, StatusKeeps, TicksKeep, KeepaliveKeeps, DeadManKeeps, CalibrateKeeps, RunQueueKeeps,
     StopKeeps, CrashKeeps DEF Calibration!Next
<1> QED BY <1>1, <1>2 DEF StudyNext

LEMMA CalImplies == CalInv => Calibration!CalibrationSound
<1> SUFFICES ASSUME CalInv PROVE Calibration!CalibrationSound OBVIOUS
<1>1. CalTyped /\ CalSafe /\ (window = "open" /\ ~hit => Prepared) BY DEF CalInv
<1>2. Calibration!TypeOK
  <2>1. job \in Jobs => job.ch \in Chambers /\ job.idx \in 1 .. 2 BY JobFields
  <2>2. /\ node.test \in {Calibration!Off} \cup Runs
        /\ node.vents \in SUBSET Chambers /\ node.holds \in SUBSET Chambers
    BY <1>1, NodeFields DEF CalTyped
  <2>3. node.test.dir \in {-1, 0, 1} BY <2>2 DEF Calibration!Off, Runs
  <2> QED BY <1>1, <2>1, <2>2, <2>3 DEF CalTyped, Calibration!TypeOK, Calibration!Infl,
             Calibration!Defl, Calibration!Over, Calibration!Duties, Calibration!Plateaus
<1>3. Calibration!PointsHonest BY <1>1 DEF Calibration!PointsHonest, Prepared
<1> QED BY <1>1, <1>2, <1>3 DEF Calibration!CalibrationSound, CalSafe

\* Whatever is clicked, stopped, closed, crashed or lost (fill_calibration_dialog.py):
\* what an open window has recorded was measured as it is filed, for the node did
\* all along what the recording takes it to do; a batch is carried out whole and in
\* order; and no button invites to a second job.
THEOREM CalibrationStaysSound == StudySpec => []Calibration!CalibrationSound
<1>1. StudyInit => CalInv BY CalInitial DEF StudyInit
<1>2. CalInv /\ [StudyNext]_<<part, vars, calibration, touch>> => CalInv' BY CalStep
<1> QED BY <1>1, <1>2, CalImplies, PTL DEF StudySpec

\* The session of a study is a session: what is proved of Session holds of Study.
THEOREM StudyIsSession == StudySpec => Spec
<1>1. StudyInit => Init BY DEF StudyInit
<1>2. [StudyNext]_<<part, vars, calibration, touch>> => [Next]_vars BY DEF StudyNext
<1> QED BY <1>1, <1>2, PTL DEF StudySpec, Spec

-----------------------------------------------------------------------------
(* Sums and products over chambers: the folds of the compensation. *)

LEMMA UnitPositive == Touch!Unit \in Nat \ {0}
<1> DEFINE T == Nat \ {0}
           g == [x \in Chambers |-> [y \in T |-> Step * y]]
           Solves(h) == h = [u \in SUBSET Chambers |-> IF u = {} THEN 1
                               ELSE Step * h[u \ {CHOOSE x \in u : TRUE}]]
           iter == CHOOSE h : Solves(h)
           ch == [u \in SUBSET Chambers |-> CHOOSE x \in u : TRUE]
<1>1. IsFiniteSet(Chambers) /\ Step \in T
  BY StudyAssumption, Counted DEF Touch!SourceParameters, Calibration!BatchParameters
<1>2. \A x \in Chambers, y \in T : g[x][y] \in T /\ g[x][y] = Step * y BY <1>1
<1>3. \A u \in SUBSET Chambers : u # {} => ch[u] \in u /\ ch[u] \in Chambers OBVIOUS
<1>4. \A u \in SUBSET Chambers : ch[u] = CHOOSE x \in u : TRUE OBVIOUS
<1>5. PICK h \in [SUBSET Chambers -> T] : Iterates(h, Chambers, 1, g, ch)
  <2> HIDE DEF g, ch
  <2>1. 1 \in T OBVIOUS
  <2> HIDE DEF T
  <2> QED BY <1>1, <1>2, <1>3, <2>1, IterationExists
<1>6. \A u \in SUBSET Chambers : h[u] = IF u = {} THEN 1 ELSE Step * h[u \ {ch[u]}]
  <2> HIDE DEF g, ch, T
  <2> QED BY <1>2, <1>3, <1>5 DEF Iterates
<1>7. Solves(h)
  <2> HIDE DEF g, ch, T
  <2> QED BY <1>4, <1>5, <1>6
<1>8. Solves(iter)
  <2> HIDE DEF Solves
  <2> QED BY <1>7
<1>9. Touch!Unit = iter[Chambers]
  BY DEF Touch!Unit, Touch!Product, Touch!FoldSet, Touch!MapThenFoldSet
<1>10. iter[{}] \in T
  <2> HIDE DEF iter
  <2> QED BY <1>8
<1>11. \A u \in SUBSET Chambers : u # {} /\ iter[u \ {ch[u]}] \in T => iter[u] \in T
  <2> SUFFICES ASSUME NEW u \in SUBSET Chambers, u # {}, iter[u \ {ch[u]}] \in T
               PROVE  iter[u] \in T
    OBVIOUS
  <2> HIDE DEF iter, ch
  <2>2. iter[u] = Step * iter[u \ {ch[u]}] BY <1>4, <1>8
  <2> QED BY <1>1, <2>2
<1> HIDE DEF iter, ch, T, g, Solves
<1>12. iter[Chambers] \in T BY <1>1, <1>3, <1>10, <1>11, FoldKeeps
<1> QED BY <1>9, <1>12 DEF T

Grid == [Chambers -> Touch!Levels]

LEMMA SourceFacts ==
  /\ IsFiniteSet(Chambers) /\ Step \in Nat \ {0} /\ Threshold \in Nat \ {0}
  /\ Top \in Nat /\ Top % Step = 0 /\ Touch!Levels = 0 .. Top
  /\ Field \in [Grid -> [Sensors -> Int]] /\ Fingers \subseteq Int /\ 0 \in Fingers
  /\ Exit \in Int /\ Spike \in Int /\ Exit < Threshold
BY StudyAssumption, Counted
   DEF Touch!SourceParameters, Calibration!BatchParameters, Grid, Touch!Levels

LEMMA Divided ==
  ASSUME NEW d \in Nat \ {0}, NEW n \in Nat
  PROVE  n % d \in 0 .. d - 1 /\ n \div d \in Nat /\ n = d * (n \div d) + (n % d)
<1>1. n % d \in 0 .. d - 1 OBVIOUS
<1>2. n \div d \in Int OBVIOUS
<1>3. d * (n \div d) = n - (n % d)
  <2>1. d \in Int /\ d > 0 /\ n \in Int OBVIOUS
  <2> QED BY <2>1, SMTT(60)
<1> DEFINE k == n \div d
           r == n % d
<1> HIDE DEF k, r
<1>4. k \in Int /\ r \in 0 .. d - 1 /\ d * k = n - r BY <1>1, <1>2, <1>3 DEF k, r
<1>5. n = d * k + r BY <1>4
<1>6. k >= 0
  <2> SUFFICES ASSUME k <= -1 PROVE FALSE BY <1>4
  <2>1. d * k <= d * (-1) BY <1>4
  <2>2. d * (-1) = -d /\ d * k \in Int BY <1>4
  <2> QED BY <1>4, <2>1, <2>2
<1> QED BY <1>1, <1>4, <1>5, <1>6 DEF k, r

LEMMA WeightTyped ==
  ASSUME NEW q \in Touch!Levels, NEW up \in BOOLEAN
  PROVE  /\ Touch!Weight(q, up) \in Int
         /\ Touch!Weight(q, up) # 0 => Touch!Below(q) + (IF up THEN Step ELSE 0) \in Touch!Levels
<1>1. /\ Step \in Nat \ {0} /\ Top \in Nat /\ Top % Step = 0 /\ q \in 0 .. Top
      /\ Touch!Levels = 0 .. Top
  BY SourceFacts
<1>2. q % Step \in 0 .. Step - 1 /\ q = Step * (q \div Step) + (q % Step) /\ q \div Step \in Nat
  <2>1. q \in Nat BY <1>1
  <2> QED BY <1>1, <2>1, Divided
<1>3. Top = Step * (Top \div Step) /\ Top \div Step \in Nat
  <2>1. Top = Step * (Top \div Step) + (Top % Step) /\ Top \div Step \in Nat BY <1>1, Divided
  <2> QED BY <1>1, <2>1
<1>4. Touch!Below(q) = Step * (q \div Step) /\ Touch!Below(q) \in 0 .. q
  BY <1>1, <1>2 DEF Touch!Below
<1>5. CASE ~up BY <1>1, <1>2, <1>4, <1>5 DEF Touch!Weight
<1>6. CASE up /\ q % Step # 0
  <2> DEFINE a == q \div Step
             b == Top \div Step
  <2>1. Step * a < Step * b BY <1>1, <1>2, <1>3, <1>6
  <2>2. a \in Nat /\ b \in Nat /\ Step \in Nat \ {0} BY <1>1, <1>2, <1>3
  <2> HIDE DEF a, b
  <2>3. a < b
    <3> SUFFICES ASSUME b <= a PROVE FALSE BY <2>2
    <3>1. Step * b <= Step * a BY <2>2
    <3>2. Step * a \in Int /\ Step * b \in Int BY <2>2
    <3> QED BY <2>1, <3>1, <3>2
  <2>4. Step * (a + 1) <= Step * b BY <2>2, <2>3
  <2>5. Step * (a + 1) = Step * a + Step BY <2>2
  <2>6. Touch!Below(q) + Step <= Top BY <1>3, <1>4, <2>4, <2>5 DEF a, b
  <2> QED BY <1>1, <1>2, <1>4, <1>6, <2>6 DEF Touch!Weight
<1>7. CASE up /\ q % Step = 0 BY <1>1, <1>7 DEF Touch!Weight
<1> QED BY <1>5, <1>6, <1>7

\* The weight of a corner; one that counts lies among the measured levels.
LEMMA WeightProduct ==
  ASSUME NEW levels \in Grid, NEW upper \in [Chambers -> BOOLEAN]
  PROVE  LET w == Touch!Product(LAMBDA c : Touch!Weight(levels[c], upper[c]), Chambers)
         IN  w \in Int /\ (w # 0 => \A c \in Chambers : Touch!Weight(levels[c], upper[c]) # 0)
<1> DEFINE T == Int
           wt(c) == Touch!Weight(levels[c], upper[c])
           g == [x \in Chambers |-> [y \in T |-> wt(x) * y]]
           Solves(h) == h = [u \in SUBSET Chambers |-> IF u = {} THEN 1
                               ELSE wt(CHOOSE x \in u : TRUE) * h[u \ {CHOOSE x \in u : TRUE}]]
           iter == CHOOSE h : Solves(h)
           ch == [u \in SUBSET Chambers |-> CHOOSE x \in u : TRUE]
<1>0. \A c \in Chambers : wt(c) \in Int
  <2> TAKE c \in Chambers
  <2>1. levels[c] \in Touch!Levels /\ upper[c] \in BOOLEAN BY DEF Grid
  <2> QED BY <2>1, WeightTyped
<1>9. Touch!Product(LAMBDA c : Touch!Weight(levels[c], upper[c]), Chambers) = iter[Chambers]
  BY DEF Touch!Product, Touch!FoldSet, Touch!MapThenFoldSet
<1> HIDE DEF wt
<1>1. IsFiniteSet(Chambers) BY SourceFacts
<1>2. \A x \in Chambers, y \in T : g[x][y] \in T /\ g[x][y] = wt(x) * y BY <1>0
<1>3. \A u \in SUBSET Chambers : u # {} => ch[u] \in u /\ ch[u] \in Chambers OBVIOUS
<1>4. \A u \in SUBSET Chambers : ch[u] = CHOOSE x \in u : TRUE OBVIOUS
<1>5. PICK h \in [SUBSET Chambers -> T] : Iterates(h, Chambers, 1, g, ch)
  <2> HIDE DEF g, ch
  <2>1. 1 \in T OBVIOUS
  <2> HIDE DEF T
  <2> QED BY <1>1, <1>2, <1>3, <2>1, IterationExists
<1>6. \A u \in SUBSET Chambers : h[u] = IF u = {} THEN 1 ELSE wt(ch[u]) * h[u \ {ch[u]}]
  <2> HIDE DEF g, ch, T
  <2> QED BY <1>2, <1>3, <1>5 DEF Iterates
<1>7. Solves(h)
  <2> HIDE DEF g, ch, T
  <2> QED BY <1>4, <1>5, <1>6
<1>8. Solves(iter)
  <2> HIDE DEF Solves
  <2> QED BY <1>7
<1>10. iter[{}] \in T
  <2> HIDE DEF iter
  <2> QED BY <1>8
<1>11. \A u \in SUBSET Chambers : u # {} => iter[u] = wt(ch[u]) * iter[u \ {ch[u]}]
  <2> HIDE DEF iter, ch
  <2> QED BY <1>4, <1>8
<1>12. \A u \in SUBSET Chambers : u # {} /\ iter[u \ {ch[u]}] \in T => iter[u] \in T
  <2> SUFFICES ASSUME NEW u \in SUBSET Chambers, u # {}, iter[u \ {ch[u]}] \in T
               PROVE  iter[u] \in T
    OBVIOUS
  <2> HIDE DEF iter, ch
  <2>1. wt(ch[u]) \in Int /\ iter[u \ {ch[u]}] \in Int BY <1>0, <1>3
  <2>2. iter[u] = wt(ch[u]) * iter[u \ {ch[u]}] BY <1>11
  <2>3. wt(ch[u]) * iter[u \ {ch[u]}] \in Int BY <2>1
  <2> QED BY <2>2, <2>3
<1> HIDE DEF iter, ch, T, g, Solves
<1>13. \A s \in SUBSET Chambers : iter[s] \in T
  <2> TAKE s \in SUBSET Chambers
  <2>1. IsFiniteSet(s) BY <1>1, FS_Subset
  <2>2. \A u \in SUBSET s : u # {} => ch[u] \in u BY <1>3
  <2>3. \A u \in SUBSET s : u # {} /\ iter[u \ {ch[u]}] \in T => iter[u] \in T BY <1>12
  <2> QED BY <1>10, <2>1, <2>2, <2>3, FoldKeeps
<1> DEFINE F == {u \in SUBSET Chambers : iter[u] # 0 /\ \E c \in u : wt(c) = 0}
<1>14. F = {}
  <2> SUFFICES ASSUME F # {} PROVE FALSE OBVIOUS
  <2>1. PICK u \in F : \A v \in F : v \subseteq u => v = u
    <3>1. \A v \in F : v \subseteq Chambers OBVIOUS
    <3> HIDE DEF F
    <3> QED BY <1>1, <3>1, LeastSet
  <2>2. PICK c \in u : wt(c) = 0 OBVIOUS
  <2>3. u \in SUBSET Chambers /\ iter[u] # 0 /\ u # {} BY <2>2
  <2>4. /\ ch[u] \in u /\ iter[u] = wt(ch[u]) * iter[u \ {ch[u]}]
        /\ wt(ch[u]) \in Int /\ iter[u \ {ch[u]}] \in Int
    BY <1>0, <1>3, <1>11, <1>13, <2>3 DEF T
  <2>5. wt(ch[u]) # 0 /\ iter[u \ {ch[u]}] # 0 BY <2>3, <2>4
  <2>6. c \in u \ {ch[u]} BY <2>2, <2>5
  <2>7. u \ {ch[u]} \in F BY <2>2, <2>3, <2>5, <2>6
  <2>8. u \ {ch[u]} # u /\ u \ {ch[u]} \subseteq u BY <2>4
  <2> HIDE DEF F
  <2> QED BY <2>1, <2>7, <2>8
<1>15. iter[Chambers] \in Int BY <1>13 DEF T
<1>16. iter[Chambers] # 0 => \A c \in Chambers : wt(c) # 0 BY <1>14
<1> QED BY <1>9, <1>15, <1>16 DEF wt

\* A sum over some chambers of what is an integer for each of them.
LEMMA CornerTyped ==
  ASSUME NEW levels \in Grid, NEW s \in Sensors
  PROVE  Touch!Corner(levels, s) \in Int
<1> DEFINE U == Touch!Up(levels)
           f(c) == Touch!Measured(Touch!Alone(levels, c), s)
           T == Int
           g == [x \in U |-> [y \in T |-> f(x) + y]]
           Solves(h) == h = [u \in SUBSET U |-> IF u = {} THEN 0
                               ELSE f(CHOOSE x \in u : TRUE) + h[u \ {CHOOSE x \in u : TRUE}]]
           iter == CHOOSE h : Solves(h)
           ch == [u \in SUBSET U |-> CHOOSE x \in u : TRUE]
<1>0. \A l \in Grid : Touch!Measured(l, s) \in Int
  BY SourceFacts DEF Touch!Measured, Touch!Abs
<1>01. \A c \in U : c \in Chambers /\ f(c) \in Int
  <2> TAKE c \in U
  <2>1. c \in Chambers /\ levels[c] \in Touch!Levels BY DEF Touch!Up, Grid
  <2>2. 0 \in Touch!Levels BY SourceFacts
  <2>3. Touch!Alone(levels, c) \in Grid BY <2>1, <2>2 DEF Touch!Alone, Touch!AtRest, Grid
  <2> QED BY <1>0, <2>1, <2>3
<1>02. IsFiniteSet(U)
  <2>1. U \subseteq Chambers BY DEF Touch!Up
  <2> QED BY <2>1, SourceFacts, FS_Subset
<1>03. Touch!MapThenSumSet(LAMBDA c : Touch!Measured(Touch!Alone(levels, c), s), Touch!Up(levels))
         = iter[U]
  BY DEF Touch!MapThenSumSet, Touch!MapThenFoldSet
<1> HIDE DEF f, U
<1>2. \A x \in U, y \in T : g[x][y] \in T /\ g[x][y] = f(x) + y BY <1>01
<1>3. \A u \in SUBSET U : u # {} => ch[u] \in u /\ ch[u] \in U OBVIOUS
<1>4. \A u \in SUBSET U : ch[u] = CHOOSE x \in u : TRUE OBVIOUS
<1>5. PICK h \in [SUBSET U -> T] : Iterates(h, U, 0, g, ch)
  <2> HIDE DEF g, ch
  <2>1. 0 \in T OBVIOUS
  <2> HIDE DEF T
  <2> QED BY <1>02, <1>2, <1>3, <2>1, IterationExists
<1>6. \A u \in SUBSET U : h[u] = IF u = {} THEN 0 ELSE f(ch[u]) + h[u \ {ch[u]}]
  <2> HIDE DEF g, ch, T
  <2> QED BY <1>2, <1>3, <1>5 DEF Iterates
<1>7. Solves(h)
  <2> HIDE DEF g, ch, T
  <2> QED BY <1>4, <1>5, <1>6
<1>8. Solves(iter)
  <2> HIDE DEF Solves
  <2> QED BY <1>7
<1>10. iter[{}] \in T
  <2> HIDE DEF iter
  <2> QED BY <1>8
<1>11. \A u \in SUBSET U : u # {} => iter[u] = f(ch[u]) + iter[u \ {ch[u]}]
  <2> HIDE DEF iter, ch
  <2> QED BY <1>4, <1>8
<1>12. \A u \in SUBSET U : u # {} /\ iter[u \ {ch[u]}] \in T => iter[u] \in T
  <2> SUFFICES ASSUME NEW u \in SUBSET U, u # {}, iter[u \ {ch[u]}] \in T
               PROVE  iter[u] \in T
    OBVIOUS
  <2> HIDE DEF iter, ch
  <2>1. f(ch[u]) \in Int /\ iter[u \ {ch[u]}] \in Int BY <1>01, <1>3
  <2>2. iter[u] = f(ch[u]) + iter[u \ {ch[u]}] BY <1>11
  <2> QED BY <2>1, <2>2
<1> HIDE DEF iter, ch, T, g, Solves
<1>13. iter[U] \in T BY <1>02, <1>3, <1>10, <1>12, FoldKeeps
<1>14. iter[U] \in Int BY <1>13 DEF T
<1> QED BY <1>0, <1>03, <1>14 DEF Touch!Corner

LEMMA CornersFinite == IsFiniteSet([Chambers -> BOOLEAN])
<1> DEFINE f == [S \in SUBSET Chambers |-> [c \in Chambers |-> c \in S]]
<1>1. IsFiniteSet(SUBSET Chambers) BY SourceFacts, FS_SUBSET
<1>2. f \in [SUBSET Chambers -> [Chambers -> BOOLEAN]] OBVIOUS
<1>3. \A t \in [Chambers -> BOOLEAN] : \E S \in SUBSET Chambers : f[S] = t
  <2> TAKE t \in [Chambers -> BOOLEAN]
  <2> DEFINE S == {c \in Chambers : t[c]}
  <2>1. S \in SUBSET Chambers /\ f[S] = [c \in Chambers |-> c \in S] OBVIOUS
  <2>2. \A c \in Chambers : (c \in S) = t[c] OBVIOUS
  <2>3. [c \in Chambers |-> c \in S] = t
    <3> HIDE DEF S
    <3> QED BY <2>2
  <2> QED BY <2>1, <2>3
<1> HIDE DEF f
<1>4. f \in Surjection(SUBSET Chambers, [Chambers -> BOOLEAN])
  BY <1>2, <1>3 DEF Surjection
<1> QED BY <1>1, <1>4, FS_Surjection

\* What is expected of a sensor: the corners that count are measured levels.
LEMMA ExpectedTyped ==
  ASSUME NEW levels \in Grid, NEW s \in Sensors
  PROVE  Touch!Expected(levels, s) \in Int
<1> DEFINE U == [Chambers -> BOOLEAN]
           w(upper) == Touch!Product(LAMBDA c : Touch!Weight(levels[c], upper[c]), Chambers)
           at(upper) == [c \in Chambers |-> Touch!Below(levels[c]) + (IF upper[c] THEN Step ELSE 0)]
           f(upper) == IF w(upper) = 0 THEN 0 ELSE w(upper) * Touch!Corner(at(upper), s)
           T == Int
           g == [x \in U |-> [y \in T |-> f(x) + y]]
           Solves(h) == h = [u \in SUBSET U |-> IF u = {} THEN 0
                               ELSE f(CHOOSE x \in u : TRUE) + h[u \ {CHOOSE x \in u : TRUE}]]
           iter == CHOOSE h : Solves(h)
           ch == [u \in SUBSET U |-> CHOOSE x \in u : TRUE]
<1>01. \A x \in U : f(x) \in Int
  <2> TAKE x \in U
  <2>1. w(x) \in Int /\ (w(x) # 0 => \A c \in Chambers : Touch!Weight(levels[c], x[c]) # 0)
    BY WeightProduct
  <2>2. ASSUME w(x) # 0 PROVE at(x) \in Grid
    <3> SUFFICES ASSUME NEW c \in Chambers
                 PROVE  Touch!Below(levels[c]) + (IF x[c] THEN Step ELSE 0) \in Touch!Levels
      BY DEF Grid
    <3>1. levels[c] \in Touch!Levels /\ x[c] \in BOOLEAN BY DEF Grid
    <3>2. Touch!Weight(levels[c], x[c]) # 0 BY <2>1, <2>2
    <3> QED BY <3>1, <3>2, WeightTyped
  <2> HIDE DEF w, at, U
  <2>3. CASE w(x) = 0 BY <2>3
  <2>4. CASE w(x) # 0
    <3>1. Touch!Corner(at(x), s) \in Int BY <2>2, <2>4, CornerTyped
    <3>2. w(x) * Touch!Corner(at(x), s) \in Int BY <2>1, <3>1
    <3> QED BY <2>4, <3>2
  <2> QED BY <2>3, <2>4
<1>02. IsFiniteSet(U) BY CornersFinite
<1>03. Touch!Expected(levels, s) = iter[U]
  BY DEF Touch!Expected, Touch!MapThenSumSet, Touch!MapThenFoldSet
<1> HIDE DEF f, U
<1>2. \A x \in U, y \in T : g[x][y] \in T /\ g[x][y] = f(x) + y BY <1>01
<1>3. \A u \in SUBSET U : u # {} => ch[u] \in u /\ ch[u] \in U OBVIOUS
<1>4. \A u \in SUBSET U : ch[u] = CHOOSE x \in u : TRUE OBVIOUS
<1>5. PICK h \in [SUBSET U -> T] : Iterates(h, U, 0, g, ch)
  <2> HIDE DEF g, ch
  <2>1. 0 \in T OBVIOUS
  <2> HIDE DEF T
  <2> QED BY <1>02, <1>2, <1>3, <2>1, IterationExists
<1>6. \A u \in SUBSET U : h[u] = IF u = {} THEN 0 ELSE f(ch[u]) + h[u \ {ch[u]}]
  <2> HIDE DEF g, ch, T
  <2> QED BY <1>2, <1>3, <1>5 DEF Iterates
<1>7. Solves(h)
  <2> HIDE DEF g, ch, T
  <2> QED BY <1>4, <1>5, <1>6
<1>8. Solves(iter)
  <2> HIDE DEF Solves
  <2> QED BY <1>7
<1>10. iter[{}] \in T
  <2> HIDE DEF iter
  <2> QED BY <1>8
<1>11. \A u \in SUBSET U : u # {} => iter[u] = f(ch[u]) + iter[u \ {ch[u]}]
  <2> HIDE DEF iter, ch
  <2> QED BY <1>4, <1>8
<1>12. \A u \in SUBSET U : u # {} /\ iter[u \ {ch[u]}] \in T => iter[u] \in T
  <2> SUFFICES ASSUME NEW u \in SUBSET U, u # {}, iter[u \ {ch[u]}] \in T
               PROVE  iter[u] \in T
    OBVIOUS
  <2> HIDE DEF iter, ch
  <2>1. f(ch[u]) \in Int /\ iter[u \ {ch[u]}] \in Int BY <1>01, <1>3
  <2>2. iter[u] = f(ch[u]) + iter[u \ {ch[u]}] BY <1>11
  <2> QED BY <2>1, <2>2
<1> HIDE DEF iter, ch, T, g, Solves
<1>13. iter[U] \in T BY <1>02, <1>3, <1>10, <1>12, FoldKeeps
<1>14. iter[U] \in Int BY <1>13 DEF T
<1> QED BY <1>03, <1>14

LEMMA MaxOfTwo ==
  ASSUME NEW a \in Int, NEW b \in Int
  PROVE  Touch!Max({a, b}) = IF a >= b THEN a ELSE b
BY DEF Touch!Max

-----------------------------------------------------------------------------
(* The stream of frames and those who listen to it *)

TouchTyped ==
  /\ tuning \in Tunings /\ air \in Grid /\ said \in Grid /\ finger \in [Sensors -> Fingers]
  /\ guard = [ref |-> guard.ref, unsettled |-> guard.unsettled]
  /\ guard.unsettled \subseteq Chambers
  /\ seen.mag \in [Sensors -> Nat] /\ seen.act \subseteq Sensors
  /\ router.peaks \in [Sensors -> Nat]

\* A press has the strength of a touch from its first frame to its release.
Followed ==
  /\ router.active = seen.act
  /\ \A s \in Sensors :
       /\ s \in router.active => /\ router.peaks[s] >= Threshold * Touch!Unit
                                 /\ router.peaks[s] >= seen.mag[s]
       /\ s \notin router.active => router.peaks[s] = 0
       /\ router.done[s] = 0 \/ router.done[s] >= Threshold * Touch!Unit
       /\ beat[s].onset => s \in seen.act

SourceInv == TouchTyped /\ Followed

LEMMA HeardTyped ==
  ASSUME TouchTyped
  PROVE  /\ Touch!Heard.mag \in [Sensors -> Nat]
         /\ Touch!Heard.act = {s \in Sensors : Touch!Heard.mag[s] >= Threshold * Touch!Unit}
<1> DEFINE o == IF tuning.enabled THEN Touch!Compensated
                ELSE [mag |-> [s \in Sensors |-> Touch!Abs(Touch!Raw(s)) * Touch!Unit], act |-> {}]
<1>1. \A s \in Sensors : Touch!Raw(s) \in Int
  BY SourceFacts DEF TouchTyped, Touch!Raw
<1>2. Touch!Unit \in Nat \ {0} BY UnitPositive
<1>3. \A x \in Int : Touch!Abs(x) \in Nat BY DEF Touch!Abs
<1>4. \A s \in Sensors : Touch!Residual(s) \in Nat
  <2> TAKE s \in Sensors
  <2> DEFINE off == Touch!Expected(said, s)
             raw == Touch!Raw(s)
             un == Touch!Unit
  <2>1. off \in Int BY ExpectedTyped DEF TouchTyped
  <2>2. raw \in Int /\ un \in Nat /\ Touch!Abs(raw) \in Nat BY <1>1, <1>2, <1>3
  <2>3. Touch!Residual(s) = IF tuning.vec THEN Touch!Abs((raw * un) - off)
                            ELSE Touch!Max({0, (Touch!Abs(raw) * un) - off})
    BY DEF Touch!Residual
  <2> HIDE DEF off, raw, un
  <2>4. (raw * un) - off \in Int BY <2>1, <2>2
  <2>5. Touch!Abs((raw * un) - off) \in Nat BY <1>3, <2>4
  <2>6. (Touch!Abs(raw) * un) - off \in Int BY <2>1, <2>2
  <2>7. Touch!Max({0, (Touch!Abs(raw) * un) - off}) \in Nat BY <2>6, MaxOfTwo
  <2> QED BY <2>3, <2>5, <2>7
<1>5. \A s \in Sensors : Touch!Abs(Touch!Raw(s)) * Touch!Unit \in Nat BY <1>1, <1>2, <1>3
<1>6. /\ o.mag \in [Sensors -> Nat] /\ o = [mag |-> o.mag, act |-> o.act]
  <2>1. CASE tuning.enabled BY <1>4, <2>1 DEF Touch!Compensated
  <2>2. CASE ~tuning.enabled BY <1>5, <2>2
  <2> QED BY <2>1, <2>2
<1>7. Touch!Heard = [o EXCEPT !.act = {s \in Sensors : o.mag[s] >= Threshold * Touch!Unit}]
  BY DEF Touch!Heard, Touch!DeriveActive
<1> HIDE DEF o
<1> QED BY <1>6, <1>7

LEMMA SourceInitial == Touch!TouchInit => SourceInv
<1> SUFFICES ASSUME Touch!TouchInit PROVE SourceInv OBVIOUS
<1>1. 0 \in Touch!Levels /\ 0 \in Fingers BY SourceFacts
<1>2. TouchTyped BY <1>1 DEF Touch!TouchInit, TouchTyped, Touch!AtRest, Grid
<1>3. Followed BY DEF Touch!TouchInit, Followed
<1> QED BY <1>2, <1>3 DEF SourceInv

LEMMA FrameKeeps ==
  ASSUME SourceInv, Touch!Frame
  PROVE  SourceInv'
<1> DEFINE H == Touch!Heard
           K == Threshold * Touch!Unit
<1>0. TouchTyped /\ Followed BY DEF SourceInv
<1>1. K \in Nat \ {0}
  <2>1. Threshold \in Nat \ {0} /\ Touch!Unit \in Nat \ {0} BY SourceFacts, UnitPositive
  <2> DEFINE un == Touch!Unit
  <2> HIDE DEF un
  <2>2. \A x, y \in Nat \ {0} : x * y \in Nat \ {0} OBVIOUS
  <2> QED BY <2>1, <2>2
<1>2. H.mag \in [Sensors -> Nat] /\ H.act = {s \in Sensors : H.mag[s] >= K}
  BY <1>0, HeardTyped
<1>3. /\ seen' = H /\ router' = Touch!Routed(H)
      /\ beat' = [s \in Sensors |-> Touch!Compressed(s, H.mag[s])]
      /\ UNCHANGED <<tuning, moves, air, said, finger>>
  BY DEF Touch!Frame
<1>4. /\ guard' = [ref |-> guard'.ref, unsettled |-> guard'.unsettled]
      /\ guard'.unsettled \subseteq Chambers
  <2>1. CASE tuning.enabled /\ tuning.guard
    <3>1. guard' = [ref |-> said, unsettled |-> Touch!Unsettled] BY <2>1 DEF Touch!Frame
    <3>2. Touch!Unsettled \subseteq Chambers
      BY <1>0 DEF Touch!Unsettled, Touch!Moved, TouchTyped
    <3> QED BY <3>1, <3>2
  <2>2. CASE ~(tuning.enabled /\ tuning.guard)
    <3>1. guard' = guard BY <2>2 DEF Touch!Frame
    <3> QED BY <1>0, <3>1 DEF TouchTyped
  <2> QED BY <2>1, <2>2
<1> DEFINE peak(s) == IF s \notin H.act THEN 0
                      ELSE IF s \in router.active THEN Touch!Max({H.mag[s], router.peaks[s]})
                      ELSE H.mag[s]
           done(s) == IF s \in router.active \ H.act THEN router.peaks[s] ELSE 0
<1>5. /\ router'.active = H.act
      /\ router'.peaks = [s \in Sensors |-> peak(s)]
      /\ router'.done = [s \in Sensors |-> done(s)]
  BY <1>3 DEF Touch!Routed
<1> HIDE DEF H, K
<1>6. \A s \in Sensors : /\ peak(s) \in Nat
                         /\ s \in H.act => peak(s) >= H.mag[s] /\ peak(s) >= K
                         /\ s \notin H.act => peak(s) = 0
  <2> TAKE s \in Sensors
  <2>1. H.mag[s] \in Nat /\ router.peaks[s] \in Nat /\ K \in Nat
    BY <1>0, <1>1, <1>2 DEF TouchTyped
  <2>2. s \in H.act => H.mag[s] >= K BY <1>2
  <2>3. LET m == Touch!Max({H.mag[s], router.peaks[s]}) IN m \in Nat /\ m >= H.mag[s]
    BY <2>1, MaxOfTwo
  <2> QED BY <2>1, <2>2, <2>3
<1>7. \A s \in Sensors : done(s) = 0 \/ done(s) >= K
  BY <1>0 DEF Followed, K
<1>8. \A s \in Sensors : beat'[s].onset => s \in H.act
  <2> SUFFICES ASSUME NEW s \in Sensors, Touch!Compressed(s, H.mag[s]).onset
               PROVE  H.mag[s] >= K
    BY <1>2, <1>3
  <2> QED BY DEF Touch!Compressed, K
<1> HIDE DEF peak, done
<1>9. TouchTyped'
  <2>1. router'.peaks \in [Sensors -> Nat] BY <1>5, <1>6
  <2>2. seen'.mag \in [Sensors -> Nat] /\ seen'.act \subseteq Sensors BY <1>2, <1>3
  <2> QED BY <1>0, <1>3, <1>4, <2>1, <2>2 DEF TouchTyped
<1>10. Followed'
  <2>1. Followed' <=>
          /\ router'.active = seen'.act
          /\ \A s \in Sensors :
               /\ s \in router'.active => router'.peaks[s] >= K /\ router'.peaks[s] >= seen'.mag[s]
               /\ s \notin router'.active => router'.peaks[s] = 0
               /\ router'.done[s] = 0 \/ router'.done[s] >= K
               /\ beat'[s].onset => s \in seen'.act
    BY DEF Followed, K, Touch!Unit
  <2> QED BY <1>3, <1>5, <1>6, <1>7, <1>8, <2>1
<1> QED BY <1>9, <1>10 DEF SourceInv

LEMMA OthersKeep ==
  ASSUME SourceInv, Touch!Settle \/ Touch!Pump \/ Touch!Status \/ Touch!Press
  PROVE  SourceInv'
<1>0. TouchTyped /\ Followed BY DEF SourceInv
<1>1. UNCHANGED <<tuning, seen, router, beat>>
  BY DEF Touch!Settle, Touch!Pump, Touch!Status, Touch!Press
<1>2. Followed' BY <1>0, <1>1 DEF Followed, Touch!Unit
<1>3. CASE Touch!Settle
  <2>1. PICK c \in guard.unsettled : guard' = [guard EXCEPT !.unsettled = @ \ {c}]
    BY <1>3 DEF Touch!Settle
  <2>2. guard' = [ref |-> guard.ref, unsettled |-> guard.unsettled \ {c}]
    BY <1>0, <2>1 DEF TouchTyped
  <2> QED BY <1>0, <1>1, <1>2, <1>3, <2>2 DEF SourceInv, TouchTyped, Touch!Settle
<1>4. CASE Touch!Pump
  <2>1. PICK c \in Chambers, q \in Touch!Levels : air' = [air EXCEPT ![c] = q]
    BY <1>4 DEF Touch!Pump
  <2>2. air' \in Grid BY <1>0, <2>1 DEF TouchTyped, Grid
  <2> QED BY <1>0, <1>1, <1>2, <1>4, <2>2 DEF SourceInv, TouchTyped, Touch!Pump
<1>5. CASE Touch!Status
  <2>1. PICK c \in Chambers : said' = [said EXCEPT ![c] = air[c]] BY <1>5 DEF Touch!Status
  <2>2. said' \in Grid BY <1>0, <2>1 DEF TouchTyped, Grid
  <2> QED BY <1>0, <1>1, <1>2, <1>5, <2>2 DEF SourceInv, TouchTyped, Touch!Status
<1>6. CASE Touch!Press
  <2>1. PICK s \in Sensors, f \in Fingers : finger' = [finger EXCEPT ![s] = f]
    BY <1>6 DEF Touch!Press
  <2>2. finger' \in [Sensors -> Fingers] BY <1>0, <2>1 DEF TouchTyped
  <2> QED BY <1>0, <1>1, <1>2, <1>6, <2>2 DEF SourceInv, TouchTyped, Touch!Press
<1> QED BY <1>3, <1>4, <1>5, <1>6

LEMMA SourceStep ==
  ASSUME SourceInv, [StudyNext]_<<part, vars, calibration, touch>>
  PROVE  SourceInv'
<1>1. CASE UNCHANGED touch
  BY <1>1 DEF touch, SourceInv, TouchTyped, Followed, Touch!Unit
<1>2. CASE Touch!TouchNext BY <1>2, FrameKeeps, OthersKeep DEF Touch!TouchNext
<1> QED BY <1>1, <1>2 DEF StudyNext

LEMMA SourceImplies == SourceInv => Touch!TouchTypeOK /\ Touch!ListenersAgree
<1> SUFFICES ASSUME TouchTyped, Followed PROVE Touch!TouchTypeOK /\ Touch!ListenersAgree
  BY DEF SourceInv
<1>1. Touch!TouchTypeOK BY DEF TouchTyped, Touch!TouchTypeOK, Grid
<1>2. Touch!Unit \in Nat \ {0} /\ Threshold \in Nat \ {0} BY UnitPositive, SourceFacts
<1> DEFINE K == Threshold * Touch!Unit
<1>3. K \in Nat \ {0}
  <2> DEFINE un == Touch!Unit
  <2> HIDE DEF un
  <2>2. \A x, y \in Nat \ {0} : x * y \in Nat \ {0} OBVIOUS
  <2> QED BY <1>2, <2>2
<1>4. router.active = seen.act
      /\ \A s \in Sensors :
           /\ s \in router.active => router.peaks[s] >= K /\ router.peaks[s] >= seen.mag[s]
           /\ s \notin router.active => router.peaks[s] = 0
           /\ router.done[s] = 0 \/ router.done[s] >= K
           /\ beat[s].onset => s \in seen.act
  BY DEF Followed
<1>5. \A s \in Sensors : router.peaks[s] \in Nat BY DEF TouchTyped
<1>6. Touch!ListenersAgree <=>
        /\ router.active = seen.act
        /\ \A s \in Sensors :
             /\ s \in router.active <=> router.peaks[s] > 0
             /\ router.peaks[s] >= IF s \in seen.act THEN seen.mag[s] ELSE 0
             /\ router.done[s] = 0 \/ router.done[s] >= K
             /\ beat[s].onset => s \in seen.act
  BY DEF Touch!ListenersAgree
<1> HIDE DEF K
<1> QED BY <1>1, <1>3, <1>4, <1>5, <1>6

\* Whatever field the magnets are in and however it was measured: magnitudes are
\* never negative, a sensor is pressed exactly while the stream has it active, its
\* peak and its release carry the strength of a touch, and every compression the
\* rhythm counts is one of a touch (touch_event_router.py, touch_rhythm.py).
THEOREM ListenersFollow == StudySpec => [](Touch!TouchTypeOK /\ Touch!ListenersAgree)
<1>1. StudyInit => SourceInv BY SourceInitial DEF StudyInit
<1>2. SourceInv /\ [StudyNext]_<<part, vars, calibration, touch>> => SourceInv' BY SourceStep
<1> QED BY <1>1, <1>2, SourceImplies, PTL DEF StudySpec
-----------------------------------------------------------------------------
(* Where the field was measured the compensation is exact. *)

\* Every chamber is at a level the sweep has measured, together with the others.
Swept(levels) ==
  (\A c \in Chambers : levels[c] % Step = 0) /\ Touch!Up(levels) \notin tuning.unmeasured

\* At a measured level the lower neighbour has all the weight.
LEMMA WeightMeasured ==
  ASSUME NEW q \in Touch!Levels, q % Step = 0
  PROVE  Touch!Weight(q, FALSE) = Step /\ Touch!Weight(q, TRUE) = 0 /\ Touch!Below(q) = q
BY SourceFacts DEF Touch!Weight, Touch!Below

\* ... and in the product over the chambers that is one unit.
LEMMA WeightUnit ==
  ASSUME NEW levels \in Grid, NEW upper \in [Chambers -> BOOLEAN],
         \A c \in Chambers : levels[c] % Step = 0, \A c \in Chambers : ~upper[c]
  PROVE  Touch!Product(LAMBDA c : Touch!Weight(levels[c], upper[c]), Chambers) = Touch!Unit
<1> DEFINE T == Int
           wt(c) == Touch!Weight(levels[c], upper[c])
           g == [x \in Chambers |-> [y \in T |-> wt(x) * y]]
           One(h) == h = [u \in SUBSET Chambers |-> IF u = {} THEN 1
                               ELSE wt(CHOOSE x \in u : TRUE) * h[u \ {CHOOSE x \in u : TRUE}]]
           Two(h) == h = [u \in SUBSET Chambers |-> IF u = {} THEN 1
                               ELSE Step * h[u \ {CHOOSE x \in u : TRUE}]]
           iter == CHOOSE h : One(h)
           unit == CHOOSE h : Two(h)
           ch == [u \in SUBSET Chambers |-> CHOOSE x \in u : TRUE]
<1>0. \A c \in Chambers : wt(c) = Step
  <2> TAKE c \in Chambers
  <2>1. levels[c] \in Touch!Levels /\ upper[c] = FALSE BY DEF Grid
  <2> QED BY <2>1, WeightMeasured
<1>1. Touch!Product(LAMBDA c : Touch!Weight(levels[c], upper[c]), Chambers) = iter[Chambers]
  BY DEF Touch!Product, Touch!FoldSet, Touch!MapThenFoldSet
<1>2. Touch!Unit = unit[Chambers]
  BY DEF Touch!Unit, Touch!Product, Touch!FoldSet, Touch!MapThenFoldSet
<1> HIDE DEF wt
<1>3. IsFiniteSet(Chambers) /\ Step \in Int BY SourceFacts
<1>4. \A x \in Chambers, y \in T : g[x][y] \in T /\ g[x][y] = Step * y BY <1>0, <1>3
<1>5. \A u \in SUBSET Chambers : u # {} => ch[u] \in u /\ ch[u] \in Chambers OBVIOUS
<1>6. \A u \in SUBSET Chambers : ch[u] = CHOOSE x \in u : TRUE OBVIOUS
<1>7. PICK h \in [SUBSET Chambers -> T] : Iterates(h, Chambers, 1, g, ch)
  <2> HIDE DEF g, ch
  <2>1. 1 \in T OBVIOUS
  <2> HIDE DEF T
  <2> QED BY <1>3, <1>4, <1>5, <2>1, IterationExists
<1>8. \A u \in SUBSET Chambers : h[u] = IF u = {} THEN 1 ELSE Step * h[u \ {ch[u]}]
  <2> HIDE DEF g, ch, T
  <2> QED BY <1>4, <1>5, <1>7 DEF Iterates
<1>9. Two(h) /\ One(h)
  <2> HIDE DEF g, ch, T
  <2>1. Two(h) BY <1>6, <1>7, <1>8
  <2>2. \A u \in SUBSET Chambers : h[u] = IF u = {} THEN 1 ELSE wt(ch[u]) * h[u \ {ch[u]}]
    BY <1>0, <1>5, <1>8
  <2>3. One(h) BY <1>6, <1>7, <2>2
  <2> QED BY <2>1, <2>3
<1>10. One(iter) /\ Two(unit)
  <2> HIDE DEF One, Two
  <2> QED BY <1>9
<1>11. \A u \in SUBSET Chambers :
         /\ iter[u] = IF u = {} THEN 1 ELSE Step * iter[u \ {ch[u]}]
         /\ unit[u] = IF u = {} THEN 1 ELSE Step * unit[u \ {ch[u]}]
  <2> HIDE DEF iter, unit, ch
  <2>1. \A u \in SUBSET Chambers :
          iter[u] = IF u = {} THEN 1 ELSE wt(ch[u]) * iter[u \ {ch[u]}]
    BY <1>6, <1>10
  <2>2. \A u \in SUBSET Chambers : unit[u] = IF u = {} THEN 1 ELSE Step * unit[u \ {ch[u]}]
    BY <1>6, <1>10
  <2> QED BY <1>0, <1>5, <2>1, <2>2
<1> HIDE DEF iter, unit, ch, T, g, One, Two
<1> DEFINE same == [u \in SUBSET Chambers |-> IF iter[u] = unit[u] THEN 1 ELSE 0]
<1>12. same[{}] \in {1} BY <1>11
<1>13. \A u \in SUBSET Chambers : u # {} /\ same[u \ {ch[u]}] \in {1} => same[u] \in {1}
  BY <1>11
<1>14. \A u \in SUBSET Chambers : u # {} => ch[u] \in u BY <1>5
<1>15. same[Chambers] \in {1}
  <2> HIDE DEF same
  <2> QED BY <1>3, <1>12, <1>13, <1>14, FoldKeeps
<1> QED BY <1>1, <1>2, <1>15

\* What is expected at a measured level is what was measured there.
LEMMA MeasuredExact ==
  ASSUME NEW levels \in Grid, NEW s \in Sensors, Swept(levels)
  PROVE  Touch!Expected(levels, s) = Touch!Unit * Touch!Measured(levels, s)
<1> DEFINE U == [Chambers -> BOOLEAN]
           w(upper) == Touch!Product(LAMBDA c : Touch!Weight(levels[c], upper[c]), Chambers)
           at(upper) == [c \in Chambers |-> Touch!Below(levels[c]) + (IF upper[c] THEN Step ELSE 0)]
           f(upper) == IF w(upper) = 0 THEN 0 ELSE w(upper) * Touch!Corner(at(upper), s)
           T == Int
           g == [x \in U |-> [y \in T |-> f(x) + y]]
           Solves(h) == h = [u \in SUBSET U |-> IF u = {} THEN 0
                               ELSE f(CHOOSE x \in u : TRUE) + h[u \ {CHOOSE x \in u : TRUE}]]
           iter == CHOOSE h : Solves(h)
           ch == [u \in SUBSET U |-> CHOOSE x \in u : TRUE]
           low == [c \in Chambers |-> FALSE]
<1>01. low \in U OBVIOUS
<1>02. f(low) = Touch!Unit * Touch!Measured(levels, s)
  <2>1. w(low) = Touch!Unit BY <1>01, WeightUnit DEF Swept
  <2>2. at(low) = levels
    <3>1. \A c \in Chambers : Touch!Below(levels[c]) = levels[c] /\ levels[c] \in Int
      <4> TAKE c \in Chambers
      <4>1. levels[c] \in Touch!Levels /\ levels[c] % Step = 0 BY DEF Grid, Swept
      <4>2. Touch!Below(levels[c]) = levels[c] BY <4>1, WeightMeasured
      <4>3. levels[c] \in Int BY <4>1, SourceFacts
      <4> QED BY <4>2, <4>3
    <3>2. \A c \in Chambers : at(low)[c] = levels[c] BY <3>1
    <3> QED BY <3>2 DEF Grid
  <2>3. Touch!Corner(levels, s) = Touch!Measured(levels, s) BY DEF Touch!Corner, Swept
  <2>4. Touch!Unit # 0 BY UnitPositive
  <2> HIDE DEF w, at, low
  <2> QED BY <2>1, <2>2, <2>3, <2>4
<1>03. \A x \in U : x # low => f(x) = 0
  <2> SUFFICES ASSUME NEW x \in U, x # low PROVE w(x) = 0 OBVIOUS
  <2>1. PICK c \in Chambers : x[c] = TRUE
    <3> SUFFICES ASSUME \A c \in Chambers : x[c] # TRUE PROVE x = low OBVIOUS
    <3>1. \A c \in Chambers : x[c] = FALSE OBVIOUS
    <3> QED BY <3>1
  <2>2. levels[c] \in Touch!Levels /\ levels[c] % Step = 0 BY DEF Grid, Swept
  <2>3. Touch!Weight(levels[c], x[c]) = 0 BY <2>1, <2>2, WeightMeasured
  <2> QED BY <2>3, WeightProduct
<1>04. Touch!Measured(levels, s) \in Int BY SourceFacts DEF Touch!Measured, Touch!Abs
<1>05. f(low) \in Int
  <2>1. Touch!Unit \in Int BY UnitPositive
  <2> HIDE DEF f
  <2> QED BY <1>02, <1>04, <2>1
<1>06. IsFiniteSet(U) BY CornersFinite
<1>07. Touch!Expected(levels, s) = iter[U]
  BY DEF Touch!Expected, Touch!MapThenSumSet, Touch!MapThenFoldSet
<1> HIDE DEF f, U, low
<1>1. \A x \in U : f(x) \in Int BY <1>03, <1>05
<1>2. \A x \in U, y \in T : g[x][y] \in T /\ g[x][y] = f(x) + y BY <1>1
<1>3. \A u \in SUBSET U : u # {} => ch[u] \in u /\ ch[u] \in U OBVIOUS
<1>4. \A u \in SUBSET U : ch[u] = CHOOSE x \in u : TRUE OBVIOUS
<1>5. PICK h \in [SUBSET U -> T] : Iterates(h, U, 0, g, ch)
  <2> HIDE DEF g, ch
  <2>1. 0 \in T OBVIOUS
  <2> HIDE DEF T
  <2> QED BY <1>06, <1>2, <1>3, <2>1, IterationExists
<1>6. \A u \in SUBSET U : h[u] = IF u = {} THEN 0 ELSE f(ch[u]) + h[u \ {ch[u]}]
  <2> HIDE DEF g, ch, T
  <2> QED BY <1>2, <1>3, <1>5 DEF Iterates
<1>7. Solves(h)
  <2> HIDE DEF g, ch, T
  <2> QED BY <1>4, <1>5, <1>6
<1>8. Solves(iter)
  <2> HIDE DEF Solves
  <2> QED BY <1>7
<1>9. \A u \in SUBSET U : iter[u] = IF u = {} THEN 0 ELSE f(ch[u]) + iter[u \ {ch[u]}]
  <2> HIDE DEF iter, ch
  <2> QED BY <1>4, <1>8
<1> HIDE DEF iter, ch, T, g, Solves
<1> DEFINE right == [u \in SUBSET U |-> IF iter[u] = (IF low \in u THEN f(low) ELSE 0) THEN 1 ELSE 0]
<1>10. right[{}] \in {1} BY <1>9
<1>11. \A u \in SUBSET U : u # {} /\ right[u \ {ch[u]}] \in {1} => right[u] \in {1}
  <2> SUFFICES ASSUME NEW u \in SUBSET U, u # {}, right[u \ {ch[u]}] \in {1}
               PROVE  right[u] \in {1}
    OBVIOUS
  <2>1. ch[u] \in u /\ ch[u] \in U /\ u \ {ch[u]} \in SUBSET U BY <1>3
  <2>2. iter[u \ {ch[u]}] = IF low \in u \ {ch[u]} THEN f(low) ELSE 0 BY <2>1
  <2>3. iter[u] = f(ch[u]) + iter[u \ {ch[u]}] BY <1>9
  <2>4. CASE ch[u] = low BY <1>05, <2>1, <2>2, <2>3, <2>4
  <2>5. CASE ch[u] # low
    <3>1. f(ch[u]) = 0 BY <1>03, <2>1, <2>5
    <3> QED BY <1>05, <2>1, <2>2, <2>3, <2>5, <3>1
  <2> QED BY <2>4, <2>5
<1>12. \A u \in SUBSET U : u # {} => ch[u] \in u BY <1>3
<1>13. right[U] \in {1}
  <2> HIDE DEF right
  <2> QED BY <1>06, <1>10, <1>11, <1>12, FoldKeeps
<1> QED BY <1>01, <1>02, <1>07, <1>13

\* Where the sweep has measured, no level is taken for a finger nor hides a firm one.
ExactWhereSwept ==
  tuning.enabled /\ said = air /\ Swept(air) =>
    \A s \in Sensors :
      /\ finger[s] = 0 => s \notin Touch!Heard.act
      /\ tuning.vec /\ Touch!Abs(finger[s]) >= Threshold /\ ~Touch!Suppressed(s) =>
           s \in Touch!Heard.act

LEMMA OneUnit ==
  ASSUME NEW x \in Int, NEW f \in Int, NEW u \in Nat \ {0}, NEW t \in Nat \ {0}
  PROVE  /\ ((x + f) * u) - (u * x) = f * u
         /\ Touch!Abs(f) >= t => Touch!Abs(f * u) >= t * u
         /\ t * u > 0
<1>1. (x + f) * u = x * u + f * u /\ x * u = u * x OBVIOUS
<1>2. x * u \in Int /\ f * u \in Int /\ u * x \in Int OBVIOUS
<1>3. ((x + f) * u) - (u * x) = f * u BY <1>1, <1>2
<1>4. t * u > 0 OBVIOUS
<1>5. ASSUME Touch!Abs(f) >= t PROVE Touch!Abs(f * u) >= t * u
  <2>1. CASE f >= t
    <3>1. f * u >= t * u BY <2>1
    <3> QED BY <1>2, <1>4, <3>1 DEF Touch!Abs
  <2>2. CASE -f >= t
    <3>1. (-f) * u >= t * u BY <2>2
    <3>2. (-f) * u = -(f * u) OBVIOUS
    <3> QED BY <1>2, <1>4, <3>1, <3>2 DEF Touch!Abs
  <2> QED BY <1>5, <2>1, <2>2 DEF Touch!Abs
<1> QED BY <1>3, <1>4, <1>5

LEMMA SweptIsExact == ASSUME TouchTyped PROVE ExactWhereSwept
<1> SUFFICES ASSUME tuning.enabled, said = air, Swept(air), NEW s \in Sensors
             PROVE  /\ finger[s] = 0 => s \notin Touch!Heard.act
                    /\ tuning.vec /\ Touch!Abs(finger[s]) >= Threshold /\ ~Touch!Suppressed(s) =>
                         s \in Touch!Heard.act
  BY DEF ExactWhereSwept
<1> DEFINE x == Field[air][s]
           f == finger[s]
           u == Touch!Unit
<1>1. x \in Int /\ f \in Int /\ air \in Grid
  <2>1. air \in Grid /\ finger \in [Sensors -> Fingers] BY DEF TouchTyped
  <2> QED BY <2>1, SourceFacts
<1>2. u \in Nat \ {0} /\ Threshold \in Nat \ {0} BY UnitPositive, SourceFacts
<1>3. Touch!Expected(said, s) = u * Touch!Measured(air, s) BY <1>1, MeasuredExact
<1>4. Touch!Heard.mag[s] = IF Touch!Suppressed(s) THEN 0 ELSE Touch!Residual(s)
  BY DEF Touch!Heard, Touch!DeriveActive, Touch!Compensated
<1>5. s \in Touch!Heard.act <=> Touch!Heard.mag[s] >= Threshold * u
  BY HeardTyped
<1>6. Touch!Raw(s) = x + f BY DEF Touch!Raw
<1>7. CASE tuning.vec
  <2>1. Touch!Measured(air, s) = x BY <1>7 DEF Touch!Measured
  <2>2. Touch!Residual(s) = Touch!Abs(((x + f) * u) - (u * x))
    BY <1>3, <1>6, <1>7, <2>1 DEF Touch!Residual
  <2> HIDE DEF x, f, u
  <2>3. Touch!Residual(s) = Touch!Abs(f * u) BY <1>1, <1>2, <2>2, OneUnit
  <2>4. Threshold * u > 0 /\ (Touch!Abs(f) >= Threshold => Touch!Abs(f * u) >= Threshold * u)
    BY <1>1, <1>2, OneUnit
  <2>5. f = 0 => Touch!Abs(f * u) = 0 BY <1>2 DEF Touch!Abs
  <2>6. f = 0 => Touch!Heard.mag[s] = 0 BY <1>4, <2>3, <2>5
  <2>7. f = 0 => s \notin Touch!Heard.act BY <1>2, <1>5, <2>4, <2>6
  <2>8. Touch!Abs(f) >= Threshold /\ ~Touch!Suppressed(s) => s \in Touch!Heard.act
    BY <1>4, <1>5, <2>3, <2>4
  <2> QED BY <2>7, <2>8 DEF f
<1>8. CASE ~tuning.vec
  <2>1. Touch!Measured(air, s) = Touch!Abs(x) BY <1>8 DEF Touch!Measured
  <2>2. ASSUME f = 0 PROVE s \notin Touch!Heard.act
    <3>1. Touch!Raw(s) = x BY <1>1, <1>6, <2>2
    <3>2. Touch!Residual(s) = Touch!Max({0, (Touch!Abs(x) * u) - (u * Touch!Abs(x))})
      BY <1>3, <1>8, <2>1, <3>1 DEF Touch!Residual
    <3> HIDE DEF x, f, u
    <3>3. Touch!Abs(x) \in Int BY <1>1 DEF Touch!Abs
    <3>4. (Touch!Abs(x) * u) - (u * Touch!Abs(x)) = 0 BY <1>2, <3>3
    <3>5. Touch!Residual(s) = 0 BY <3>2, <3>4, MaxOfTwo
    <3>6. Touch!Heard.mag[s] = 0 BY <1>4, <3>5
    <3>7. Threshold * u > 0 BY <1>2
    <3> QED BY <1>2, <1>5, <3>6, <3>7
  <2> QED BY <1>8, <2>2
<1> QED BY <1>7, <1>8

\* "So an inflating chamber can't fake a touch" (skin.py:203), and "a real press
\* still stands out" (TOUCH_COUPLING.md:84): in any field, while every chamber is at
\* a level the sweep has measured and the status has caught up, inflation is no touch,
\* and with a vector calibration a press of the threshold's strength is one.
THEOREM ExactCompensation == StudySpec => []ExactWhereSwept
<1>1. StudyInit => SourceInv BY SourceInitial DEF StudyInit
<1>2. SourceInv /\ [StudyNext]_<<part, vars, calibration, touch>> => SourceInv' BY SourceStep
<1>3. SourceInv => ExactWhereSwept BY SweptIsExact DEF SourceInv
<1> QED BY <1>1, <1>2, <1>3, PTL DEF StudySpec
=============================================================================
