------------------------------ MODULE Session ------------------------------
(***************************************************************************)
(* A study session on the desktop: the session panel (gui/session_panel.py)  *)
(* with its question to resume, its on-touch assignment window and its       *)
(* recording, the emergency stop (gui/emergency_stop.py), the trash          *)
(* (core/session_trash.py) and the thread that writes events                *)
(* (data/database.py).  The program may be closed or crash at any point and  *)
(* be started again: the database and the files stay, the rest is gone.     *)
(*                                                                         *)
(* The GUI thread runs a handler to its end; a question on the screen keeps  *)
(* the other widgets from it, but not the panic key nor the touches.        *)
(***************************************************************************)
EXTENDS SessionStore, SequencesExt

CONSTANT Mixes   \* how often each thing may happen, and what the operator does

Mix == [crash : Nat, close : Nat, touch : Nat, release : Nat, button : Nat, trash : Nat,
        careful : BOOLEAN, faulty : BOOLEAN, starts : SUBSET {"running", "failed"},
        setups : SUBSET [kids : SUBSET People, robots : BOOLEAN, record : BOOLEAN,
                         who : [Skins -> People \cup {None}]]]
ASSUME MixesAssumption == Mixes \subseteq Mix

VARIABLES app,      \* "up" or "down"
          modal,    \* the question on the screen
          stopped,  \* the emergency-stop latch
          sess,     \* the panel: its session and all that goes with it
          evq,      \* events waiting for the writer thread
          db,       \* the database
          files,    \* recordings: the runs of the program each one holds
          owed,     \* files a trash operation has yet to move or delete
          torn,     \* sessions whose file a crash left where it was
          run,      \* this run of the program
          left      \* what may still happen
vars == <<app, modal, stopped, sess, evq, db, files, owed, torn, run, left>>

Unassigned == [k \in Skins |-> None]
Idle == [id |-> 0, act |-> None, label |-> "Pause", kids |-> {}, robots |-> FALSE,
         who |-> Unassigned, panel |-> None, queue |-> <<>>, pending |-> <<>>,
         recording |-> FALSE]
NothingOwed == [op |-> None, of |-> {}]
NoFiles == [s \in Sessions |-> {}]

Init ==
  /\ app = "down" /\ modal = None /\ stopped = FALSE /\ sess = Idle /\ evq = <<>>
  /\ db = EmptyDb /\ files = [live |-> NoFiles, bin |-> NoFiles]
  /\ owed = NothingOwed /\ torn = {} /\ run = 0
  /\ left \in Mixes

Spend(what) == left[what] > 0 /\ left' = [left EXCEPT ![what] = @ - 1]
Clickable == app = "up" /\ modal = None /\ owed = NothingOwed
InSession == sess.id # 0

-----------------------------------------------------------------------------
(* Starting, resuming and stopping *)

\* StreamRecorder.start opens the file for writing, whatever it held.
Recording(s, on) == IF on THEN [files EXCEPT !.live[s] = {run}] ELSE files

\* _open_assignment_panel: only for participants and skins not yet assigned.
PanelFor(kids, robots, who) ==
  IF kids # {} /\ robots /\ None \in Range(who) THEN "open" ELSE None

\* An activity that fails to start is logged; the session goes on without it.
Begin(s, kids, robots, who, rec) ==
  \E act \in left.starts :
    sess' = [Idle EXCEPT !.id = s, !.act = act, !.kids = kids, !.robots = robots,
               !.who = who, !.panel = PanelFor(kids, robots, who), !.recording = rec]

\* _check_for_resume: all open sessions but the last are closed, without a word.
CloseAllBut(d, keep) ==
  [d EXCEPT !.row = [s \in Sessions |-> IF @[s] = "open" /\ s \notin keep
                                          THEN "ended" ELSE @[s]]]
Boot ==
  /\ app = "down" /\ app' = "up" /\ run' = run + 1
  /\ LET A == ActiveSessions(db)
     IN  /\ modal' = IF A = {} THEN None ELSE "resume"
         /\ db' = IF A = {} THEN db ELSE CloseAllBut(db, {MostRecent(A)})
  /\ UNCHANGED <<stopped, sess, evq, files, owed, torn, left>>

DeclineLeavesOpen ==
  /\ modal = "resume" /\ modal' = None /\ UNCHANGED db
  /\ UNCHANGED <<app, stopped, sess, evq, files, owed, torn, run, left>>
\* The answer is No, or the activity is no longer in the catalog.
DeclineResume ==
  /\ modal = "resume" /\ modal' = None
  /\ db' = CloseAllBut(db, {})
  /\ UNCHANGED <<app, stopped, sess, evq, files, owed, torn, run, left>>

\* _build_skin_participant_map: of several rows for a skin one wins.
ReadMap(d, s) == {who \in [Skins -> People \cup {None}] :
                    \A k \in Skins : IF d.asg[s][k] = {} THEN who[k] = None
                                     ELSE who[k] \in d.asg[s][k]}

AcceptResume ==
  /\ modal = "resume" /\ modal' = None
  /\ LET s == MostRecent(ActiveSessions(db))
     IN  /\ \E who \in ReadMap(db, s) : Begin(s, db.kids[s], HasStartMeta(db, s), who, TRUE)
         /\ files' = Recording(s, TRUE)
  /\ UNCHANGED <<app, stopped, evq, db, owed, torn, run, left>>

\* Ids are suggested, but the field can be edited: a careful operator takes
\* what is suggested.
Offered == IF left.careful THEN {NextSessionId(db)} \cap Sessions ELSE Sessions
\* The setup and assignment dialogs: without participants or robots there is
\* nothing to assign.
Setups == {u \in left.setups : u.kids = {} \/ ~u.robots => u.who = Unassigned}
Started(s, u, who) ==
  LET d == LinkParticipants(SaveSession(db, s, "open"), s, u.kids)
  IN  [d EXCEPT !.asg[s] = [k \in Skins |-> @[k] \cup ({who[k]} \ {None})]]
StartEvent(s, robots) ==
  [s |-> s, kind |-> "start", no |-> 0, skin |-> None, who |-> "system", robots |-> robots]

NewSession ==
  /\ Clickable /\ ~InSession
  /\ \E s \in Offered, u \in Setups :
       /\ db' = Started(s, u, u.who)
       /\ evq' = Append(evq, StartEvent(s, u.robots))
       /\ \E read \in ReadMap(db', s) : Begin(s, u.kids, u.robots, read, u.record)
       /\ files' = Recording(s, u.record)
  /\ UNCHANGED <<app, modal, stopped, owed, torn, run, left>>

Down == /\ app' = "down" /\ modal' = None /\ stopped' = FALSE /\ sess' = Idle /\ evq' = <<>>
        /\ owed' = NothingOwed /\ torn' = torn \cup owed.of

\* The rows are committed one by one: a crash may leave the session without
\* some of them.
CrashDuringStart ==
  /\ Clickable /\ ~InSession /\ Spend("crash")
  /\ \E s \in Offered, u \in Setups :
       \E some \in SUBSET Skins :
         db' = Started(s, u, [k \in Skins |-> IF k \in some THEN u.who[k] ELSE None])
  /\ Down /\ UNCHANGED <<files, run>>
Crash ==
  /\ app = "up" /\ Spend("crash") /\ Down /\ UNCHANGED <<db, files, run>>

\* closeEvent: the event queue is flushed, the session stays open.
Flushed(d) == [d EXCEPT !.events = @ \cup Range(evq)]
Close ==
  /\ Clickable /\ Spend("close") /\ Down
  /\ db' = Flushed(db) /\ UNCHANGED <<files, run>>

\* _on_stop: touches still waiting for an assignment are dropped.
StopSession ==
  /\ Clickable /\ InSession
  /\ db' = SaveSession(db, sess.id, "ended") /\ sess' = Idle
  /\ UNCHANGED <<app, modal, stopped, evq, files, owed, torn, run, left>>

-----------------------------------------------------------------------------
(* Touches and whom they belong to *)

TouchEvent(kind, no, k, who) ==
  [s |-> sess.id, kind |-> kind, no |-> no, skin |-> k, who |-> who, robots |-> FALSE]
WhoOf(k) == IF sess.who[k] = None THEN Unknown ELSE sess.who[k]
Listening == app = "up" /\ InSession /\ sess.robots

Enqueue(q, k) == IF k \in Range(q) THEN q ELSE Append(q, k)

Press(k) ==
  /\ Listening /\ Spend("touch")
  /\ IF sess.who[k] = None /\ sess.panel # None
       THEN /\ sess' = [sess EXCEPT !.pending = Append(@, [skin |-> k, no |-> left.touch]),
                          !.queue = Enqueue(@, k)]
            /\ UNCHANGED evq
       ELSE /\ evq' = Append(evq, TouchEvent("press", left.touch, k, WhoOf(k)))
            /\ UNCHANGED sess
  /\ UNCHANGED <<app, modal, stopped, db, files, owed, torn, run>>

\* A release is never deferred: before its assignment it is nobody's.
Release(k) ==
  /\ Listening /\ Spend("release")
  /\ evq' = Append(evq, TouchEvent("release", 0, k, WhoOf(k)))
  /\ UNCHANGED <<app, modal, stopped, sess, db, files, owed, torn, run>>

Asking == Clickable /\ sess.panel = "open" /\ sess.queue # <<>>
\* The pending touches at some places of the list, in their order.
PendingAt(P) ==
  [n \in 1 .. Cardinality(P) |->
     sess.pending[CHOOSE i \in P : Cardinality({j \in P : j <= i}) = n]]
OfSkin(k) == {i \in DOMAIN sess.pending : sess.pending[i].skin = k}
PendingOf(k) == PendingAt(OfSkin(k))
OthersThan(k) == PendingAt(DOMAIN sess.pending \ OfSkin(k))

AssignKeepsPending(p) ==
  /\ Asking
  /\ LET k == Head(sess.queue)
     IN  /\ sess' = [sess EXCEPT !.who[k] = p, !.queue = Tail(@)]
         /\ db' = SaveAssignment(db, sess.id, k, p)
         /\ evq' = evq \o [i \in DOMAIN PendingOf(k) |->
                             TouchEvent("press", PendingOf(k)[i].no, k, p)]
  /\ UNCHANGED <<app, modal, stopped, files, owed, torn, run, left>>
AssignSkin(p) ==
  /\ Asking
  /\ LET k == Head(sess.queue)
     IN  /\ sess' = [sess EXCEPT !.who[k] = p, !.queue = Tail(@), !.pending = OthersThan(k)]
         /\ db' = SaveAssignment(db, sess.id, k, p)
         /\ evq' = evq \o [i \in DOMAIN PendingOf(k) |->
                             TouchEvent("press", PendingOf(k)[i].no, k, p)]
  /\ UNCHANGED <<app, modal, stopped, files, owed, torn, run, left>>

\* Skip logs the first touch of the skin as nobody's; later ones stay pending,
\* with nothing to ask about them until the skin is touched again.
SkipTouch ==
  /\ Asking
  /\ LET k == Head(sess.queue)
         first == Min(OfSkin(k))
     IN  IF OfSkin(k) = {}
           THEN sess' = [sess EXCEPT !.queue = Tail(@)] /\ UNCHANGED evq
           ELSE /\ sess' = [sess EXCEPT !.queue = Tail(@),
                              !.pending = PendingAt(DOMAIN sess.pending \ {first})]
                /\ evq' = Append(evq, TouchEvent("press", sess.pending[first].no, k, Unknown))
  /\ UNCHANGED <<app, modal, stopped, db, files, owed, torn, run, left>>

\* Closing its window hides the panel; touches are still deferred to it.
HidePanel ==
  /\ Clickable /\ sess.panel = "open" /\ sess' = [sess EXCEPT !.panel = "hidden"]
  /\ UNCHANGED <<app, modal, stopped, evq, db, files, owed, torn, run, left>>

-----------------------------------------------------------------------------
(* Pause and emergency stop *)

\* Pausing what did not start does nothing, the label changes all the same.
Now(act) == IF sess.act = "failed" THEN "failed" ELSE act

PauseButton ==
  /\ Clickable /\ InSession /\ Spend("button")
  /\ sess' = IF sess.label = "Pause"
               THEN [sess EXCEPT !.label = "Resume", !.act = Now("paused")]
               ELSE [sess EXCEPT !.label = "Pause", !.act = Now("running")]
  /\ UNCHANGED <<app, modal, stopped, evq, db, files, owed, torn, run>>

\* The key works on top of any question; every press stops again.
EmergencyStop ==
  /\ app = "up" /\ Spend("button") /\ stopped' = TRUE
  /\ sess' = IF InSession THEN [sess EXCEPT !.label = "Resume", !.act = Now("paused")] ELSE sess
  /\ UNCHANGED <<app, modal, evq, db, files, owed, torn, run>>

AskRearm ==
  /\ Clickable /\ stopped /\ modal' = "rearm"
  /\ UNCHANGED <<app, stopped, sess, evq, db, files, owed, torn, run, left>>

RearmKeepsLabel ==
  /\ modal = "rearm" /\ modal' = None
  /\ \/ UNCHANGED <<stopped, sess>>
     \/ /\ stopped' = FALSE
        /\ sess' = IF InSession THEN [sess EXCEPT !.act = Now("running")] ELSE sess
  /\ UNCHANGED <<app, evq, db, files, owed, torn, run, left>>
AnswerRearm ==
  /\ modal = "rearm" /\ modal' = None
  /\ \/ UNCHANGED <<stopped, sess>>
     \/ /\ stopped' = FALSE
        /\ sess' = IF InSession THEN [sess EXCEPT !.label = "Pause", !.act = Now("running")]
                   ELSE sess
  /\ UNCHANGED <<app, evq, db, files, owed, torn, run, left>>

-----------------------------------------------------------------------------
(* The writer thread *)

WriterDies ==
  /\ evq # <<>> /\ db' = WriteEvent(db, Head(evq)) /\ evq' = Tail(evq)
  /\ Head(evq).kind # "release"
  /\ UNCHANGED <<app, modal, stopped, sess, files, owed, torn, run, left>>
\* An event that cannot be written is logged and forgotten.
Writer ==
  /\ evq # <<>> /\ evq' = Tail(evq)
  /\ db' = WriteEvent(db, Head(evq)) \/ (left.faulty /\ UNCHANGED db)
  /\ UNCHANGED <<app, modal, stopped, sess, files, owed, torn, run, left>>

-----------------------------------------------------------------------------
(* The trash.  The database comes first, then the recording's file. *)

Trashable == {s \in Sessions : db.row[s] # "none" /\ (left.careful => s # sess.id)}

TrashUnflushed(s) ==
  /\ Clickable /\ Spend("trash")
  /\ db' = TrashSession(db, s) /\ owed' = [op |-> "trash", of |-> {s}]
  /\ UNCHANGED <<app, modal, stopped, sess, evq, files, torn, run>>
Trash(s) ==
  /\ Clickable /\ Spend("trash")
  /\ evq' = <<>> /\ db' = TrashSession(Flushed(db), s)
  /\ owed' = [op |-> "trash", of |-> {s}]
  /\ UNCHANGED <<app, modal, stopped, sess, files, torn, run>>

Restore(s) ==
  /\ Clickable /\ Spend("trash") /\ db' = RestoreSession(db, s)
  /\ owed' = IF db' = db THEN NothingOwed ELSE [op |-> "restore", of |-> {s}]
  /\ UNCHANGED <<app, modal, stopped, sess, evq, files, torn, run>>

\* One session for good, or all of them.
Purge(S) ==
  /\ Clickable /\ Spend("trash") /\ db' = PurgeSessions(db, S)
  /\ owed' = [op |-> "purge", of |-> S]
  /\ UNCHANGED <<app, modal, stopped, sess, evq, files, torn, run>>

Moved(f, from, to, s) ==
  IF f[from][s] = {} THEN f ELSE [f EXCEPT ![to][s] = f[from][s], ![from][s] = {}]
MoveFile(s) ==
  /\ s \in owed.of /\ LET rest == owed.of \ {s}
     IN owed' = IF rest = {} THEN NothingOwed ELSE [owed EXCEPT !.of = rest]
  /\ files' = CASE owed.op = "trash"   -> Moved(files, "live", "bin", s)
                [] owed.op = "restore" -> Moved(files, "bin", "live", s)
                [] owed.op = "purge"   -> [files EXCEPT !.live[s] = {}, !.bin[s] = {}]
  /\ UNCHANGED <<app, modal, stopped, sess, evq, db, torn, run, left>>

-----------------------------------------------------------------------------
Process == Boot \/ Close \/ Crash \/ CrashDuringStart
Panel   == DeclineResume \/ AcceptResume \/ NewSession \/ StopSession \/ HidePanel
              \/ SkipTouch \/ \E p \in sess.kids : AssignSkin(p)
Halting == PauseButton \/ EmergencyStop \/ AskRearm \/ AnswerRearm
Touches == \E k \in Skins : Press(k) \/ Release(k)
Trashing ==
  \/ \E s \in Trashable : Trash(s)
  \/ \E s \in DOMAIN db.bin : Restore(s) \/ Purge({s})
  \/ DOMAIN db.bin # {} /\ Purge(DOMAIN db.bin)
  \/ \E s \in Sessions : MoveFile(s)

Next == Process \/ Panel \/ Halting \/ Touches \/ Trashing \/ Writer

\* The writer is a thread of its own, scheduled while the program runs.
Spec == Init /\ [][Next]_vars /\ WF_vars(Writer)
-----------------------------------------------------------------------------
(* Properties *)

TypeOK ==
  /\ app \in {"up", "down"} /\ modal \in {None, "resume", "rearm"}
  /\ sess.id \in Sessions \cup {0} /\ sess.act \in {None, "running", "paused", "failed"}
  /\ sess.who \in [Skins -> People \cup {None}]
  /\ Range(sess.queue) \subseteq Skins /\ IsInjective(sess.queue)
  /\ DOMAIN db.bin \subseteq Sessions /\ owed.of \subseteq Sessions

\* Once the question of resuming is answered, the session without an end time
\* is the one on the panel, whatever crashes came before (_check_for_resume):
\* nobody is asked about another one later.
OpenIsCurrent ==
  /\ app = "up" /\ modal # "resume" => ActiveSessions(db) = {sess.id} \ {0}
  /\ Cardinality(ActiveSessions(db)) <= 1

\* The one button that pauses and resumes says what it is going to do, over
\* any order of pauses, stops, re-arms and new sessions (_on_pause reads the
\* text of the button back).
LabelHonest ==
  sess.act \in {"running", "paused"} => (sess.label = "Resume" <=> sess.act = "paused")

\* The map touches are attributed with is what the database would give back
\* after a crash (_on_skin_assigned, _build_skin_participant_map).
DurableMap ==
  InSession => \A k \in Skins : db.asg[sess.id][k] = {sess.who[k]} \ {None}

Bundled == UNION {db.bin[s].events : s \in DOMAIN db.bin}
Known == db.events \cup Bundled \cup Range(evq)
MapOf(s) == IF s \in DOMAIN db.bin THEN db.bin[s].asg ELSE db.asg[s]

\* A touch is attributed to nobody or to the participant its skin is assigned
\* to, in the live tables, in the queue and in the trash.
OneChildPerSkin ==
  \A e \in Known : e.kind \in {"press", "release"} =>
    e.who = Unknown \/ MapOf(e.s)[e.skin] = {e.who}

\* A touch waiting for its assignment has not been logged, and its skin is not
\* assigned yet.
PendingIsNew ==
  \A t \in Range(sess.pending) :
    sess.who[t.skin] = None /\ \A e \in Known : e.kind = "press" => e.no # t.no

\* It stays waiting until it is logged, the session is stopped or the program
\* ends.
PendingKept ==
  [][\A t \in Range(sess.pending) :
       \/ sess'.id = 0 \/ t \in Range(sess'.pending)
       \/ \E e \in Range(evq') : e.kind = "press" /\ e.no = t.no]_vars

\* No event or assignment outlives the session it belongs to: an event still
\* in the queue when its session is trashed goes with it (trash_session).
NoOrphans ==
  /\ \A e \in db.events : db.row[e.s] # "none"
  /\ \A s \in Sessions : db.asg[s] # NoAssignment => db.row[s] # "none"

\* Every session in the trash can be restored: its id was not given to another
\* one (next_session_id).
Restorable == \A s \in DOMAIN db.bin : db.row[s] = "none"

\* A stored event or assignment is never lost, other than by a purge: trashing
\* and restoring keep both.
Purged(s) == s \in DOMAIN db.bin \ DOMAIN db'.bin /\ db'.row[s] = "none"
NothingLost ==
  [][/\ \A e \in db.events \cup Bundled : e \in db'.events \cup Bundled' \/ Purged(e.s)
     /\ \A s \in Sessions : Purged(s) \/ \A k \in Skins : MapOf(s)[k] \subseteq MapOf(s)'[k]]_vars

\* A recording lies with its session, among the live ones or in the trash,
\* unless the program crashed in between (SessionTrash).
RecordingsFollow ==
  \A s \in Sessions \ (torn \cup owed.of) :
    /\ files.live[s] # {} => db.row[s] # "none"
    /\ files.bin[s] # {} => s \in DOMAIN db.bin

\* An event in the queue is written, or given up, as long as the program runs.
EventsWritten == (app = "up" /\ evq # <<>>) ~> (evq = <<>> \/ app = "down")

\* Touches and the children they belong to: none is lost or logged twice, and
\* each is attributed as the database remembers.
TouchesAttributed == [](DurableMap /\ OneChildPerSkin /\ PendingIsNew) /\ PendingKept

\* The live tables, the bundles in the trash and the recordings on the disk.
StoreSound == [](TypeOK /\ NoOrphans /\ Restorable /\ RecordingsFollow) /\ NothingLost
=============================================================================
