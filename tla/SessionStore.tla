---------------------------- MODULE SessionStore ----------------------------
(***************************************************************************)
(* The tables a study session lives in (data/database.py), as functions from *)
(* a database to the one a transaction leaves: the session rows, what hangs  *)
(* on them, the counter ids come from, and the trash with its bundles.      *)
(***************************************************************************)
EXTENDS Naturals, FiniteSetsExt, Functions

CONSTANTS Sessions,   \* session ids, in the order the counter gives them out
          Skins, People

None    == "none"
Unknown == "unknown"   \* the participant of a touch nobody was assigned

ASSUME StoreAssumption == Sessions \subseteq Nat \ {0} /\ None \notin People

NoAssignment == [k \in Skins |-> {}]
EmptyDb == [row    |-> [s \in Sessions |-> "none"],   \* "open": no end time
            kids   |-> [s \in Sessions |-> {}],       \* session_participants
            asg    |-> [s \in Sessions |-> NoAssignment],
            events |-> {},
            bin    |-> <<>>,                          \* trashed_sessions
            last   |-> 0]                             \* counters: session

\* An upsert, which also moves the counter up to the id.
SaveSession(d, s, row) == [d EXCEPT !.row[s] = row, !.last = IF s > @ THEN s ELSE @]

\* Rows are keyed by session, robot and participant and only ever merged: a
\* skin given to a second participant stays with the first one too.
SaveAssignment(d, s, k, p) == [d EXCEPT !.asg[s][k] = @ \cup {p}]

LinkParticipants(d, s, kids) == [d EXCEPT !.kids[s] = @ \cup kids]

EventsOf(d, s) == {e \in d.events : e.s = s}

\* What the "start" event says, read back on resume: nothing when it was never
\* written.
HasStartMeta(d, s) == \E e \in EventsOf(d, s) : e.kind = "start" /\ e.robots

MostRecent(S) == CHOOSE s \in S : \A t \in S : t <= s
ActiveSessions(d) == {s \in Sessions : d.row[s] = "open"}

NextSessionId(d) == d.last + 1

DeleteLive(d, s) == [d EXCEPT !.row[s] = "none", !.kids[s] = {}, !.asg[s] = NoAssignment,
                              !.events = @ \ EventsOf(d, s)]

Bundle(d, s) == [row |-> d.row[s], kids |-> d.kids[s], asg |-> d.asg[s],
                 events |-> EventsOf(d, s)]

\* One transaction; a bundle already under that id is replaced.
TrashSession(d, s) ==
  LET binned == [t \in DOMAIN d.bin \cup {s} |-> IF t = s THEN Bundle(d, s) ELSE d.bin[t]]
  IN  DeleteLive([d EXCEPT !.bin = binned], s)

\* A plain insert: it fails, and all of it with it, when the id lives.
RestoreSession(d, s) ==
  IF d.row[s] # "none" THEN d
  ELSE LET b == d.bin[s]
       IN  [d EXCEPT !.row[s] = b.row, !.kids[s] = b.kids, !.asg[s] = b.asg,
                     !.events = @ \cup b.events, !.bin = Restrict(@, DOMAIN @ \ {s})]

PurgeSessions(d, S) == [d EXCEPT !.bin = Restrict(@, DOMAIN @ \ S)]
WriteEvent(d, e)    == [d EXCEPT !.events = @ \cup {e}]
=============================================================================
