----------------------------- MODULE TouchRounds -----------------------------
(***************************************************************************)
(* Rounds of a group that presses together (activities/touch_rhythm.py, and *)
(* what scripted_activity.py does with them).  The gateway's read thread    *)
(* hands every compression to two judges: SyncScoreTracker closes a round   *)
(* when a press falls past its window or, from the timer of the activity,   *)
(* when the window is over, and GroupTouchSyncTracker keeps the presses and *)
(* segments them anew whenever it is asked.  The timer logs what the second *)
(* says and raises the outcomes of the first as events.                     *)
(*                                                                         *)
(* Time is in steps of which the timer misses none, and a press takes less  *)
(* than one; a phase of the activity is as long as the behaviour, so        *)
(* nothing is reset.  The running score is a sum over the outcomes and is   *)
(* left out.                                                                  *)
(***************************************************************************)
EXTENDS Integers, FiniteSetsExt, SequencesExt

CONSTANTS Sensors,               \* numbers
          Rules,                 \* participants, sensors, mode and rounds of a block, and
                                 \* whether the threads switch inside a press or a tick
          Target, CadenceTol, PhaseTol, MinGap,
          Presses, LastPress     \* bounds: how many presses, and until when

RoundParameters ==
  /\ Sensors \subseteq Nat
  /\ {Target, MinGap, Presses} \subseteq Nat \ {0}
  /\ {CadenceTol, PhaseTol, LastPress} \subseteq Nat
  /\ \A r \in Rules : {r.auto, r.racing} \subseteq BOOLEAN /\ r.selected \subseteq Sensors

VARIABLES rules,     \* of the block
          now, coming, \* time, presses to come
          events,    \* GroupTouchSyncTracker.events
          rounds,    \* SyncScoreTracker: joined, last, start, open, beat, out
          reader,    \* the press the read thread is at, and where
          clock,     \* the step of the tick the activity's timer is at
          raised,    \* the outcomes raised as events so far
          logged,    \* sync_logged_rejection_ids, sync_logged_round_ms
          entries    \* the session log
roundVars == <<rules, now, coming, events, rounds, reader, clock, raised, logged, entries>>

None    == -1
Horizon == LastPress + PhaseTol + 2
Stale   == Max({(3 * Target) \div 2, 2 * PhaseTol})
Abs(x)  == IF x < 0 THEN -x ELSE x

\* Twice the median of the press times of a round.
Beat(open) ==
  LET q == SetToSortSeq(DOMAIN open,
             LAMBDA a, b : open[a] < open[b] \/ (open[a] = open[b] /\ a < b))
      n == Len(q)
  IN  open[q[(n + 1) \div 2]] + open[q[(n \div 2) + 1]]
OnCadence(beat, last) == Abs(beat - last - (2 * Target)) <= 2 * CadenceTol
Opened(s, t) == [x \in {s} |-> t]
Joined(open, s, t) ==
  [x \in DOMAIN open \cup {s} |-> IF x \in DOMAIN open THEN open[x] ELSE t]

-----------------------------------------------------------------------------
(* GroupTouchSyncTracker: from the presses alone *)

InOrder == SetToSortSeq(events, LAMBDA a, b : a[1] < b[1] \/ (a[1] = b[1] /\ a[2] < b[2]))

\* The presses of the selected sensors without their chatter.
Accepted ==
  FoldLeft(
    LAMBDA acc, e :
      IF \/ ~rules.auto /\ e[2] \notin rules.selected
         \/ acc.last[e[2]] # None /\ e[1] - acc.last[e[2]] < MinGap
        THEN acc
        ELSE [last |-> [acc.last EXCEPT ![e[2]] = e[1]], seq |-> Append(acc.seq, e)],
    [last |-> [s \in Sensors |-> None], seq |-> <<>>], InOrder).seq
GroupOf(seq) == IF rules.auto THEN {e[2] : e \in ToSet(seq)} ELSE rules.selected

\* A round judged: its start, its beat if it is complete, and who was late for it.
Judged(group, start, open, late) ==
  LET full == Cardinality(DOMAIN open) = Cardinality(group)
  IN  [start |-> start, open |-> DOMAIN open,
       beat  |-> IF full THEN Beat(open) ELSE None,
       late  |-> IF ~full /\ late \in group \ DOMAIN open THEN late ELSE None]

\* _segment_rounds, at a moment: the last round is judged when it is full or over.
Segmented(at) ==
  LET seq == Accepted
      group == GroupOf(seq)
      log == FoldLeft(
        LAMBDA l, e :
          IF l.start = None THEN [l EXCEPT !.start = e[1], !.open = Opened(e[2], e[1])]
          ELSE IF e[1] - l.start <= PhaseTol THEN [l EXCEPT !.open = Joined(@, e[2], e[1])]
          ELSE [start |-> e[1], open |-> Opened(e[2], e[1]),
                done  |-> Append(l.done, Judged(group, l.start, l.open, e[2]))],
        [start |-> None, open |-> <<>>, done |-> <<>>], seq)
      over == log.start # None /\ ( \/ Cardinality(DOMAIN log.open) = Cardinality(group)
                                    \/ at - log.start > PhaseTol )
  IN  IF rules.auto /\ Cardinality(group) < rules.participants THEN <<>>
      ELSE log.done \o IF over THEN <<Judged(group, log.start, log.open, None)>> ELSE <<>>

Complete(done) == SelectSeq(done, LAMBDA r : r.beat # None)
Rejected(done) == SelectSeq(done, LAMBDA r : r.beat = None)

\* status()["complete"]: the rounds up to now end in a fresh streak long enough.
Streak(done) ==
  FoldLeft(LAMBDA k, r : IF r.beat = None THEN [n |-> 0, beat |-> None]
                         ELSE [n |-> IF k.beat # None /\ OnCadence(r.beat, k.beat)
                                       THEN k.n + 1 ELSE 1,
                               beat |-> r.beat],
           [n |-> 0, beat |-> None], done)
Matches ==
  LET done == Segmented(now)  full == Complete(done)
  IN  /\ full # <<>> /\ (2 * now) - Last(full).beat <= 2 * Stale
      /\ Streak(done).n >= rules.needed

-----------------------------------------------------------------------------
(* SyncScoreTracker: as they happen *)

Wanted(tr) == IF rules.auto THEN tr.joined ELSE rules.selected

ClosedRound(tr) ==
  LET beat == Beat(tr.open)
  IN  IF \/ tr.open = <<>>
         \/ rules.auto /\ Cardinality(Wanted(tr)) < rules.participants THEN tr
      ELSE IF ~(Wanted(tr) \subseteq DOMAIN tr.open)
        THEN [tr EXCEPT !.out = Append(@, "missed")]
      ELSE [tr EXCEPT !.beat = beat,
              !.out = Append(@, IF tr.beat = None \/ OnCadence(beat, tr.beat)
                                  THEN "good" ELSE "off_cadence")]

Alone(other) == rules.racing \/ other.at = "idle"

\* _record_compression ends with the press in the other tracker's list.
Idle == [at |-> "idle", s |-> None, t |-> None]
Recorded(s, t) == events' = events \cup {<<t, s>>} /\ reader' = Idle

\* record: a press that is not chatter opens a round, or has an open one to join.
Press(s) ==
  /\ reader.at = "idle" /\ Alone(clock) /\ coming > 0 /\ now <= LastPress
  /\ coming' = coming - 1
  /\ LET heard == [rounds EXCEPT !.last[s] = now, !.joined = @ \cup {s}]
         deaf  == \/ ~rules.auto /\ s \notin rules.selected
                  \/ rounds.last[s] # None /\ now - rounds.last[s] < MinGap
     IN  IF ~deaf /\ rounds.start # None
           THEN /\ reader' = [at |-> "joining", s |-> s, t |-> now]
                /\ rounds' = heard /\ events' = events
           ELSE /\ rounds' = IF deaf THEN rounds
                             ELSE [heard EXCEPT !.start = now, !.open = Opened(s, now)]
                /\ Recorded(s, now)
  /\ UNCHANGED <<rules, now, clock, raised, logged, entries>>

Reader == UNCHANGED <<rules, now, coming, clock, raised, logged, entries>>
Join ==
  /\ reader.at = "joining" /\ rounds.start # None /\ reader.t - rounds.start <= PhaseTol
  /\ rounds' = [rounds EXCEPT !.open = Joined(@, reader.s, reader.t)]
  /\ Recorded(reader.s, reader.t) /\ Reader
\* The round was closed meanwhile: a TypeError, and the frame is dropped.
Abandon ==
  /\ reader.at = "joining" /\ rounds.start = None
  /\ reader' = Idle /\ UNCHANGED <<rounds, events>> /\ Reader
CloseLate ==
  /\ reader.at = "joining" /\ rounds.start # None /\ reader.t - rounds.start > PhaseTol
  /\ rounds' = ClosedRound(rounds)
  /\ reader' = [reader EXCEPT !.at = "late"] /\ UNCHANGED events /\ Reader
OpenNext ==
  /\ reader.at = "late"
  /\ rounds' = [rounds EXCEPT !.start = reader.t, !.open = Opened(reader.s, reader.t)]
  /\ Recorded(reader.s, reader.t) /\ Reader
Record == Join \/ Abandon \/ CloseLate \/ OpenNext

-----------------------------------------------------------------------------
(* The tick *)

\* _log_sync_rounds: the last rejection under its id, the last complete round
\* under its time.
Log(done) ==
  LET no  == Rejected(done)
      yes == Complete(done)
      id  == <<Last(no).start, Last(no).late>>
      new == no # <<>> /\ id \notin logged.ids
      fresh == yes # <<>> /\ Last(yes).beat # logged.beat
  IN  /\ logged' = [ids  |-> logged.ids \cup IF new THEN {id} ELSE {},
                    beat |-> IF fresh THEN Last(yes).beat ELSE logged.beat]
      /\ entries' = entries \o (IF new THEN <<[start |-> id[1], ok |-> FALSE]>> ELSE <<>>)
                            \o (IF fresh THEN <<[start |-> Last(yes).start, ok |-> TRUE]>>
                                ELSE <<>>)

At(step) == clock.at = step /\ Alone(reader)
Timer == UNCHANGED <<rules, now, coming, events, reader>>
LogRounds ==
  /\ At("idle") /\ ~clock.done /\ clock' = [clock EXCEPT !.at = "poll"]
  /\ Log(Segmented(now))
  /\ Timer /\ UNCHANGED <<rounds, raised>>

\* tick closes a round that is over, then take_outcomes.
OverSoon == rounds.start # None /\ now - rounds.start >= PhaseTol
Over == rounds.start # None /\ now - rounds.start > PhaseTol
Expire ==
  /\ At("poll") /\ Over /\ clock' = [clock EXCEPT !.at = "closed"]
  /\ rounds' = ClosedRound(rounds)
  /\ Timer /\ UNCHANGED <<raised, logged, entries>>
TakeOutcomes ==
  /\ At("closed") \/ (At("poll") /\ ~Over)
  /\ clock' = [at |-> "idle", done |-> TRUE]
  /\ raised' = raised \o rounds.out
  /\ rounds' = [rounds EXCEPT !.out = <<>>,
                  !.start = IF At("closed") THEN None ELSE @,
                  !.open = IF At("closed") THEN <<>> ELSE @]
  /\ Timer /\ UNCHANGED <<logged, entries>>
Tick == LogRounds \/ Expire \/ TakeOutcomes

Advance ==
  /\ clock = [at |-> "idle", done |-> TRUE] /\ reader.at = "idle" /\ now < Horizon
  /\ now' = now + 1 /\ clock' = [clock EXCEPT !.done = FALSE]
  /\ UNCHANGED <<rules, coming, events, rounds, reader, raised, logged, entries>>

RoundsInit ==
  /\ rules \in Rules /\ now = 0 /\ coming = Presses /\ events = {}
  /\ rounds = [joined |-> {}, last |-> [s \in Sensors |-> None], start |-> None,
               open |-> <<>>, beat |-> None, out |-> <<>>]
  /\ reader = Idle
  /\ clock = [at |-> "idle", done |-> FALSE]
  /\ raised = <<>> /\ logged = [ids |-> {}, beat |-> None] /\ entries = <<>>
RoundsNext == (\E s \in Sensors : Press(s)) \/ Record \/ Tick \/ Advance
RoundsSpec == RoundsInit /\ [][RoundsNext]_roundVars

-----------------------------------------------------------------------------
(* Properties *)

RoundsTypeOK ==
  /\ rules \in Rules /\ now \in 0 .. Horizon /\ events \subseteq (0 .. LastPress) \X Sensors
  /\ rounds.joined \subseteq Sensors /\ DOMAIN rounds.open \subseteq Sensors
  /\ clock.at \in {"idle", "poll", "closed"} /\ reader.at \in {"idle", "joining", "late"}

\* The judges agree: whatever the ticks and presses came between, the rounds
\* closed as they happened are those of the presses, each judged once.
OutcomesOf(done) == [i \in DOMAIN done |-> done[i].beat # None]
VerdictsAgree ==
  ~rules.auto /\ ~rules.racing /\ reader.at = "idle" /\ clock = [at |-> "idle", done |-> TRUE] =>
    LET mine == raised \o ClosedRound(rounds).out
    IN  [i \in DOMAIN mine |-> mine[i] # "missed"] = OutcomesOf(Segmented(Horizon + PhaseTol))

\* "every selected sensor within the phase window on each requested round"
\* (scripted_activity.py:624): behind a streak there were that many moments, on
\* the beat as far as the window lets one tell, at which all of them pressed.
StreakEarned ==
  clock.at = "poll" /\ Matches =>
    \E beats \in kSubset(rules.needed, 0 .. now) :
      /\ \A w \in beats, s \in GroupOf(Accepted) : \E e \in events : e[2] = s /\ e[1] - w \in 0 .. PhaseTol
      /\ \A w \in beats \ {Max(beats)} :
           Abs(Min({v \in beats : v > w}) - w - Target) <= CadenceTol + PhaseTol

\* "Write each new beat / rejection ... to the session log" (scripted_activity.py:
\* 690): a tick after its window a round is there, and if complete only once.
RoundsLogged ==
  ~rules.auto /\ clock.at = "poll" =>
    \A r \in ToSet(Segmented(now)) :
      r.start + PhaseTol < now =>
        LET lines == {i \in DOMAIN entries : entries[i].start = r.start}
        IN  /\ lines # {} /\ \A i \in lines : entries[i].ok = (r.beat # None)
            /\ r.beat # None => Cardinality(lines) = 1

\* "a lone stray press is judged without waiting for the next one" (touch_rhythm.py:496):
\* a tick leaves no round open past its window, whatever else went on.
StraysJudged ==
  clock.done /\ rounds.start # None => now - rounds.start <= PhaseTol

RoundsSound == RoundsTypeOK /\ VerdictsAgree /\ StreakEarned /\ RoundsLogged /\ StraysJudged

\* "each beat / rejection is logged once although status is re-derived"
\* (scripted_activity.py:121): no round has two lines in the session log.
LoggedOnce ==
  ~rules.auto /\ ~rules.racing =>
    \A i, j \in DOMAIN entries : entries[i].start = entries[j].start => i = j
=============================================================================
