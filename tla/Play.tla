-------------------------------- MODULE Play --------------------------------
(***************************************************************************)
(* A scripted activity being played: one unit with its phases and programs  *)
(* (ScriptedUnit), and the rounds of a group that presses together in one   *)
(* phase of such a unit (TouchRounds).  The programs hear of the rounds     *)
(* only as events, which ScriptedUnit lets happen at any tick, so a         *)
(* behaviour is of the one or of the other.                                 *)
(***************************************************************************)
EXTENDS ScriptedUnit

CONSTANTS Pads, Rules, Target, CadenceTol, PhaseTol, MinGap, Presses, LastPress \* TouchRounds

VARIABLES view,                                             \* "programs" or "rounds"
          rules, now, coming, events, rounds, reader, clock, raised, logged, entries

group == <<rules, now, coming, events, rounds, reader, clock, raised, logged, entries>>

Rounds == INSTANCE TouchRounds WITH Sensors <- Pads
ASSUME PlayAssumption == Rounds!RoundParameters

Of(v) == view = v
PlayInit ==
  /\ Init /\ Rounds!RoundsInit
  /\ view \in {"programs", "rounds"}
  /\ Of("programs") => rules = CHOOSE r \in Rules : TRUE
  /\ Of("rounds") => left = CHOOSE m \in Budgets : TRUE

PlayNext ==
  /\ UNCHANGED view
  /\ \/ Of("programs") /\ Next /\ UNCHANGED group
     \/ Of("rounds") /\ Rounds!RoundsNext /\ UNCHANGED vars

\* The fairness of the programs; what is claimed of the rounds is safety.
PlaySpec ==
  /\ PlayInit /\ [][PlayNext]_<<view, vars, group>>
  /\ WF_vars(Of("programs") /\ TickStep)
  /\ WF_vars(Of("programs") /\ (RunStep \/ EnterStep))
  /\ WF_vars(Of("programs") /\ Handler)
  /\ SF_vars(Of("programs") /\ Pass(Deadlines))

-----------------------------------------------------------------------------
\* The two judges of a group agree with each other, with the session log and with
\* what the group did.
RoundsSound == Rounds!RoundsSound

\* See TouchRounds.
LoggedOnce == Rounds!LoggedOnce
=============================================================================
