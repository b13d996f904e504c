SPECIFICATION PlaySpec
CONSTANTS
  Phases <- StoryPhases
  Initial = "calm"
  Behaviour <- Story
  BodySteps <- StoryBody
  ReplySteps <- StoryReply
  Sensors = {"s1"}
  MaxCount = 2
  Budgets <- Mixes
  Pads = {0, 1, 2}
  Rules <- Groups
  Target = 3
  CadenceTol = 1
  PhaseTol = 1
  MinGap = 2
  Presses = 4
  LastPress = 4
INVARIANTS UnitSound RoundsSound
PROPERTIES ProgramsAccounted HaltedIsQuiet KeepsGoing
CHECK_DEADLOCK FALSE
