SPECIFICATION FairSpec
CONSTANTS
  W = 8
  MaxGap = 2
  MaxTime = 9
  MotorPatterns <- MCMotorPatterns
  Powers = {0, 50, 100}
  PwmResolution = 255
  Melodies <- MCMelodies
  Notes = {0, 40, 61}
  MIDI_NOTE_MIN = 59
  MIDI_NOTE_MAX = 109
  Files = {"short", "long", "noise"}
  Length <- MCLength
  IsWav <- MCIsWav
  Header = 2
  Percents = {40, 80}
  InitialVolume = 80
  None = None
  Frames = {1, 2, 3}
  Nothing = 0
  Supported = TRUE
  Sizes <- MCSizes
  Hues = 2
  Unknown = 9
  Full = 4
  Entries <- MCEntries
  Keys = {0, 32, 97, 98, 99, 100}
  NoKey = 0
  MenuKey = 32
  Typed = {0, 1, 3, 4, 9}
  B = 8
INVARIANTS
  TypeOK
  MotorObeys
  BuzzerObeys
  TornOnlyDuringRequest
  SpeakerRestores
  LightsHold
  ChoiceRuns
PROPERTY
  LastRequestServed
