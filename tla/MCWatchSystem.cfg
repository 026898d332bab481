SPECIFICATION LiveSpec
CONSTANTS
  csoundA = csoundA
  csoundB = csoundB
  light = light
  dark = dark
  Senders = {csoundA, csoundB}
  GraphIds = {1}
  Themes = {light, dark}
  FirstThemes = {light}
  Changing = {csoundA}
  MaxViewerGraphs = 2
  Repetitions = 1
  MaxSequence = 1
  MaxQueue = 2
  MaxAnswers = 1
  MaxLosses = 1
  NoWindow = NoWindow
  NoGraph = NoGraph
INVARIANTS
  
  AnsweredIsShown
PROPERTY WaitingIsAnswered
