SPECIFICATION LiveSpec
CONSTANTS
  csoundA = csoundA
  csoundB = csoundB
  light = light
  dark = dark
  Senders = {csoundA}
  GraphIds = {1}
  Themes = {light}
  FirstThemes = {light}
  Changing = {}
  MaxViewerGraphs = 1
  Repetitions = 1
  MaxSequence = 0
  MaxQueue = 2
  MaxAnswers = 2
  MaxLosses = 0
  NoWindow = NoWindow
  NoGraph = NoGraph
PROPERTY ViewerTerminates
