SPECIFICATION Spec
CONSTANTS
  s1 = s1
  s2 = s2
  Sessions = {s1}
  Main = Main
  MaxRun = 1
PROPERTY OnlyLaunchCreates
