SPECIFICATION Spec
CONSTANTS
  s1 = s1
  s2 = s2
  Sessions <- MCSessions
  Main = Main
  MaxRun = 2
SYMMETRY Symmetric
INVARIANT TypeOK
INVARIANT RoutedTopicHasRecord
INVARIANT WholeSessionAnswers
INVARIANT RunMissingOnlyIfTorn
INVARIANT QuietCleanupIsFinal
PROPERTY StaysUsable
