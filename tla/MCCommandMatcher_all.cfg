SPECIFICATION Spec
CONSTANTS
  Table <- MCTable
  Writers <- MCWriters
  Checked <- MCChecked
  Link = "link"
  Begins <- MCBegins
  Values = {"name"}
  Fields <- MCFields
  MaxLines = 1
INVARIANTS
  RunsWhatFits
  FullLineRuns
  TabMeansTheSame
  DescribesWhatRuns
PROPERTY FullIsReloaded
