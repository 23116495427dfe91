SPECIFICATION Spec
CONSTANTS
  Table <- MCTable
  Writers <- MCWriters
  Checked <- MCChecked
  Link = "link"
  Begins <- MCBegins
  Values = {"name"}
  Fields <- MCFields
  MaxLines = 1
PROPERTY SavedIsReloaded
