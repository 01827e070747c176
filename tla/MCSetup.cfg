SPECIFICATION WizardSpec
CONSTANTS
  Rows <- BothArms
  NoRow = NoRow
  MaxCommands = 4
INVARIANTS SessionSound PreviewIsCurrent ModesAsChosen
PROPERTIES ValidStays RestartsSettle
