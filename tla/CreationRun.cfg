\* Three edits break two rules and mend one; one VM of another client is defined
\* or undefined behind the table's back.
CONSTANTS
  vm1 = vm1
  vm2 = vm2
  Names <- MCNames
  Suggested = vm1
  Foreign = Foreign
  None = None
  MaxVcpus = 3
  MaxEdits = 3
  MaxOthers = 1
SPECIFICATION WizardSpec
INVARIANTS WizardTypeOK DefinedIsSane
PROPERTIES ToldTheTruth
\* The user may stop.
CHECK_DEADLOCK FALSE
