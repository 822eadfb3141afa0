\* Three acts reach every pair of controls of a page; two edits, the second on a
\* text that is behind the configuration or was read anew.
CONSTANTS
  None = None
  Devices <- SomeDevices
  MaxActs = 3
  MaxEdits = 2
SPECIFICATION HardwareSpec
INVARIANTS HardwareTypeOK EveryControlCounts
PROPERTIES EditsAreAsked
\* The program may have crashed, and the user may stop.
CHECK_DEADLOCK FALSE
