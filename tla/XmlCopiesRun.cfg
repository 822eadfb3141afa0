\* Five calls set two members, write, change the object and read, in any order.
CONSTANTS
  None = None
  MaxCalls = 5
SPECIFICATION Spec
INVARIANTS TypeOK NothingInvented CopiesSettle
PROPERTIES ReadsWhatIsSaid
\* The clients may stop making calls.
CHECK_DEADLOCK FALSE
