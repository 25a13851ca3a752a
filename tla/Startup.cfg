SPECIFICATION StartupSpec
CONSTANTS
  Words <- SampleWords
  MaxArguments = 3
  Files <- SampleFiles
  None = None
CHECK_DEADLOCK FALSE
INVARIANTS StartupTypeOK CleanUpReverses CleanUpIsDefined ExitStatusTells OptionsAreCheckedFirst
