SPECIFICATION WatchSpec
CONSTANTS
    Files <- MCFiles
    Initially <- MCInitially
    Dir <- MCDir
    Home <- MCHome
    Below <- MCBelow
    MaxChanges = 3
PROPERTY HeardChangeShown
CHECK_DEADLOCK FALSE
