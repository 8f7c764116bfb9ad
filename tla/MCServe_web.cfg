\* The server and a command open one database; runs are cut short by crashes
\* and by the supervisor.
CONSTANTS
    server = server
    command = command
    Processes = {server, command}
    Api = server
    MaxInterruptions = 1
    MaxKeys = 2

SPECIFICATION ServeSpec

INVARIANTS
    ServeTypeOK
    HistoryIsTrue
    OpenedAtLatest
    NoChildLeftBehind

PROPERTIES
    RefusedIsUntouched
    EventuallyLatest
    FirstExitStopsBoth
    RefusedStopsServe
