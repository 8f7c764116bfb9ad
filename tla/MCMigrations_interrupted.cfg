\* One process, cut short once.
CONSTANTS
    server = server
    Processes = {server}
    MaxInterruptions = 1

SPECIFICATION Spec

PROPERTIES
    OlderSchemaIsMigrated
