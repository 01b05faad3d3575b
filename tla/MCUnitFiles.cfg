SPECIFICATION Spec
CONSTANTS
    Projects <- MCProjects
    Sanitized <- MCSanitized
    ComposeFiles <- MCComposeFiles
    Entries <- MCEntries
    MaxExports = 2
    Stacks <- MCStacks
    Slots = 2
    MaxCommands = 2
    MaxFaults = 1
INVARIANTS
    ExportFaithful
    OneMode
PROPERTIES
    CommandsDeliver
CHECK_DEADLOCK FALSE
