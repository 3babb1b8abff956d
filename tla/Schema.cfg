CONSTANTS
  Daemon = d
  Command = c
  Processes = {d, c}
  Newest <- NewestVersions
  Alters = {2}
  FtsBuilds = {d}
  Backups = {b}
  MaxFaults = 2
SPECIFICATION LiveSpec
INVARIANTS SchemaIsWhole BackupIsWhole
PROPERTIES EveryoneOpens
