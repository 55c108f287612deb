SPECIFICATION LiveSpec
CONSTANTS
  MaxVersion = 2
  Task = {t1}
  Cli = {}
  Checker = checker
  Settings = {"apply", "reboot", "runtime"}
  Ops = {"check", "apply", "rollback"}
  Choices = {{"core"}, {"rootfs"}, {"core", "ui", "rootfs"}}
  MaxAsks = 1
  MaxFaults = 1
  Events = {"publish", "image", "crash", "reboot", "fallback"}
INVARIANTS
  VersionsTrue
  SnapshotTrue
PROPERTIES
  UpdatesArrive
