CONSTANTS
  Originals = {"file", "link", "absent", "dangling"}
  Failures = {"write", "ip", "kill", "reboot"}
SPECIFICATION Spec
INVARIANTS
  OriginalKept
  GatewayRestoresDns
  LinkIsClean
