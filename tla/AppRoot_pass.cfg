SPECIFICATION Spec
CONSTANTS
  LastRow = 2
  Failing = {1}
  DefaultRestartLimit = 2
  Light = light
  Dark = dark
  Themes = {light, dark, aqua}
  Interfaces = {can0, can1}
  Unset = Unset
INVARIANTS
  PageShown
  SettingsAgree
CHECK_DEADLOCK FALSE
