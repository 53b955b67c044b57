CONSTANTS
  ShellJobs = {1, 2}
  PanelCap = 2
  MaxPolls = 2
  MaxJobClicks = 1
SPECIFICATION JobsSpec
PROPERTY DoneJobsAreShown
CHECK_DEADLOCK FALSE
