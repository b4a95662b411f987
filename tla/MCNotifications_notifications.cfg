CONSTANTS
  p1 = p1
  p2 = p2
  e1 = e1
  h1 = h1
  h2 = h2
  None = None
  Phones <- MCPhones
  Emails <- MCEmails
  Handlers <- MCHandlers
  Forms <- MCForms
  Statuses <- MCStatuses
  Environments <- MCEnvironments
  Disks <- MCDisks
  MaxJobs = 2
  MaxBookings = 1
SPECIFICATION Spec
INVARIANTS
  TypeOK
  AnnouncedOnce
  SentOncePerRun
  FailuresExplained
  FallsBackOnlyWhenMissing
PROPERTY QueueDrains
