SPECIFICATION Spec
CONSTANTS
  Deployed <- MCDeployed
  Catalog <- MCCatalog
  Available <- MCAvailable
  Denied <- MCDenied
  Enumerate = FALSE
  Roster <- MCRoster
  Requests <- MCRequests
  Answers <- MCAnswers
  PreviewAnswers <- MCPreviewAnswers
  Settings <- MCSettings
  MaxAttempts = 3
  MaxMessages = 3
  MaxText = 2
  MaxTotal = 3
INVARIANT PolicyChoiceEligible
INVARIANT DegradesOnlyOnDeadline
INVARIANT SidecarToldTruth
CHECK_DEADLOCK FALSE
