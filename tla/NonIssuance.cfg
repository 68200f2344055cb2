CONSTANTS
  Addresses = {"w", "c"}
  Inventories = {1, 2}
  ListedRows <- MCListedRows
  Claim <- MCClaim
  Balance <- MCBalance
  Audits <- MCAudits
  AuditLists <- MCAuditLists
  Wone <- MCWone
  RetainedWone = 1
  Qualification <- MCQualification
  Wallets = {"w"}
  Multisigs = {}
  Active = {"w"}
  Threshold = 2
  MaxPaid = 1
  MaxEdits = 2
SPECIFICATION PolicySpec
INVARIANTS WithheldWithinClaim LeakOnce InitialCohortExact VerifiedDescribesTables PolicyCloses
CHECK_DEADLOCK FALSE
