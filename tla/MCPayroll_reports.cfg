SPECIFICATION Spec
CONSTANTS
  ann = ann
  bob = bob
  Employees = {ann, bob}
  Advances = {1}
  Deductions = {2}
  Runs = {1, 2}
  MaxAmount = 2
  Borrowers = {ann}
  Amounts = {2}
  Pay = {1}
  Edits = {0}
  MaxBreaks <- mc_MaxBreaks
INVARIANT DraftIsNotInReports
