\* Each date of three, two parties, at most two lenders and three installments.
CONSTANTS
  Borrower = borrower
  Parties = {borrower, lender}
  NoAgent = NoAgent
  NoAgreement = NoAgreement
  Amounts <- MCAmounts
  Principals <- MCPrincipals
  MaxDate = 2
  MaxLenders = 2
  MaxInstallments = 3
SPECIFICATION Spec
INVARIANTS TypeOK RepaidByMaturity InstallmentsAreACalendar
\* The request is answered; there is nothing more to do.
CHECK_DEADLOCK FALSE
