\* Four agreements, two to a page.
CONSTANTS
  Agreements = {a1, a2, a3, a4}
  Limit = 2
SPECIFICATION Spec
SYMMETRY AgreementSymmetry
INVARIANTS TypeOK MissedOnlyAfterOneLeft TwiceOnlyAfterOneEntered
