\* Four requests on two invoices, one of them still to be issued.
CONSTANTS
  r1 = r1  r2 = r2  r3 = r3  r4 = r4
  Calls = {r1, r2, r3, r4}
  Invoices = {1, 2}
  Rank <- TwoRanks
  Bills <- TwoBills
  Amounts = {1, 3}
  Changes <- PlusMinus
SPECIFICATION Spec
INVARIANT PaidIsAllocated
INVARIANT ReversedExactly
INVARIANT StatusTellsMoney
INVARIANT NoDeadlock
PROPERTY NeverOverpays
PROPERTY CarriedFirst
SYMMETRY SymCalls
CHECK_DEADLOCK FALSE
