SPECIFICATION Spec
CONSTANTS
  q1 = q1
  q2 = q2
  r1 = r1
  d1 = d1
  h1 = h1
  h2 = h2
  Payment = {q1, q2, r1, d1}
  Requested = {q1, q2}
  ByCheque = {q1, r1}
  Deposit = {d1}
  Amount <- MCAmount
  ChequeNo <- MCChequeNo
  Total = 2
  Handler = {h1, h2}
SYMMETRY Symmetry
INVARIANTS TypeOK BookedOnce CashIsBooked 
CHECK_DEADLOCK FALSE
