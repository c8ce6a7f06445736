--------------------------- MODULE MCPaymentLedger ---------------------------
\* Two handlers over the payments of one sale: a requested cheque, a requested
\* cash payment, a direct payment by a cheque of the same number as the requested
\* one, and a security deposit in cash.  The requested cheque pays the whole sale,
\* the two others half of it each.
EXTENDS PaymentLedger, TLC

CONSTANTS q1, q2, r1, d1, h1, h2

MCAmount == q1 :> 2 @@ q2 :> 1 @@ r1 :> 1 @@ d1 :> 2
MCChequeNo == q1 :> 1 @@ q2 :> 2 @@ r1 :> 1 @@ d1 :> 3
Symmetry == Permutations(Handler)
=============================================================================
