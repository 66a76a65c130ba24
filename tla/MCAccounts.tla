----------------------------- MODULE MCAccounts -----------------------------
EXTENDS Accounts, TLC

CONSTANTS r1, r2, r3, a1, a2, a3, n1, n2, n3, p1, p2, ph

\* Only requests may be exchanged: the account of the start, the names and the
\* passwords it has are told apart by FirstName and FirstPassword.
Requests == Permutations(Request)
=============================================================================
