----------------------------- MODULE MCAccounts -----------------------------
\* Accounts on small instances.
EXTENDS Accounts, TLC

\* Neither users nor requests are told apart by anything but their state.
Symmetry == Permutations(Users) \cup Permutations(Requests)
=============================================================================
