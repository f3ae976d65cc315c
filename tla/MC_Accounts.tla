-------------------------- MODULE MC_Accounts --------------------------
EXTENDS Accounts, TLC

AccountA == [email |-> "a", password |-> "p", role |-> "admin"]
NewB == {[email |-> "b", password |-> "p", role |-> "admin"]}

\* A new e-mail, a new password and role beside an e-mail named again, a null.
SomePatches ==
    {[email |-> "b", password |-> Unset, role |-> Unset],
     [email |-> "a", password |-> "q", role |-> "driver"],
     [email |-> None, password |-> Unset, role |-> Unset]}

AccountSymmetry == Permutations(UserIds) \cup Permutations(Clients)
=============================================================================
