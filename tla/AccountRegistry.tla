------------------------- MODULE AccountRegistry -------------------------
(***************************************************************************)
(* What account administration promises of the users table: an account is  *)
(* added under a new id and an e-mail nobody has, changed only in columns  *)
(* that some request names and to the values it names, and removed for     *)
(* good (create_user, update_user, delete_user).                           *)
(***************************************************************************)
CONSTANTS UserIds, NewAccounts, Patches, None, Unset

VARIABLES users, issued

vars == <<users, issued>>

\* The account under which the first boot lets somebody in, under any id.
Init == /\ \E u \in UserIds : /\ DOMAIN users = {u} /\ issued = {u}
                              /\ users[u].email # None

Free(email, u) == \A x \in DOMAIN users \ {u} : users[x].email # email

\* A failed insert uses up an id too.
Issue(u) ==
    /\ u \in UserIds \ issued
    /\ issued' = issued \cup {u}
    /\ UNCHANGED users

Add(u, new) ==
    /\ u \in UserIds \ issued /\ Free(new.email, u)
    /\ users' = [x \in DOMAIN users \cup {u} |-> IF x = u THEN new ELSE users[x]]
    /\ issued' = issued \cup {u}

Edit(u, patch) ==
    /\ u \in DOMAIN users /\ DOMAIN users' = DOMAIN users
    /\ \A x \in DOMAIN users \ {u} : users'[x] = users[x]
    /\ \A col \in {"email", "password", "role"} :
         users'[u][col] \in {users[u][col]} \cup ({patch[col]} \ {Unset})
    /\ users'[u].email \in {users[u].email, patch.email} \ {None}
    /\ Free(users'[u].email, u)
    /\ UNCHANGED issued

Remove(u) ==
    /\ users' = [x \in DOMAIN users \ {u} |-> users[x]]
    /\ UNCHANGED issued

Next == \E u \in UserIds :
    \/ Issue(u) \/ Remove(u)
    \/ \E new \in NewAccounts : Add(u, new)
    \/ \E patch \in Patches : Edit(u, patch)

Spec == Init /\ [][Next]_vars
=============================================================================
