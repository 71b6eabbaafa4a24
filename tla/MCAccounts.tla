----------------------------- MODULE MCAccounts -----------------------------
(***************************************************************************)
(* Small instances of Accounts: three requests, two addresses, one  *)
(* of which can be typed in two ways.                                      *)
(***************************************************************************)
EXTENDS Accounts, TLC

CONSTANTS ann, Ann, bob, n1, r1, r2, r3

\* normalize_email: the domain of "ann@SHOP.RU" in lower case.
Lowered == [e \in Typed |-> IF e = Ann THEN ann ELSE e]

\* Registration, the use of its token beside it, and a third request that
\* uses it once more or makes the second account.
Asking == (r1 :> {"register"}) @@ (r2 :> {"verify", "profile"})
             @@ (r3 :> {"verify", "social"})

\* Registrations only.
Registering == [r \in Requests |-> {"register"}]

============================================================================
