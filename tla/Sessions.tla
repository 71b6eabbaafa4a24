------------------------------ MODULE Sessions ------------------------------
(***************************************************************************)
(* Who is served: login, sign-in through a social network, logout and the  *)
(* access tokens every other request brings (users/views.py,               *)
(* users/social_auth_views.py, config/settings.py).  A token is signed and *)
(* stored nowhere; a request that brings one is served if its user is      *)
(* active, which a cached query may answer.                                *)
(***************************************************************************)
EXTENDS Naturals, FiniteSets

CONSTANTS
    Users,
    Tokens,   \* bound: pairs of an access and a refresh token
    LostInvalidations, \* may an answer outlive its invalidation
    NoRow

ASSUME SessionsAssumption ==
    /\ LostInvalidations \in BOOLEAN
    /\ NoRow \notin BOOLEAN \cup Users

VARIABLES
    active,    \* users_user.is_active
    known,     \* user -> what the cached row says of it, or NoRow
    owner,     \* token -> the user it was made for, or NoRow
    expired,   \* tokens whose access half is too old
    blacklist, \* refresh tokens that are not accepted any more
    returned   \* history: the tokens that were handed in to log out

sessionVars == <<active, known, owner, expired, blacklist, returned>>

SessionInit ==
    /\ active \in [Users -> BOOLEAN]
    /\ known = [u \in Users |-> NoRow]
    /\ owner = [t \in Tokens |-> NoRow]
    /\ expired = {} /\ blacklist = {} /\ returned = {}

----------------------------------------------------------------------------

\* The get of a user, and the answer Redis keeps of it.
Seen(u) == IF known[u] # NoRow THEN known[u] ELSE active[u]
Look(u) == known' = [known EXCEPT ![u] = Seen(u)]

\* RefreshToken.for_user.
Issue(u, t) ==
    /\ owner[t] = NoRow
    /\ owner' = [owner EXCEPT ![t] = u]

\* POST /users/login/ with the right password.  Django's backend knows no
\* inactive user; if it is none, nothing is issued.
Login(u) ==
    /\ Look(u)
    /\ \/ ~ Seen(u) /\ UNCHANGED owner
       \/ Seen(u) /\ \E t \in Tokens : Issue(u, t)
    /\ UNCHANGED <<active, expired, blacklist, returned>>

\* GET /users/social/complete/: whoever the network vouches for, active or
\* not; the association is not cached.
SocialComplete(u) ==
    /\ \E t \in Tokens : Issue(u, t)
    /\ UNCHANGED <<active, known, expired, blacklist, returned>>

\* Mutated: whoever has a token is served.
Unexpired(t) == t \notin expired

\* JWTAuthentication: the signature, the age, the user.
Authentic(t) == t \notin expired /\ Seen(owner[t])

Bearer(t) == owner[t] # NoRow /\ Authentic(t) /\ Look(owner[t])

\* A request of the API is served.
Serve(t) ==
    /\ Bearer(t)
    /\ UNCHANGED <<active, owner, expired, blacklist, returned>>

\* A token that is refused still has had its user looked up.
Refuse(t) ==
    /\ owner[t] # NoRow /\ t \notin expired
    /\ ~ Seen(owner[t]) /\ Look(owner[t])
    /\ UNCHANGED <<active, owner, expired, blacklist, returned>>

\* POST /users/logout/: the token class has no blacklist() as long as the
\* application that stores the list is not installed; the error is the
\* answer.
Logout(t) ==
    /\ Bearer(t)
    /\ returned' = returned \cup {t}
    /\ UNCHANGED <<active, owner, expired, blacklist>>

----------------------------------------------------------------------------

\* 60 minutes.
TokenExpires(t) ==
    /\ owner[t] # NoRow /\ t \notin expired
    /\ expired' = expired \cup {t}
    /\ UNCHANGED <<active, known, owner, blacklist, returned>>

\* The administrator's form (which, as it is written, does not open: see
\* Administer of Accounts); an invalidation follows.
SetActive(u, value) ==
    /\ active' = [active EXCEPT ![u] = value]
    /\ \/ known' = [known EXCEPT ![u] = NoRow]
       \/ LostInvalidations /\ UNCHANGED known
    /\ UNCHANGED <<owner, expired, blacklist, returned>>

\* 15 minutes.
KnownExpires(u) ==
    /\ known[u] # NoRow
    /\ known' = [known EXCEPT ![u] = NoRow]
    /\ UNCHANGED <<active, owner, expired, blacklist, returned>>

SessionNext ==
    \/ \E u \in Users : Login(u) \/ SocialComplete(u) \/ KnownExpires(u)
    \/ \E u \in Users, value \in BOOLEAN : SetActive(u, value)
    \/ \E t \in Tokens : Serve(t) \/ Refuse(t) \/ Logout(t) \/ TokenExpires(t)

SessionSpec == SessionInit /\ [][SessionNext]_sessionVars

\* What is old is dropped.
FairSessionSpec ==
    /\ SessionSpec
    /\ \A u \in Users : WF_sessionVars(KnownExpires(u))

----------------------------------------------------------------------------
(* Properties. *)

\* A user the administrator deactivates for good is shut out some day and
\* then for good, although nothing revokes her tokens, she may go on asking,
\* and Redis may not have been told.
ShutOut ==
    \A u \in Users :
        \/ []<>active[u]
        \/ <>[](\A t \in Tokens : owner[t] = u => ~ Authentic(t))

\* Logging out puts the token on the black list.
LoggedOutIsListed == returned \subseteq blacklist

============================================================================
