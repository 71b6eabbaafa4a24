------------------------------ MODULE Accounts ------------------------------
(***************************************************************************)
(* Accounts: registration with its letter, confirmation of the address by  *)
(* token, the profile, sign-in through a social network, the nightly       *)
(* clean-up of tokens and the administrator's form (users/).  Only         *)
(* registration opens a transaction; elsewhere each statement commits by   *)
(* itself, so each is a step.  A user that is read by primary key may come *)
(* from the cache.  Login, logout and the lists of the API only read.      *)
(***************************************************************************)
EXTENDS Mail, FiniteSets

CONSTANTS
    Requests,   \* requests, each served once by a thread of its own
    Asks,       \* request -> what it may ask: "register", "verify",
                \* "profile", "social"
    Typed,      \* e-mail addresses as people type them
    Normal,     \* typed address -> what normalize_email makes of it
    Names,      \* user names
    MaxUsers,   \* bound: the largest primary key of users_user
    MaxKeys,    \* bound: confirmation tokens that are generated
    LostInvalidations, \* may Redis miss the invalidation of a cached user
    BeatStarts,        \* can celery beat be started: FALSE in the repository,
                       \* whose scheduler is not among what is installed
    NoRow

UserIds == 1 .. MaxUsers
Keys    == 1 .. MaxKeys

UserRow == [email : Typed, name : Names, active : BOOLEAN, verified : BOOLEAN]
TokenRow == [user : UserIds, old : BOOLEAN]

ASSUME AccountsAssumption ==
    /\ Letters = Keys
    /\ Asks \in [Requests ->
                   SUBSET {"register", "verify", "profile", "social"}]
    /\ Normal \in [Typed -> Typed]
    /\ \A e \in Typed : Normal[Normal[e]] = Normal[e]
    /\ MaxUsers \in Nat /\ MaxKeys \in Nat
    /\ LostInvalidations \in BOOLEAN /\ BeatStarts \in BOOLEAN
    /\ NoRow \notin UserRow \cup TokenRow

VARIABLES
    user,      \* users_user
    nextUser,  \* its next AUTOINCREMENT key
    token,     \* users_confirmemailtoken, by its random key
    nextKey,   \* the next random key: never given out twice
    cached,    \* user id -> the row in the cache, or NoRow
    writer,    \* the request whose transaction holds RESERVED, or none
    stage,     \* request -> where it stands
    local,     \* request -> its local variables
    addressed, \* key -> the address its letter went to
    kept,      \* history: keys whose registration was committed
    presented, \* history: keys that came back
    trusted,   \* history: users the administrator has activated
    barred     \* history: users the administrator has deactivated since

accounts == <<user, nextUser, token, nextKey>>
service  == <<cached, writer, stage, local>>
history  == <<addressed, kept, presented, trusted, barred>>
accountVars == <<accounts, service, history, post>>

AccountInit ==
    /\ user = [i \in UserIds |-> NoRow] /\ nextUser = 1
    /\ token = [k \in Keys |-> NoRow] /\ nextKey = 1
    /\ cached = [i \in UserIds |-> NoRow]
    /\ writer = {}
    /\ stage = [r \in Requests |-> "unused"]
    /\ local = [r \in Requests |-> NoRow]
    /\ addressed = [k \in Keys |-> NoRow]
    /\ kept = {} /\ presented = {} /\ trusted = {} /\ barred = {}
    /\ MailInit

----------------------------------------------------------------------------
(* Queries, constraints, the cache. *)

Accounts == {i \in UserIds : user[i] # NoRow}
EmailTaken(e) == \E i \in Accounts : user[i].email = e
NameTaken(n, others) == \E i \in Accounts \cap others : user[i].name = n

\* Mutated: the column of the e-mail is not declared unique.
MayRepeat(email) == TRUE

\* The UNIQUE constraint of users_user.email.
MayInsertUser(email) == ~ EmailTaken(email)

\* A get by primary key, and what the cache holds after it.
SeenUser(i) == IF cached[i] # NoRow THEN cached[i] ELSE user[i]
Fill(i) == cached' = [cached EXCEPT ![i] = SeenUser(i)]

\* After a save or a deletion the cached row is dropped, if Redis answers.
InvalidateUser(i) ==
    \/ cached' = [cached EXCEPT ![i] = NoRow]
    \/ LostInvalidations /\ UNCHANGED cached

Proceed(r, where, what) ==
    /\ stage' = [stage EXCEPT ![r] = where]
    /\ local' = [local EXCEPT ![r] = what]

Respond(r) == Proceed(r, "answered", NoRow)
Asked(r, ask) == ask \in Asks[r] /\ stage[r] = "unused"

----------------------------------------------------------------------------
(* POST /users/register/. *)

\* The serializer: both names are free.  The address is looked for as it
\* was typed.
Validate(r, e, n) ==
    /\ Asked(r, "register")
    /\ ~ EmailTaken(e) /\ ~ NameTaken(n, UserIds)
    /\ Proceed(r, "register", [email |-> Normal[e], name |-> n])
    /\ UNCHANGED <<accounts, cached, writer, history, post>>

\* Mutated: a new account can be used at once.
RegisteredActive(l) == [email |-> l.email, name |-> l.name,
                        active |-> TRUE, verified |-> FALSE]

\* create_user, then is_active = False.
Registered(l) == [email |-> l.email, name |-> l.name,
                  active |-> FALSE, verified |-> FALSE]

\* The transaction writes the account and its token and hands the letter
\* over, all before its commit.
RegisterWrite(r) ==
    LET l == local[r] IN
    /\ stage[r] = "register"
    /\ writer = {}
    /\ nextUser <= MaxUsers /\ nextKey <= MaxKeys
    /\ MayInsertUser(l.email)
    /\ writer' = {r}
    /\ nextKey' = nextKey + 1
    /\ addressed' = [addressed EXCEPT ![nextKey] = l.email]
    /\ Queue(nextKey) /\ UNCHANGED resends
    /\ Proceed(r, "commit", [row |-> Registered(l), key |-> nextKey])
    /\ UNCHANGED <<user, nextUser, token, cached, kept, presented, trusted,
                   barred>>

RegisterCommit(r) ==
    LET l == local[r] IN
    /\ stage[r] = "commit"
    /\ user' = [user EXCEPT ![nextUser] = l.row]
    /\ token' = [token EXCEPT ![l.key] = [user |-> nextUser, old |-> FALSE]]
    /\ nextUser' = nextUser + 1
    /\ kept' = kept \cup {l.key}
    /\ writer' = {}
    /\ Respond(r)
    /\ UNCHANGED <<nextKey, cached, addressed, presented, trusted, barred, post>>

----------------------------------------------------------------------------
(* GET /users/verify-email/?token=. *)

\* A key that a letter, which has left, carried out.
Verify(r, k) ==
    /\ Asked(r, "verify")
    /\ token[k] # NoRow
    /\ letter[k] = "sent" \/ resends[k] > 0
    /\ presented' = presented \cup {k}
    /\ Proceed(r, "user", [id |-> token[k].user, key |-> k])
    /\ UNCHANGED <<accounts, cached, writer, addressed, kept, trusted, barred,
                   post>>

\* token.user; a user that is gone is an error.
VerifyUser(r) ==
    LET i == local[r].id IN
    /\ stage[r] = "user"
    /\ Fill(i)
    /\ IF SeenUser(i) = NoRow THEN Respond(r)
       ELSE Proceed(r, "save", [id |-> i, key |-> local[r].key,
                                row |-> [SeenUser(i) EXCEPT !.active = TRUE]])
    /\ UNCHANGED <<accounts, writer, history, post>>

\* user.save(): UPDATE of every column, or INSERT of a row that is gone.
Saves(i, row) == user[i] # NoRow \/ MayInsertUser(row.email)

Save(r) ==
    LET l == local[r] IN
    /\ stage[r] = "save"
    /\ writer = {}
    /\ Saves(l.id, l.row)
    /\ user' = [user EXCEPT ![l.id] = l.row]
    /\ InvalidateUser(l.id)
    /\ IF l.key = NoRow THEN Respond(r) ELSE Proceed(r, "delete", l)
    /\ UNCHANGED <<nextUser, token, nextKey, writer, history, post>>

\* token.delete().
VerifyDelete(r) ==
    /\ stage[r] = "delete"
    /\ writer = {}
    /\ token' = [token EXCEPT ![local[r].key] = NoRow]
    /\ Respond(r)
    /\ UNCHANGED <<user, nextUser, nextKey, cached, writer, history, post>>

----------------------------------------------------------------------------
(* PATCH /users/profile/. *)

\* The access token names the user; she must be active.
Profile(r, i) ==
    /\ Asked(r, "profile")
    /\ SeenUser(i) # NoRow /\ SeenUser(i).active
    /\ Fill(i)
    /\ Proceed(r, "profile", [id |-> i, row |-> SeenUser(i)])
    /\ UNCHANGED <<accounts, writer, history, post>>

\* The serializer: the name is nobody else's.
ProfileValidate(r, n) ==
    LET l == local[r] IN
    /\ stage[r] = "profile"
    /\ IF NameTaken(n, UserIds \ {l.id}) THEN Respond(r)
       ELSE Proceed(r, "save", [id |-> l.id, key |-> NoRow,
                                row |-> [l.row EXCEPT !.name = n]])
    /\ UNCHANGED <<accounts, cached, writer, history, post>>

----------------------------------------------------------------------------
(* Sign-in through a social network, for the first time. *)

\* get_username finds a name that is free.
SocialName(r, e, n) ==
    /\ Asked(r, "social")
    /\ ~ NameTaken(n, UserIds)
    /\ Proceed(r, "social", [email |-> Normal[e], name |-> n])
    /\ UNCHANGED <<accounts, cached, writer, history, post>>

\* create_user: an account without a token.
SocialCreate(r) ==
    /\ stage[r] = "social"
    /\ writer = {}
    /\ nextUser <= MaxUsers
    /\ MayInsertUser(local[r].email)
    /\ user' = [user EXCEPT ![nextUser] = Registered(local[r])]
    /\ nextUser' = nextUser + 1
    /\ Respond(r)
    /\ UNCHANGED <<token, nextKey, cached, writer, history, post>>

----------------------------------------------------------------------------
(* Errors: a locked database, a constraint, no broker, the end of a worker. *)

\* Mutated: the transaction of a failed registration is not rolled back.
ErrorKeepsLock(r) ==
    /\ stage[r] = "commit"
    /\ Respond(r)
    /\ UNCHANGED <<accounts, cached, writer, history, post>>

Error(r) ==
    /\ stage[r] \in {"register", "commit", "user", "save", "delete",
                     "profile", "social"}
    /\ writer' = writer \ {r}
    /\ Respond(r)
    /\ UNCHANGED <<accounts, cached, history, post>>

----------------------------------------------------------------------------
(* The nightly clean-up, the cache and the administrator. *)

\* 24 hours pass.
Age(k) ==
    /\ token[k] # NoRow /\ ~ token[k].old
    /\ token' = [token EXCEPT ![k].old = TRUE]
    /\ UNCHANGED <<user, nextUser, nextKey, service, history, post>>

\* cleanup_expired_tokens, which beat sends at night.
CleanUp ==
    LET expired == {k \in Keys : token[k] # NoRow /\ token[k].old} IN
    /\ BeatStarts
    /\ writer = {}
    /\ expired # {}
    /\ token' = [k \in Keys |-> IF k \in expired THEN NoRow ELSE token[k]]
    /\ UNCHANGED <<user, nextUser, nextKey, service, history, post>>

UserExpires(i) ==
    /\ cached[i] # NoRow
    /\ cached' = [cached EXCEPT ![i] = NoRow]
    /\ UNCHANGED <<accounts, writer, stage, local, history, post>>

\* The form of an account.  As it is written it does not open: its fields
\* name avatar_thumbnail, which the model does not have.  The step stands for
\* its check boxes once that is mended; what else it would edit is left out.
Administer(i, active, verified) ==
    /\ i \in Accounts
    /\ writer = {}
    /\ user' = [user EXCEPT ![i].active = active, ![i].verified = verified]
    /\ InvalidateUser(i)
    /\ trusted' = IF active THEN trusted \cup {i} ELSE trusted
    /\ barred' = IF active THEN barred \ {i} ELSE barred \cup {i}
    /\ UNCHANGED <<nextUser, token, nextKey, writer, stage, local, addressed,
                   kept, presented, post>>

\* The tokens that are left when an account is deleted.
WithoutTokensOf(i) ==
    [k \in Keys |-> IF token[k] # NoRow /\ token[k].user = i THEN NoRow
                    ELSE token[k]]

\* The deletion of an account cascades to its tokens.
DeleteUser(i) ==
    /\ i \in Accounts
    /\ writer = {}
    /\ user' = [user EXCEPT ![i] = NoRow]
    /\ token' = WithoutTokensOf(i)
    /\ InvalidateUser(i)
    /\ UNCHANGED <<nextUser, nextKey, writer, stage, local, history, post>>

----------------------------------------------------------------------------

Handle(r) ==
    \/ RegisterWrite(r) \/ RegisterCommit(r)
    \/ VerifyUser(r) \/ Save(r) \/ VerifyDelete(r)
    \/ \E n \in Names : ProfileValidate(r, n)
    \/ SocialCreate(r) \/ Error(r)

Open(r) ==
    \/ \E e \in Typed, n \in Names : Validate(r, e, n) \/ SocialName(r, e, n)
    \/ \E k \in Keys : Verify(r, k)
    \/ \E i \in UserIds : Profile(r, i)

AccountNext ==
    \/ \E r \in Requests : Open(r) \/ Handle(r)
    \/ \E k \in Keys : Age(k)
    \/ CleanUp
    \/ \E i \in UserIds : UserExpires(i) \/ DeleteUser(i)
    \/ \E i \in UserIds, active, verified \in BOOLEAN :
          Administer(i, active, verified)
    \/ MailNext /\ UNCHANGED <<accounts, service, history>>

AccountSpec == AccountInit /\ [][AccountNext]_accountVars

\* Threads run, workers send letters, time passes, and a beat that has been
\* started wakes every night.
AccountFairness ==
    /\ \A r \in Requests : WF_accountVars(Handle(r))
    /\ \A k \in Keys : WF_accountVars(Age(k))
    /\ WF_accountVars(CleanUp)
    /\ \A k \in Keys : WF_accountVars((Render(k) \/ SendEmail(k))
                                      /\ UNCHANGED <<accounts, service, history>>)

FairAccountSpec == AccountSpec /\ AccountFairness

----------------------------------------------------------------------------
(* Properties. *)

\* Types, and at most one transaction that writes.
AccountsTypeOK ==
    /\ MailTypeOK
    /\ user \in [UserIds -> UserRow \cup {NoRow}]
    /\ token \in [Keys -> TokenRow \cup {NoRow}]
    /\ cached \in [UserIds -> UserRow \cup {NoRow}]
    /\ \A r \in Requests : r \in writer <=> stage[r] = "commit"

\* Accounts have addresses of their own and tokens belong to an account that
\* exists, whatever a save of a row read long before inserts again.
AccountsFit ==
    /\ \A i, j \in Accounts : i # j => user[i].email # user[j].email
    /\ \A k \in Keys : token[k] # NoRow => token[k].user \in Accounts

\* An account can only be used if its address was confirmed, by the key of
\* a letter to that address, or if the administrator allowed it.
ActiveWasConfirmed ==
    \A i \in Accounts : user[i].active =>
        \/ i \in trusted
        \/ \E k \in presented : addressed[k] = user[i].email

----------------------------------------------------------------------------
(* What the code says and does not keep. *)

\* Tokens that are too old are cleaned up every night: none stays for ever.
TokensExpire == \A k \in Keys : token[k] # NoRow ~> token[k] = NoRow

\* "Пользователь с таким именем уже существует": the serializers refuse the
\* name of another account.
NamesDiffer == \A i, j \in Accounts : i # j => user[i].name # user[j].name

\* An account is deactivated instead of being deleted: what was deactivated
\* stays so until the administrator activates it again.
DeactivatedStays == \A i \in Accounts \cap barred : ~ user[i].active

\* "На вашу почту отправлено письмо": an account that is registered gets its
\* letter.
LetterArrives == \A k \in Keys : token[k] # NoRow ~> letter[k] = "sent"

\* A letter is written for a user: what was handed over belongs to a
\* registration that took place, or is about to.
MailedIsRegistered ==
    \A k \in Keys : letter[k] # "none" =>
        \/ k \in kept
        \/ \E r \in Requests : stage[r] = "commit" /\ local[r].key = k

\* is_verified: the user has confirmed her e-mail.
ConfirmedIsVerified ==
    \A i \in Accounts : user[i].active => user[i].verified \/ i \in trusted

============================================================================
