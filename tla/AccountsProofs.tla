--------------------------- MODULE AccountsProofs ---------------------------
(***************************************************************************)
(* Proofs about Accounts, for any number of users, tokens and requests.    *)
(* The argument: the address of an account never changes, not even when a  *)
(* save brings a deleted row back.  `home' gives each primary key that was *)
(* ever used its address; every copy of a row, in a table, in the cache or *)
(* in the hands of a request, agrees with it.                              *)
(***************************************************************************)
EXTENDS Accounts, TLAPS

\* Addresses of the accounts that were ever created.
Homes == [UserIds -> Typed \cup {NoRow}]

\* A copy of the row of account i, taken now or before.
CopyOf(home, i, row) ==
    /\ row \in UserRow
    /\ i < nextUser
    /\ row.email = home[i]
    /\ row.active => \/ i \in trusted
                     \/ \E k \in presented : addressed[k] = row.email

\* Types that the arguments below need beside those of AccountsTypeOK.
Shape ==
    /\ AccountsTypeOK
    /\ nextUser \in Nat \ {0} /\ nextKey \in Nat \ {0}
    /\ addressed \in [Keys -> Typed \cup {NoRow}]
    /\ DOMAIN stage = Requests /\ DOMAIN local = Requests
    /\ presented \subseteq {k \in Keys : k < nextKey}
    /\ \A q, r \in writer : q = r
    /\ writer \subseteq Requests

RowsFit(home) ==
    /\ \A i \in Accounts : CopyOf(home, i, user[i])
    /\ \A i \in UserIds : cached[i] # NoRow => CopyOf(home, i, cached[i])

\* A token belongs to an account, and its letter went to the address of it.
TokensFit(home) ==
    \A k \in Keys : token[k] # NoRow =>
        /\ k < nextKey
        /\ token[k].user \in Accounts
        /\ addressed[k] = home[token[k].user]

EmailsDiffer ==
    \A i, j \in Accounts : i # j => user[i].email # user[j].email

\* What a request that has written its registration knows.
Pending(l) ==
    /\ l.row \in UserRow /\ ~ l.row.active /\ ~ EmailTaken(l.row.email)
    /\ l.key \in Keys /\ l.key < nextKey /\ addressed[l.key] = l.row.email
    /\ nextUser <= MaxUsers

\* What a request that has found a token knows.
Follows(home, l) ==
    /\ l.id \in UserIds /\ l.id < nextUser
    /\ l.key \in presented /\ addressed[l.key] = home[l.id]

\* What a request knows, by the statement it is at.
RequestFits(home, r) ==
    LET l == local[r] IN
    /\ stage[r] \in {"register", "social"} => l.email \in Typed /\ l.name \in Names
    /\ stage[r] = "commit" => Pending(l)
    /\ stage[r] = "user" => Follows(home, l)
    /\ stage[r] \in {"profile", "save", "delete"} =>
          l.id \in UserIds /\ CopyOf(home, l.id, l.row)

Fits(home) ==
    /\ Shape
    /\ RowsFit(home)
    /\ TokensFit(home)
    /\ EmailsDiffer
    /\ \A r \in Requests : RequestFits(home, r)

AccountsInv == \E home \in Homes : Fits(home)

\* How a step may go on from what was known, home, to h.
Grows(home, h) ==
    /\ h \in Homes
    /\ \A i \in UserIds : i < nextUser => h[i] = home[i]
    /\ nextUser' \in Nat \ {0} /\ nextUser <= nextUser'
    /\ nextKey' \in Nat \ {0} /\ nextKey <= nextKey'
    /\ trusted \subseteq trusted' /\ presented \subseteq presented'
    /\ \A k \in Keys : k < nextKey => addressed'[k] = addressed[k]

----------------------------------------------------------------------------
(* What stays as it was. *)

\* A copy of a row stays one.
LEMMA CopyKept ==
    ASSUME Shape, NEW home, NEW h, Grows(home, h),
           NEW i \in UserIds, NEW row, CopyOf(home, i, row)
    PROVE  CopyOf(h, i, row)'
<1>1. row \in UserRow /\ i < nextUser /\ row.email = home[i]
  BY DEF CopyOf
<1>2. i < nextUser' /\ h[i] = home[i]
  BY <1>1 DEF Grows, Shape, UserIds
<1>3. ASSUME row.active, i \notin trusted'
      PROVE  \E k \in presented' : addressed'[k] = row.email
  <2>1. PICK k \in presented : addressed[k] = row.email
    BY <1>3 DEF CopyOf, Grows
  <2>2. k \in Keys /\ k < nextKey
    BY DEF Shape
  <2> QED
    BY <2>1, <2>2 DEF Grows
<1> QED
  BY <1>1, <1>2, <1>3 DEF CopyOf

\* A request that does not move keeps what it knows.  Nobody writes users
\* while another request is about to commit.
LEMMA RequestKept ==
    ASSUME Shape, NEW home, NEW h, Grows(home, h),
           NEW r \in Requests, RequestFits(home, r),
           stage'[r] = stage[r], local'[r] = local[r],
           stage[r] = "commit" => UNCHANGED <<user, nextUser>>
    PROVE  RequestFits(h, r)'
<1> DEFINE l == local[r]
<1>1. ASSUME stage[r] = "commit"
      PROVE  Pending(l)'
  <2>1. Pending(l) /\ UNCHANGED <<user, nextUser>>
    BY <1>1 DEF RequestFits
  <2>2. EmailTaken(l.row.email)' = EmailTaken(l.row.email)
    BY <2>1 DEF EmailTaken, Accounts
  <2>3. /\ l.key < nextKey' /\ addressed'[l.key] = l.row.email
    BY <2>1 DEF Pending, Grows, Shape, Keys
  <2> QED
    BY <2>1, <2>2, <2>3 DEF Pending
<1>2. ASSUME stage[r] = "user"
      PROVE  Follows(h, l)'
  <2>1. Follows(home, l)
    BY <1>2 DEF RequestFits
  <2>2. l.key \in Keys /\ l.key < nextKey
    BY <2>1 DEF Follows, Shape
  <2> QED
    BY <2>1, <2>2 DEF Follows, Grows, Shape, UserIds
<1>3. ASSUME stage[r] \in {"profile", "save", "delete"}
      PROVE  l.id \in UserIds /\ CopyOf(h, l.id, l.row)'
  <2>1. l.id \in UserIds /\ CopyOf(home, l.id, l.row)
    BY <1>3 DEF RequestFits
  <2>2. \A i \in UserIds : \A row : CopyOf(home, i, row) =>
           /\ row \in UserRow /\ i < nextUser' /\ row.email = h[i]
           /\ row.active => \/ i \in trusted'
                            \/ \E k \in presented' : addressed'[k] = row.email
    BY CopyKept DEF CopyOf
  <2> QED
    BY <2>1, <2>2 DEF CopyOf
<1>4. stage[r] \in {"register", "social"} => l.email \in Typed /\ l.name \in Names
  BY DEF RequestFits
<1> HIDE DEF l
<1>5. l = local[r] /\ l' = local[r] /\ l' = l
  BY DEF l
<1> QED
  BY <1>1, <1>2, <1>3, <1>4, <1>5 DEF RequestFits, Pending, Follows, CopyOf, EmailTaken

\* A request that moves leaves the others what they know.
LEMMA OthersKept ==
    ASSUME NEW home, Fits(home), NEW h, Grows(home, h),
           NEW r \in Requests, NEW where, NEW what, Proceed(r, where, what),
           UNCHANGED <<user, nextUser>> \/ writer \subseteq {r},
           RequestFits(h, r)'
    PROVE  \A q \in Requests : RequestFits(h, q)'
<1> SUFFICES ASSUME NEW q \in Requests, q # r
             PROVE  RequestFits(h, q)'
  OBVIOUS
<1>1. Shape /\ RequestFits(home, q)
  BY DEF Fits
<1>2. stage'[q] = stage[q] /\ local'[q] = local[q]
  BY <1>1 DEF Proceed, Shape
<1>3. stage[q] = "commit" => UNCHANGED <<user, nextUser>>
  BY <1>1 DEF Shape, AccountsTypeOK
<1> QED
  BY <1>1, <1>2, <1>3, RequestKept

\* No request moves.
LEMMA AllKept ==
    ASSUME NEW home, Fits(home), NEW h, Grows(home, h), UNCHANGED <<stage, local>>,
           UNCHANGED <<user, nextUser>> \/ writer = {}
    PROVE  \A q \in Requests : RequestFits(h, q)'
<1> SUFFICES ASSUME NEW q \in Requests
             PROVE  RequestFits(h, q)'
  OBVIOUS
<1>1. Shape /\ RequestFits(home, q)
  BY DEF Fits
<1>2. stage[q] = "commit" => UNCHANGED <<user, nextUser>>
  BY <1>1 DEF Shape, AccountsTypeOK
<1> QED
  BY <1>1, <1>2, RequestKept

\* The cache takes rows of the table, or drops some, and the table stays.
LEMMA RowsKept ==
    ASSUME NEW home, Fits(home), NEW h, Grows(home, h), UNCHANGED user,
           \A i \in UserIds : cached'[i] \in {NoRow, cached[i], user[i]}
    PROVE  RowsFit(h)' /\ EmailsDiffer'
<1>1. Shape /\ RowsFit(home) /\ EmailsDiffer
  BY DEF Fits
<1>2. ASSUME NEW i \in UserIds, NEW row \in {cached[i], user[i]}, row # NoRow
      PROVE  CopyOf(h, i, row)'
  <2>1. CopyOf(home, i, row)
    BY <1>1, <1>2 DEF RowsFit, Accounts
  <2> QED
    BY <1>1, <2>1, CopyKept
<1>3. \A i \in Accounts' : CopyOf(h, i, user[i])'
  BY <1>2 DEF Accounts, CopyOf
<1>4. \A i \in UserIds : cached'[i] # NoRow => CopyOf(h, i, cached[i])'
  BY <1>2 DEF CopyOf
<1> QED
  BY <1>1, <1>3, <1>4 DEF RowsFit, EmailsDiffer, Accounts

\* Tokens stay or go, and so do no accounts.
LEMMA TokensKept ==
    ASSUME NEW home, Fits(home), NEW h, Grows(home, h),
           \A k \in Keys : token'[k] # NoRow =>
               /\ token[k] # NoRow /\ token'[k].user = token[k].user
               /\ token[k].user \in Accounts'
    PROVE  TokensFit(h)'
<1> SUFFICES ASSUME NEW k \in Keys, token'[k] # NoRow
             PROVE  /\ k < nextKey' /\ token'[k].user \in Accounts'
                    /\ addressed'[k] = h[token'[k].user]
  BY DEF TokensFit
<1>1. /\ k < nextKey /\ token[k].user \in Accounts
      /\ addressed[k] = home[token[k].user]
  BY DEF Fits, TokensFit
<1>2. token[k].user \in UserIds /\ token[k].user < nextUser
  BY <1>1 DEF Fits, RowsFit, CopyOf, Accounts
<1> QED
  BY <1>1, <1>2 DEF Grows, Fits, Shape, Keys

\* A step of a request that writes neither the tables nor the lock.
LEMMA ProgressFits ==
    ASSUME NEW home \in Homes, Fits(home),
           NEW r \in Requests, NEW where, NEW what, Proceed(r, where, what),
           stage[r] # "commit", where # "commit",
           UNCHANGED <<accounts, writer, addressed, trusted, post>>,
           presented \subseteq presented',
           presented' \subseteq {k \in Keys : k < nextKey},
           cached' \in [UserIds -> UserRow \cup {NoRow}],
           \A i \in UserIds : cached'[i] \in {NoRow, cached[i], user[i]},
           RequestFits(home, r)'
    PROVE  Fits(home)'
<1>1. UNCHANGED <<user, nextUser, token, nextKey>>
  BY DEF accounts
<1>2. Grows(home, home)
  BY <1>1 DEF Grows, Fits, Shape
<1>3. \A q \in Requests : RequestFits(home, q)'
  BY <1>1, <1>2, OthersKept
<1>4. RowsFit(home)' /\ EmailsDiffer'
  BY <1>1, <1>2, RowsKept
<1>5. TokensFit(home)'
  <2>1. \A k \in Keys : token[k] # NoRow => token[k].user \in Accounts
    BY DEF Fits, TokensFit
  <2> QED
    BY <1>1, <1>2, <2>1, TokensKept DEF Accounts
<1>6. Shape'
  <2>1. Shape
    BY DEF Fits
  <2>2. DOMAIN stage' = Requests /\ DOMAIN local' = Requests
    BY <2>1 DEF Shape, Proceed
  <2>3. \A q \in Requests : q \in writer' <=> stage'[q] = "commit"
    BY <2>1 DEF Shape, Proceed, AccountsTypeOK
  <2>4. MailTypeOK'
    BY <2>1 DEF Shape, AccountsTypeOK, MailTypeOK, post
  <2>5. AccountsTypeOK'
    BY <1>1, <2>1, <2>3, <2>4 DEF Shape, AccountsTypeOK
  <2> QED
    BY <1>1, <2>1, <2>2, <2>5 DEF Shape
<1> QED
  BY <1>3, <1>4, <1>5, <1>6 DEF Fits

----------------------------------------------------------------------------
(* Requests. *)

\* What is answered knows nothing any more.
LEMMA Answers ==
    ASSUME NEW r \in Requests, Shape, Respond(r), NEW home
    PROVE  RequestFits(home, r)'
<1>1. stage'[r] = "answered"
  BY DEF Respond, Proceed, Shape
<1> QED
  BY <1>1 DEF RequestFits

\* What the cache holds after a get.
LEMMA Filled ==
    ASSUME Shape, NEW i \in UserIds, Fill(i)
    PROVE  /\ cached' \in [UserIds -> UserRow \cup {NoRow}]
           /\ \A j \in UserIds : cached'[j] \in {NoRow, cached[j], user[j]}
BY DEF Shape, AccountsTypeOK, Fill, SeenUser

\* The row that a get returns is a copy.
LEMMA SeenIsCopy ==
    ASSUME NEW home, Fits(home), NEW i \in UserIds, SeenUser(i) # NoRow
    PROVE  CopyOf(home, i, SeenUser(i)) /\ SeenUser(i) \in UserRow
BY DEF Fits, RowsFit, SeenUser, Accounts, CopyOf

\* The first statement of a request.
LEMMA OpenFits ==
    ASSUME NEW home \in Homes, Fits(home), NEW r \in Requests, Open(r)
    PROVE  Fits(home)'
<1>0. Shape
  BY DEF Fits
<1>1. ASSUME NEW e \in Typed, NEW n \in Names,
             Validate(r, e, n) \/ SocialName(r, e, n)
      PROVE  Fits(home)'
  <2> DEFINE l == [email |-> Normal[e], name |-> n]
  <2>1. PICK where \in {"register", "social"} : Proceed(r, where, l)
    BY <1>1 DEF Validate, SocialName
  <2>2. /\ UNCHANGED <<accounts, cached, writer, history, post>>
        /\ stage[r] = "unused"
    BY <1>1 DEF Validate, SocialName, Asked
  <2>3. RequestFits(home, r)'
    <3>1. stage'[r] \in {"register", "social"} /\ local'[r] = l
      BY <1>0, <2>1 DEF Proceed, Shape
    <3>2. l.email \in Typed /\ l.name \in Names
      BY AccountsAssumption
    <3> HIDE DEF l
    <3> QED
      BY <3>1, <3>2 DEF RequestFits
  <2> HIDE DEF l
  <2> QED
    BY <1>0, <2>1, <2>2, <2>3, ProgressFits DEF Shape, AccountsTypeOK, history
<1>2. ASSUME NEW k \in Keys, Verify(r, k)
      PROVE  Fits(home)'
  <2> DEFINE l == [id |-> token[k].user, key |-> k]
  <2>1. /\ Proceed(r, "user", l) /\ stage[r] = "unused"
        /\ token[k] # NoRow /\ presented' = presented \cup {k}
        /\ UNCHANGED <<accounts, cached, writer, addressed, trusted, post>>
    BY <1>2 DEF Verify, Asked
  <2>2. /\ k < nextKey /\ token[k].user \in Accounts
        /\ addressed[k] = home[token[k].user]
    BY <2>1 DEF Fits, TokensFit
  <2>3. l.id \in UserIds /\ l.id < nextUser
    BY <2>2 DEF Fits, RowsFit, CopyOf, Accounts
  <2>4. RequestFits(home, r)'
    <3>1. stage'[r] = "user" /\ local'[r] = l
      BY <1>0, <2>1 DEF Proceed, Shape
    <3>2. l.key \in presented' /\ addressed'[l.key] = home[l.id]
      BY <2>1, <2>2
    <3>3. nextUser' = nextUser
      BY <2>1 DEF accounts
    <3> HIDE DEF l
    <3> QED
      BY <2>3, <3>1, <3>2, <3>3 DEF RequestFits, Follows
  <2>5. presented' \subseteq {x \in Keys : x < nextKey}
    BY <1>0, <2>1, <2>2 DEF Shape
  <2> HIDE DEF l
  <2> QED
    BY <1>0, <2>1, <2>4, <2>5, ProgressFits DEF Shape, AccountsTypeOK
<1>3. ASSUME NEW i \in UserIds, Profile(r, i)
      PROVE  Fits(home)'
  <2> DEFINE l == [id |-> i, row |-> SeenUser(i)]
  <2>1. /\ Proceed(r, "profile", l) /\ stage[r] = "unused" /\ Fill(i)
        /\ SeenUser(i) # NoRow
        /\ UNCHANGED <<accounts, writer, history, post>>
    BY <1>3 DEF Profile, Asked
  <2>2. CopyOf(home, i, SeenUser(i))
    BY <2>1, SeenIsCopy
  <2>3. RequestFits(home, r)'
    <3>1. stage'[r] = "profile" /\ local'[r] = l
      BY <1>0, <2>1 DEF Proceed, Shape
    <3>2. UNCHANGED <<nextUser, trusted, presented, addressed>>
      BY <2>1 DEF accounts, history
    <3> QED
      BY <2>2, <3>1, <3>2 DEF RequestFits, CopyOf
  <2>4. presented' \subseteq {x \in Keys : x < nextKey}
    BY <1>0, <2>1 DEF Shape, history
  <2> HIDE DEF l
  <2> QED
    BY <1>0, <2>1, <2>3, <2>4, Filled, ProgressFits DEF history
<1> QED
  BY <1>1, <1>2, <1>3 DEF Open

\* The statements that only read.
LEMMA ReadsFit ==
    ASSUME NEW home \in Homes, Fits(home), NEW r \in Requests,
           VerifyUser(r) \/ \E n \in Names : ProfileValidate(r, n)
    PROVE  Fits(home)'
<1>0. Shape /\ RequestFits(home, r)
  BY DEF Fits
<1> DEFINE l == local[r]
<1>1. ASSUME VerifyUser(r)
      PROVE  Fits(home)'
  <2> DEFINE i == l.id
             m == [id |-> i, key |-> l.key,
                   row |-> [SeenUser(i) EXCEPT !.active = TRUE]]
  <2>1. stage[r] = "user" /\ Fill(i) /\ UNCHANGED <<accounts, writer, history, post>>
    BY <1>1 DEF VerifyUser
  <2>2. Follows(home, l) /\ i \in UserIds
    BY <1>0, <2>1 DEF RequestFits, Follows
  <2>3. /\ presented' \subseteq {x \in Keys : x < nextKey}
        /\ UNCHANGED <<nextUser, trusted, presented, addressed>>
    BY <1>0, <2>1 DEF Shape, history, accounts
  <2>4. CASE SeenUser(i) = NoRow
    <3>1. Proceed(r, "answered", NoRow)
      BY <1>1, <2>4 DEF VerifyUser, Respond
    <3>2. RequestFits(home, r)'
      BY <1>0, <3>1, Answers DEF Respond
    <3> HIDE DEF l
    <3> QED
      BY <1>0, <2>1, <2>2, <2>3, <3>1, <3>2, Filled, ProgressFits
  <2>5. CASE SeenUser(i) # NoRow
    <3>1. Proceed(r, "save", m)
      BY <1>1, <2>5 DEF VerifyUser
    <3>2. CopyOf(home, i, SeenUser(i))
      BY <2>2, <2>5, SeenIsCopy
    <3>3. /\ m.row \in UserRow /\ m.row.email = home[i] /\ i < nextUser
          /\ l.key \in presented /\ addressed[l.key] = m.row.email
      BY <2>2, <3>2 DEF CopyOf, UserRow, Follows
    <3>4. stage'[r] = "save" /\ local'[r] = m /\ m.id = i
      BY <1>0, <3>1 DEF Proceed, Shape
    <3>5. RequestFits(home, r)'
      <4> HIDE DEF m
      <4> QED
        BY <2>2, <2>3, <3>3, <3>4 DEF RequestFits, CopyOf
    <3> HIDE DEF m, l
    <3> QED
      BY <1>0, <2>1, <2>2, <2>3, <3>1, <3>5, Filled, ProgressFits
  <2> QED
    BY <2>4, <2>5
<1>2. ASSUME NEW n \in Names, ProfileValidate(r, n)
      PROVE  Fits(home)'
  <2> DEFINE m == [id |-> l.id, key |-> NoRow, row |-> [l.row EXCEPT !.name = n]]
  <2>1. stage[r] = "profile" /\ UNCHANGED <<accounts, cached, writer, history, post>>
    BY <1>2 DEF ProfileValidate
  <2>2. l.id \in UserIds /\ CopyOf(home, l.id, l.row)
    BY <1>0, <2>1 DEF RequestFits
  <2>3. /\ presented' \subseteq {x \in Keys : x < nextKey}
        /\ UNCHANGED <<nextUser, trusted, presented, addressed>>
        /\ cached' \in [UserIds -> UserRow \cup {NoRow}]
        /\ \A j \in UserIds : cached'[j] \in {NoRow, cached[j], user[j]}
    BY <1>0, <2>1 DEF Shape, history, accounts, AccountsTypeOK
  <2>4. CASE Respond(r)
    <3>1. RequestFits(home, r)'
      BY <1>0, <2>4, Answers
    <3> QED
      BY <2>1, <2>3, <2>4, <3>1, ProgressFits DEF Respond
  <2>5. CASE Proceed(r, "save", m)
    <3>1. m.row \in UserRow /\ m.row.email = l.row.email /\ m.row.active = l.row.active
      BY <2>2 DEF CopyOf, UserRow
    <3>2. stage'[r] = "save" /\ local'[r] = m /\ m.id = l.id
      BY <1>0, <2>5 DEF Proceed, Shape
    <3>3. RequestFits(home, r)'
      <4> HIDE DEF m, l
      <4> QED
        BY <2>2, <2>3, <3>1, <3>2 DEF RequestFits, CopyOf
    <3> HIDE DEF m, l
    <3> QED
      BY <2>1, <2>3, <2>5, <3>3, ProgressFits
  <2> QED
    BY <1>2, <2>4, <2>5 DEF ProfileValidate
<1> QED
  BY <1>1, <1>2

\* An error: nothing is written and the lock is given back.
LEMMA ErrorFits ==
    ASSUME NEW home \in Homes, Fits(home), NEW r \in Requests, Error(r)
    PROVE  Fits(home)'
<1>1. /\ Proceed(r, "answered", NoRow) /\ writer' = writer \ {r}
      /\ UNCHANGED <<user, nextUser, token, nextKey, cached>>
      /\ UNCHANGED <<addressed, presented, trusted>> /\ UNCHANGED post
  BY DEF Error, Respond, accounts, history
<1>2. Shape
  BY DEF Fits
<1>3. Grows(home, home)
  BY <1>1, <1>2 DEF Grows, Shape
<1>4. RequestFits(home, r)'
  BY <1>1, <1>2, Answers DEF Respond
<1>5. \A q \in Requests : RequestFits(home, q)'
  BY <1>1, <1>3, <1>4, OthersKept
<1>6. RowsFit(home)' /\ EmailsDiffer'
  BY <1>1, <1>3, RowsKept
<1>7. TokensFit(home)'
  <2>1. \A k \in Keys : token[k] # NoRow => token[k].user \in Accounts
    BY DEF Fits, TokensFit
  <2> QED
    BY <1>1, <1>3, <2>1, TokensKept DEF Accounts
<1>8. Shape'
  <2>1. DOMAIN stage' = Requests /\ DOMAIN local' = Requests
    BY <1>1, <1>2 DEF Shape, Proceed
  <2>2. \A q \in Requests : q \in writer' <=> stage'[q] = "commit"
    BY <1>1, <1>2 DEF Shape, Proceed, AccountsTypeOK
  <2>3. AccountsTypeOK'
    BY <1>1, <1>2, <2>2 DEF Shape, AccountsTypeOK, MailTypeOK, post
  <2> QED
    BY <1>1, <1>2, <2>1, <2>3 DEF Shape
<1> QED
  BY <1>5, <1>6, <1>7, <1>8 DEF Fits

\* A letter is handed over.
LEMMA QueueTypeOK ==
    ASSUME MailTypeOK, NEW k \in Letters, Queue(k), UNCHANGED resends
    PROVE  MailTypeOK'
BY DEF MailTypeOK, Queue

\* A registration writes: its address is free and its key is new.
LEMMA RegisterWriteFits ==
    ASSUME NEW home \in Homes, Fits(home), NEW r \in Requests, RegisterWrite(r)
    PROVE  Fits(home)'
<1> DEFINE l == local[r]
           m == [row |-> Registered(l), key |-> nextKey]
<1>1. /\ stage[r] = "register" /\ writer = {} /\ writer' = {r}
      /\ nextUser <= MaxUsers /\ nextKey <= MaxKeys
      /\ ~ EmailTaken(l.email)
      /\ nextKey' = nextKey + 1
      /\ addressed' = [addressed EXCEPT ![nextKey] = l.email]
      /\ Queue(nextKey) /\ UNCHANGED resends
      /\ Proceed(r, "commit", m)
      /\ UNCHANGED <<user, nextUser, token, cached, presented, trusted>>
  BY DEF RegisterWrite, MayInsertUser
<1>2. Shape /\ RequestFits(home, r)
  BY DEF Fits
<1>3. nextKey \in Keys /\ nextKey \in Nat
  BY <1>1, <1>2, AccountsAssumption DEF Shape, Keys
<1>4. l.email \in Typed /\ l.name \in Names
  BY <1>1, <1>2 DEF RequestFits
<1>5. Grows(home, home)
  BY <1>1, <1>2, <1>3 DEF Grows, Shape, Keys
<1>6. RequestFits(home, r)'
  <2>1. stage'[r] = "commit" /\ local'[r] = m
    BY <1>1, <1>2 DEF Proceed, Shape
  <2>2. m.row \in UserRow /\ ~ m.row.active /\ m.row.email = l.email
    BY <1>4 DEF Registered, UserRow
  <2>3. m.key = nextKey /\ nextKey < nextKey' /\ addressed'[nextKey] = l.email
    BY <1>1, <1>2, <1>3 DEF Shape
  <2> HIDE DEF m, l
  <2>4. Pending(local[r])'
    <3>1. EmailTaken(local[r].row.email)' <=> \E i \in Accounts' : user'[i].email = m.row.email
      BY <2>1 DEF EmailTaken
    <3>2. ~ \E i \in Accounts' : user'[i].email = m.row.email
      BY <1>1, <2>2 DEF EmailTaken, Accounts
    <3> QED
      BY <1>1, <1>3, <2>1, <2>2, <2>3, <3>1, <3>2 DEF Pending
  <2> QED
    BY <2>1, <2>4 DEF RequestFits
<1>7. \A q \in Requests : RequestFits(home, q)'
  <2> HIDE DEF m, l
  <2> QED
    BY <1>1, <1>5, <1>6, OthersKept
<1>8. RowsFit(home)' /\ EmailsDiffer'
  BY <1>1, <1>5, RowsKept
<1>9. TokensFit(home)'
  <2>1. \A k \in Keys : token[k] # NoRow => token[k].user \in Accounts
    BY DEF Fits, TokensFit
  <2> QED
    BY <1>1, <1>5, <2>1, TokensKept DEF Accounts
<1>10. Shape'
  <2>1. DOMAIN stage' = Requests /\ DOMAIN local' = Requests
    BY <1>1, <1>2 DEF Shape, Proceed
  <2>2. \A q \in Requests : q \in writer' <=> stage'[q] = "commit"
    BY <1>1, <1>2 DEF Shape, Proceed, AccountsTypeOK
  <2>3. MailTypeOK'
    BY <1>1, <1>2, <1>3, QueueTypeOK, AccountsAssumption DEF Shape, AccountsTypeOK
  <2>4. AccountsTypeOK'
    BY <1>1, <1>2, <2>2, <2>3 DEF Shape, AccountsTypeOK
  <2>5. presented' \subseteq {k \in Keys : k < nextKey'}
    BY <1>1, <1>2 DEF Shape, Keys
  <2>6. addressed' \in [Keys -> Typed \cup {NoRow}]
    BY <1>1, <1>2, <1>4 DEF Shape
  <2> QED
    BY <1>1, <1>2, <1>3, <2>1, <2>4, <2>5, <2>6 DEF Shape
<1> QED
  BY <1>7, <1>8, <1>9, <1>10 DEF Fits

\* A new account, of an address that is free, gets a home.
LEMMA InsertFits ==
    ASSUME NEW home \in Homes, Fits(home), nextUser <= MaxUsers,
           NEW row \in UserRow, ~ row.active, ~ EmailTaken(row.email),
           user' = [user EXCEPT ![nextUser] = row], nextUser' = nextUser + 1,
           UNCHANGED <<nextKey, cached, addressed, presented, trusted>>,
           NEW h, h = [home EXCEPT ![nextUser] = row.email]
    PROVE  /\ nextUser \in UserIds /\ h[nextUser] = row.email
           /\ Accounts' = Accounts \cup {nextUser}
           /\ user' \in [UserIds -> UserRow \cup {NoRow}]
           /\ Grows(home, h)
           /\ RowsFit(h)'
           /\ EmailsDiffer'
<1>1. Shape /\ RowsFit(home) /\ EmailsDiffer
  BY DEF Fits
<1>2. nextUser \in UserIds /\ nextUser \in Nat
  BY <1>1, AccountsAssumption DEF Shape, UserIds
<1>3. row.email \in Typed /\ row # NoRow
  BY AccountsAssumption DEF UserRow
<1>4. h \in Homes /\ h[nextUser] = row.email
  BY <1>2, <1>3 DEF Homes
<1>5. \A i \in UserIds : /\ i # nextUser => h[i] = home[i] /\ user'[i] = user[i]
                         /\ user'[nextUser] = row
  BY <1>1, <1>2 DEF Homes, Shape, AccountsTypeOK
<1>6. Accounts' = Accounts \cup {nextUser}
  BY <1>2, <1>3, <1>5 DEF Accounts
<1>7. user' \in [UserIds -> UserRow \cup {NoRow}]
  BY <1>1, <1>2 DEF Shape, AccountsTypeOK
<1>8. Grows(home, h)
  BY <1>1, <1>2, <1>4, <1>5 DEF Grows, Shape, UserIds
<1>9. RowsFit(h)'
  <2>1. ASSUME NEW i \in Accounts, i # nextUser
        PROVE  CopyOf(h, i, user[i])'
    <3>1. i \in UserIds /\ CopyOf(home, i, user[i])
      BY <1>1 DEF RowsFit, Accounts
    <3> DEFINE old == user[i]
    <3>2. CopyOf(home, i, old)
      BY <3>1
    <3> HIDE DEF old
    <3>3. CopyOf(h, i, user[i])' <=>
             /\ old \in UserRow /\ i < nextUser' /\ old.email = h[i]
             /\ old.active => \/ i \in trusted'
                              \/ \E k \in presented' : addressed'[k] = old.email
      BY <1>5, <2>1, <3>1 DEF CopyOf, old
    <3> QED
      BY <1>1, <1>8, <3>1, <3>2, <3>3 DEF CopyOf, Grows, Shape, UserIds
  <2>2. ASSUME NEW i \in UserIds, i = nextUser
        PROVE  CopyOf(h, i, user[i])'
    <3>1. i < nextUser' /\ user'[i] = row /\ h[i] = row.email
      BY <1>2, <1>4, <1>5, <2>2
    <3> QED
      BY <3>1 DEF CopyOf
  <2>3. \A i \in UserIds : cached'[i] # NoRow => CopyOf(h, i, cached[i])'
    BY <1>1, <1>8 DEF RowsFit, CopyOf, Grows, Shape, UserIds
  <2>4. \A i \in Accounts' : CopyOf(h, i, user[i])'
    BY <1>2, <1>6, <2>1, <2>2 DEF CopyOf
  <2> QED
    BY <2>3, <2>4 DEF RowsFit
<1>10. EmailsDiffer'
  <2>1. \A i \in Accounts : user[i].email # row.email
    BY DEF EmailTaken
  <2> QED
    BY <1>1, <1>2, <1>5, <1>6, <2>1 DEF EmailsDiffer, Accounts
<1> QED
  BY <1>2, <1>4, <1>6, <1>7, <1>8, <1>9, <1>10

\* Its commit inserts the account and its token.
LEMMA RegisterCommitFits ==
    ASSUME NEW home \in Homes, Fits(home), NEW r \in Requests, RegisterCommit(r)
    PROVE  \E h \in Homes : Fits(h)'
<1> DEFINE l == local[r]
<1>1. /\ stage[r] = "commit" /\ writer' = {}
      /\ user' = [user EXCEPT ![nextUser] = l.row]
      /\ token' = [token EXCEPT ![l.key] = [user |-> nextUser, old |-> FALSE]]
      /\ nextUser' = nextUser + 1
      /\ Proceed(r, "answered", NoRow)
      /\ UNCHANGED <<nextKey, cached, addressed, presented, trusted>>
      /\ UNCHANGED post
  BY DEF RegisterCommit, Respond
<1>2. Shape /\ RequestFits(home, r)
  BY DEF Fits
<1>3. Pending(l)
  BY <1>1, <1>2 DEF RequestFits
<1>4. writer = {r}
  BY <1>1, <1>2 DEF Shape, AccountsTypeOK
<1>5. PICK g : g = [home EXCEPT ![nextUser] = l.row.email]
  OBVIOUS
<1>6. /\ nextUser \in UserIds /\ g[nextUser] = l.row.email
      /\ Accounts' = Accounts \cup {nextUser}
      /\ user' \in [UserIds -> UserRow \cup {NoRow}]
      /\ Grows(home, g)
      /\ RowsFit(g)'
      /\ EmailsDiffer'
  <2> DEFINE row == l.row
  <2>1. /\ row \in UserRow /\ ~ row.active /\ ~ EmailTaken(row.email)
        /\ nextUser <= MaxUsers
    BY <1>3 DEF Pending
  <2>2. /\ user' = [user EXCEPT ![nextUser] = row]
        /\ g = [home EXCEPT ![nextUser] = row.email]
        /\ row.email = l.row.email
    BY <1>1, <1>5
  <2> HIDE DEF row, l
  <2> QED
    BY <1>1, <2>1, <2>2, InsertFits
<1>7. RequestFits(g, r)'
  BY <1>1, <1>2, Answers DEF Respond
<1>8. \A q \in Requests : RequestFits(g, q)'
  BY <1>1, <1>4, <1>6, <1>7, OthersKept
<1>9. TokensFit(g)'
  <2> SUFFICES ASSUME NEW k \in Keys, token'[k] # NoRow
               PROVE  /\ k < nextKey' /\ token'[k].user \in Accounts'
                      /\ addressed'[k] = g[token'[k].user]
    BY DEF TokensFit
  <2>1. CASE k = l.key
    <3>1. token'[k] = [user |-> nextUser, old |-> FALSE]
      BY <1>1, <1>2, <2>1 DEF Shape, AccountsTypeOK
    <3> QED
      BY <1>1, <1>3, <1>6, <2>1, <3>1 DEF Pending
  <2>2. CASE k # l.key
    <3>1. token'[k] = token[k]
      BY <1>1, <1>2, <2>2 DEF Shape, AccountsTypeOK
    <3>2. /\ k < nextKey /\ token[k].user \in Accounts
          /\ addressed[k] = home[token[k].user]
      BY <3>1 DEF Fits, TokensFit
    <3>3. token[k].user \in UserIds /\ token[k].user < nextUser
      BY <3>2 DEF Fits, RowsFit, CopyOf, Accounts
    <3> QED
      BY <1>1, <1>6, <3>1, <3>2, <3>3 DEF Grows
  <2> QED
    BY <2>1, <2>2
<1>10. Shape'
  <2>1. DOMAIN stage' = Requests /\ DOMAIN local' = Requests
    BY <1>1, <1>2 DEF Shape, Proceed
  <2>2. \A q \in Requests : q \in writer' <=> stage'[q] = "commit"
    BY <1>1, <1>2, <1>4 DEF Shape, Proceed, AccountsTypeOK
  <2>3. token' \in [Keys -> TokenRow \cup {NoRow}]
    <3>1. [user |-> nextUser, old |-> FALSE] \in TokenRow
      BY <1>6 DEF TokenRow
    <3> QED
      BY <1>1, <1>2, <3>1 DEF Shape, AccountsTypeOK
  <2>4. AccountsTypeOK'
    BY <1>1, <1>2, <1>6, <2>2, <2>3 DEF Shape, AccountsTypeOK, MailTypeOK, post
  <2> QED
    BY <1>1, <1>2, <2>1, <2>4 DEF Shape
<1> QED
  BY <1>6, <1>8, <1>9, <1>10 DEF Fits, Grows

\* A social sign-in inserts an account without a token.
LEMMA SocialCreateFits ==
    ASSUME NEW home \in Homes, Fits(home), NEW r \in Requests, SocialCreate(r)
    PROVE  \E h \in Homes : Fits(h)'
<1> DEFINE row == Registered(local[r])
<1>1. /\ stage[r] = "social" /\ writer = {} /\ nextUser <= MaxUsers
      /\ ~ EmailTaken(local[r].email)
      /\ user' = [user EXCEPT ![nextUser] = row]
      /\ nextUser' = nextUser + 1
      /\ Proceed(r, "answered", NoRow)
      /\ UNCHANGED <<token, nextKey, cached, writer>>
      /\ UNCHANGED <<addressed, presented, trusted>> /\ UNCHANGED post
  BY DEF SocialCreate, Respond, MayInsertUser, history
<1>2. Shape /\ RequestFits(home, r)
  BY DEF Fits
<1>3. /\ row \in UserRow /\ ~ row.active /\ row.email = local[r].email
  BY <1>1, <1>2 DEF RequestFits, Registered, UserRow
<1>4. PICK g : g = [home EXCEPT ![nextUser] = row.email]
  OBVIOUS
<1>5. /\ Accounts' = Accounts \cup {nextUser}
      /\ user' \in [UserIds -> UserRow \cup {NoRow}]
      /\ Grows(home, g)
      /\ RowsFit(g)'
      /\ EmailsDiffer'
  <2> HIDE DEF row
  <2>1. ~ EmailTaken(row.email)
    BY <1>1, <1>3
  <2> QED
    BY <1>1, <1>3, <1>4, <2>1, InsertFits
<1>6. RequestFits(g, r)'
  BY <1>1, <1>2, Answers DEF Respond
<1>7. \A q \in Requests : RequestFits(g, q)'
  <2>1. writer \subseteq {r}
    BY <1>1
  <2> HIDE DEF row
  <2> QED
    BY <1>1, <1>5, <1>6, <2>1, OthersKept
<1>8. TokensFit(g)'
  <2>1. \A k \in Keys : token[k] # NoRow => token[k].user \in Accounts
    BY DEF Fits, TokensFit
  <2> QED
    BY <1>1, <1>5, <2>1, TokensKept
<1>9. Shape'
  <2>1. DOMAIN stage' = Requests /\ DOMAIN local' = Requests
    BY <1>1, <1>2 DEF Shape, Proceed
  <2>2. \A q \in Requests : q \in writer' <=> stage'[q] = "commit"
    BY <1>1, <1>2 DEF Shape, Proceed, AccountsTypeOK
  <2>3. AccountsTypeOK'
    BY <1>1, <1>2, <1>5, <2>2 DEF Shape, AccountsTypeOK, MailTypeOK, post
  <2> QED
    BY <1>1, <1>2, <2>1, <2>3 DEF Shape
<1> QED
  BY <1>5, <1>7, <1>8, <1>9 DEF Fits, Grows

\* A save writes a copy over the row, or brings a deleted row back to an
\* address that is free.
LEMMA SaveFits ==
    ASSUME NEW home \in Homes, Fits(home), NEW r \in Requests, Save(r)
    PROVE  Fits(home)'
<1> DEFINE i == local[r].id
           row == local[r].row
<1>1. /\ stage[r] = "save" /\ writer = {} /\ Saves(i, row)
      /\ user' = [user EXCEPT ![i] = row]
      /\ InvalidateUser(i)
      /\ UNCHANGED <<nextUser, token, nextKey, writer>>
      /\ UNCHANGED <<addressed, presented, trusted>> /\ UNCHANGED post
  BY DEF Save, history
<1>2. PICK where \in {"answered", "delete"}, what \in {NoRow, local[r]} :
         /\ Proceed(r, where, what)
         /\ where = "delete" => what = local[r]
  BY DEF Save, Respond
<1>3. Shape /\ RequestFits(home, r) /\ RowsFit(home) /\ EmailsDiffer
  BY DEF Fits
<1>4. i \in UserIds /\ CopyOf(home, i, row)
  BY <1>1, <1>3 DEF RequestFits
<1>5. row \in UserRow /\ row # NoRow /\ row.email = home[i]
  BY <1>4, AccountsAssumption DEF CopyOf
<1>6. Grows(home, home)
  BY <1>1, <1>3 DEF Grows, Shape
<1>7. \A j \in UserIds : user'[j] = IF j = i THEN row ELSE user[j]
  BY <1>1, <1>3, <1>4 DEF Shape, AccountsTypeOK
<1>8. Accounts' = Accounts \cup {i}
  BY <1>4, <1>5, <1>7 DEF Accounts
<1>9. ASSUME NEW j \in UserIds, NEW copy, CopyOf(home, j, copy)
      PROVE  CopyOf(home, j, copy)'
  BY <1>3, <1>6, <1>9, CopyKept
<1>10. RequestFits(home, r)'
  <2>1. stage'[r] = where /\ local'[r] = what
    BY <1>2, <1>3 DEF Proceed, Shape
  <2>2. CASE where = "answered"
    BY <2>1, <2>2 DEF RequestFits
  <2>3. CASE where = "delete"
    <3>1. local'[r].id = i /\ local'[r].row = row
      BY <1>2, <2>1, <2>3
    <3> HIDE DEF i, row
    <3> QED
      BY <1>1, <1>4, <2>1, <2>3, <3>1 DEF RequestFits, CopyOf
  <2> QED
    BY <2>2, <2>3
<1>11. \A q \in Requests : RequestFits(home, q)'
  <2>1. writer \subseteq {r}
    BY <1>1
  <2> HIDE DEF i, row
  <2> QED
    BY <1>2, <1>6, <1>10, <2>1, OthersKept
<1> HIDE DEF i, row
<1>12. RowsFit(home)'
  <2>1. \A j \in Accounts' : CopyOf(home, j, user[j])'
    BY <1>1, <1>3, <1>4, <1>7, <1>8 DEF RowsFit, CopyOf, Accounts
  <2>2. \A j \in UserIds : cached'[j] # NoRow => CopyOf(home, j, cached[j])'
    <3>1. \A j \in UserIds : cached'[j] \in {NoRow, cached[j]}
      BY <1>1, <1>3, <1>4 DEF InvalidateUser, Shape, AccountsTypeOK
    <3> QED
      BY <1>1, <1>3, <3>1 DEF RowsFit, CopyOf
  <2> QED
    BY <2>1, <2>2 DEF RowsFit
<1>13. EmailsDiffer'
  <2>1. \A j \in Accounts : j # i => user[j].email # row.email
    <3>1. CASE user[i] # NoRow
      <4>1. i \in Accounts /\ user[i].email = home[i]
        BY <1>3, <1>4, <3>1 DEF Accounts, RowsFit, CopyOf
      <4> QED
        BY <1>3, <1>5, <4>1 DEF EmailsDiffer
    <3>2. CASE user[i] = NoRow
      BY <1>1, <3>2 DEF Saves, MayInsertUser, EmailTaken
    <3> QED
      BY <3>1, <3>2
  <2> QED
    BY <1>3, <1>4, <1>7, <1>8, <2>1 DEF EmailsDiffer, Accounts
<1>14. TokensFit(home)'
  <2>1. \A k \in Keys : token[k] # NoRow => token[k].user \in Accounts
    BY DEF Fits, TokensFit
  <2> QED
    BY <1>1, <1>6, <1>8, <2>1, TokensKept
<1>15. Shape'
  <2>1. DOMAIN stage' = Requests /\ DOMAIN local' = Requests
    BY <1>2, <1>3 DEF Shape, Proceed
  <2>2. \A q \in Requests : q \in writer' <=> stage'[q] = "commit"
    BY <1>1, <1>2, <1>3 DEF Shape, Proceed, AccountsTypeOK
  <2>3. cached' \in [UserIds -> UserRow \cup {NoRow}]
    BY <1>1, <1>3 DEF InvalidateUser, Shape, AccountsTypeOK
  <2>4. user' \in [UserIds -> UserRow \cup {NoRow}]
    BY <1>1, <1>3, <1>5 DEF Shape, AccountsTypeOK
  <2>5. AccountsTypeOK'
    BY <1>1, <1>3, <2>2, <2>3, <2>4 DEF Shape, AccountsTypeOK, MailTypeOK, post
  <2> QED
    BY <1>1, <1>3, <2>1, <2>5 DEF Shape
<1> QED
  BY <1>11, <1>12, <1>13, <1>14, <1>15 DEF Fits

----------------------------------------------------------------------------
(* Tokens that go, the cache, the administrator and the mail. *)

\* Tokens age or go, while requests keep what they know.
LEMMA FewerTokens ==
    ASSUME NEW home \in Homes, Fits(home),
           UNCHANGED <<user, nextUser, nextKey, cached, writer>>,
           UNCHANGED <<addressed, presented, trusted, post>>,
           token' \in [Keys -> TokenRow \cup {NoRow}],
           \A k \in Keys : token'[k] # NoRow =>
               token[k] # NoRow /\ token'[k].user = token[k].user,
           DOMAIN stage' = Requests, DOMAIN local' = Requests,
           \A q \in Requests : q \in writer <=> stage'[q] = "commit",
           \A q \in Requests : RequestFits(home, q)'
    PROVE  Fits(home)'
<1>1. Shape
  BY DEF Fits
<1>2. Grows(home, home)
  BY <1>1 DEF Grows, Shape
<1>3. RowsFit(home)' /\ EmailsDiffer'
  BY <1>2, RowsKept
<1>4. TokensFit(home)'
  <2>1. \A k \in Keys : token[k] # NoRow => token[k].user \in Accounts
    BY DEF Fits, TokensFit
  <2> QED
    BY <1>2, <2>1, TokensKept DEF Accounts
<1>5. Shape'
  <2>1. AccountsTypeOK'
    BY <1>1 DEF Shape, AccountsTypeOK, MailTypeOK, post
  <2> QED
    BY <1>1, <2>1 DEF Shape
<1> QED
  BY <1>3, <1>4, <1>5 DEF Fits

\* The token that was used is deleted.
LEMMA VerifyDeleteFits ==
    ASSUME NEW home \in Homes, Fits(home), NEW r \in Requests, VerifyDelete(r)
    PROVE  Fits(home)'
<1>1. /\ stage[r] = "delete" /\ writer = {}
      /\ token' = [token EXCEPT ![local[r].key] = NoRow]
      /\ Proceed(r, "answered", NoRow)
      /\ UNCHANGED <<user, nextUser, nextKey, cached, writer>>
      /\ UNCHANGED <<addressed, presented, trusted, post>>
  BY DEF VerifyDelete, Respond, history
<1>2. Shape
  BY DEF Fits
<1>3. Grows(home, home)
  BY <1>1, <1>2 DEF Grows, Shape
<1>4. RequestFits(home, r)'
  BY <1>1, <1>2, Answers DEF Respond
<1>5. \A q \in Requests : RequestFits(home, q)'
  BY <1>1, <1>3, <1>4, OthersKept
<1>6. /\ token' \in [Keys -> TokenRow \cup {NoRow}]
      /\ \A k \in Keys : token'[k] # NoRow =>
             token[k] # NoRow /\ token'[k].user = token[k].user
  BY <1>1, <1>2 DEF Shape, AccountsTypeOK
<1>7. /\ DOMAIN stage' = Requests /\ DOMAIN local' = Requests
      /\ \A q \in Requests : q \in writer <=> stage'[q] = "commit"
  BY <1>1, <1>2 DEF Shape, Proceed, AccountsTypeOK
<1> QED
  BY <1>1, <1>5, <1>6, <1>7, FewerTokens

\* A token ages; the clean-up deletes the old ones.
LEMMA TimeFits ==
    ASSUME NEW home \in Homes, Fits(home), CleanUp \/ \E k \in Keys : Age(k)
    PROVE  Fits(home)'
<1>1. Shape
  BY DEF Fits
<1>2. /\ UNCHANGED <<user, nextUser, nextKey, cached, writer, stage, local>>
      /\ UNCHANGED <<addressed, presented, trusted, post>>
  BY DEF CleanUp, Age, service, history
<1>3. Grows(home, home)
  BY <1>1, <1>2 DEF Grows, Shape
<1>4. \A q \in Requests : RequestFits(home, q)'
  BY <1>2, <1>3, AllKept
<1>5. /\ token' \in [Keys -> TokenRow \cup {NoRow}]
      /\ \A k \in Keys : token'[k] # NoRow =>
             token[k] # NoRow /\ token'[k].user = token[k].user
  <2>1. CASE CleanUp
    <3>1. PICK expired : token' = [k \in Keys |-> IF k \in expired THEN NoRow
                                                 ELSE token[k]]
      BY <2>1 DEF CleanUp
    <3> QED
      BY <1>1, <3>1 DEF Shape, AccountsTypeOK
  <2>2. ASSUME NEW k \in Keys, Age(k)
        PROVE  <1>5!1 /\ <1>5!2
    <3>1. token[k] \in TokenRow /\ token' = [token EXCEPT ![k].old = TRUE]
      BY <1>1, <2>2 DEF Age, Shape, AccountsTypeOK
    <3> DEFINE aged == [token[k] EXCEPT !.old = TRUE]
    <3>2. aged \in TokenRow /\ aged.user = token[k].user
      BY <3>1 DEF TokenRow
    <3>3. token' = [token EXCEPT ![k] = aged]
      BY <3>1
    <3>4. token[k] # NoRow
      BY <2>2 DEF Age
    <3> HIDE DEF aged
    <3> QED
      BY <1>1, <3>2, <3>3, <3>4 DEF Shape, AccountsTypeOK
  <2> QED
    BY <2>1, <2>2
<1>6. /\ DOMAIN stage' = Requests /\ DOMAIN local' = Requests
      /\ \A q \in Requests : q \in writer <=> stage'[q] = "commit"
  BY <1>1, <1>2 DEF Shape, AccountsTypeOK
<1> QED
  BY <1>2, <1>4, <1>5, <1>6, FewerTokens

\* A cached row expires.
LEMMA UserExpiresFits ==
    ASSUME NEW home \in Homes, Fits(home), NEW i \in UserIds, UserExpires(i)
    PROVE  Fits(home)'
<1>1. Shape
  BY DEF Fits
<1>2. /\ cached' = [cached EXCEPT ![i] = NoRow]
      /\ UNCHANGED <<user, nextUser, token, nextKey, writer, stage, local>>
      /\ UNCHANGED <<addressed, presented, trusted>> /\ UNCHANGED post
  BY DEF UserExpires, accounts, history
<1>3. Grows(home, home)
  BY <1>1, <1>2 DEF Grows, Shape
<1>4. \A q \in Requests : RequestFits(home, q)'
  BY <1>2, <1>3, AllKept
<1>5. RowsFit(home)' /\ EmailsDiffer'
  <2>1. \A j \in UserIds : cached'[j] \in {NoRow, cached[j], user[j]}
    BY <1>1, <1>2 DEF Shape, AccountsTypeOK
  <2> QED
    BY <1>2, <1>3, <2>1, RowsKept
<1>6. TokensFit(home)'
  <2>1. \A k \in Keys : token[k] # NoRow => token[k].user \in Accounts
    BY DEF Fits, TokensFit
  <2> QED
    BY <1>2, <1>3, <2>1, TokensKept DEF Accounts
<1>7. Shape'
  <2>1. AccountsTypeOK'
    BY <1>1, <1>2 DEF Shape, AccountsTypeOK, MailTypeOK, post
  <2> QED
    BY <1>1, <1>2, <2>1 DEF Shape
<1> QED
  BY <1>4, <1>5, <1>6, <1>7 DEF Fits

\* The administrator saves the form of an account.
LEMMA AdministerFits ==
    ASSUME NEW home \in Homes, Fits(home), NEW i \in UserIds,
           NEW active \in BOOLEAN, NEW verified \in BOOLEAN,
           Administer(i, active, verified)
    PROVE  Fits(home)'
<1>1. Shape /\ RowsFit(home) /\ EmailsDiffer
  BY DEF Fits
<1>2. /\ i \in Accounts /\ writer = {}
      /\ user' = [user EXCEPT ![i].active = active, ![i].verified = verified]
      /\ InvalidateUser(i)
      /\ trusted' = IF active THEN trusted \cup {i} ELSE trusted
      /\ UNCHANGED <<nextUser, token, nextKey, writer, stage, local>>
      /\ UNCHANGED <<addressed, presented>> /\ UNCHANGED post
  BY DEF Administer
<1>3. user[i] \in UserRow /\ user[i].email = home[i] /\ i < nextUser
  BY <1>1, <1>2 DEF RowsFit, CopyOf
<1>4. PICK row \in UserRow : /\ row.email = home[i] /\ row.active = active
                            /\ user' = [user EXCEPT ![i] = row]
  <2> DEFINE new == [user[i] EXCEPT !.active = active, !.verified = verified]
  <2>1. new \in UserRow /\ new.email = home[i] /\ new.active = active
    BY <1>3 DEF UserRow
  <2>2. user' = [user EXCEPT ![i] = new]
    BY <1>1, <1>2 DEF Shape, AccountsTypeOK
  <2> HIDE DEF new
  <2> QED
    BY <2>1, <2>2
<1>5. row # NoRow
  BY <1>4, AccountsAssumption
<1>6. \A j \in UserIds : user'[j] = IF j = i THEN row ELSE user[j]
  BY <1>1, <1>4 DEF Shape, AccountsTypeOK
<1>7. Accounts' = Accounts
  BY <1>2, <1>5, <1>6 DEF Accounts
<1>8. Grows(home, home)
  BY <1>1, <1>2 DEF Grows, Shape
<1>9. \A q \in Requests : RequestFits(home, q)'
  BY <1>2, <1>8, AllKept
<1>10. CopyOf(home, i, row)'
  <2>1. row.active => i \in trusted'
    BY <1>2, <1>4
  <2> QED
    BY <1>2, <1>3, <1>4, <2>1 DEF CopyOf
<1>11. RowsFit(home)'
  <2>1. ASSUME NEW j \in UserIds, NEW copy, CopyOf(home, j, copy)
        PROVE  CopyOf(home, j, copy)'
    BY <1>1, <1>8, <2>1, CopyKept
  <2>2. \A j \in Accounts' : CopyOf(home, j, user[j])'
    BY <1>1, <1>6, <1>7, <1>10, <2>1 DEF RowsFit, CopyOf, Accounts
  <2>3. \A j \in UserIds : cached'[j] # NoRow => CopyOf(home, j, cached[j])'
    <3>1. \A j \in UserIds : cached'[j] \in {NoRow, cached[j]}
      BY <1>1, <1>2 DEF InvalidateUser, Shape, AccountsTypeOK
    <3> QED
      BY <1>1, <2>1, <3>1 DEF RowsFit, CopyOf
  <2> QED
    BY <2>2, <2>3 DEF RowsFit
<1>12. EmailsDiffer'
  BY <1>1, <1>3, <1>4, <1>6, <1>7 DEF EmailsDiffer, Accounts
<1>13. TokensFit(home)'
  <2>1. \A k \in Keys : token[k] # NoRow => token[k].user \in Accounts
    BY DEF Fits, TokensFit
  <2> QED
    BY <1>2, <1>7, <1>8, <2>1, TokensKept
<1>14. Shape'
  <2>1. cached' \in [UserIds -> UserRow \cup {NoRow}]
    BY <1>1, <1>2 DEF InvalidateUser, Shape, AccountsTypeOK
  <2>2. user' \in [UserIds -> UserRow \cup {NoRow}]
    BY <1>1, <1>4 DEF Shape, AccountsTypeOK
  <2>3. AccountsTypeOK'
    BY <1>1, <1>2, <2>1, <2>2 DEF Shape, AccountsTypeOK, MailTypeOK, post
  <2> QED
    BY <1>1, <1>2, <2>3 DEF Shape
<1> QED
  BY <1>9, <1>11, <1>12, <1>13, <1>14 DEF Fits

\* The administrator deletes an account and its tokens.
LEMMA DeleteUserFits ==
    ASSUME NEW home \in Homes, Fits(home), NEW i \in UserIds, DeleteUser(i)
    PROVE  Fits(home)'
<1>1. Shape /\ RowsFit(home) /\ EmailsDiffer
  BY DEF Fits
<1>2. /\ i \in Accounts /\ writer = {}
      /\ user' = [user EXCEPT ![i] = NoRow]
      /\ token' = WithoutTokensOf(i)
      /\ InvalidateUser(i)
      /\ UNCHANGED <<nextUser, nextKey, writer, stage, local>>
      /\ UNCHANGED <<addressed, presented, trusted>> /\ UNCHANGED post
  BY DEF DeleteUser, history
<1>3. \A j \in UserIds : user'[j] = IF j = i THEN NoRow ELSE user[j]
  BY <1>1, <1>2 DEF Shape, AccountsTypeOK
<1>4. Accounts' = Accounts \ {i}
  BY <1>3 DEF Accounts
<1>5. Grows(home, home)
  BY <1>1, <1>2 DEF Grows, Shape
<1>6. \A q \in Requests : RequestFits(home, q)'
  BY <1>2, <1>5, AllKept
<1>7. RowsFit(home)'
  <2>1. ASSUME NEW j \in UserIds, NEW copy, CopyOf(home, j, copy)
        PROVE  CopyOf(home, j, copy)'
    BY <1>1, <1>5, <2>1, CopyKept
  <2>2. \A j \in Accounts' : CopyOf(home, j, user[j])'
    BY <1>1, <1>3, <1>4, <2>1 DEF RowsFit, CopyOf, Accounts
  <2>3. \A j \in UserIds : cached'[j] # NoRow => CopyOf(home, j, cached[j])'
    <3>1. \A j \in UserIds : cached'[j] \in {NoRow, cached[j]}
      BY <1>1, <1>2 DEF InvalidateUser, Shape, AccountsTypeOK
    <3> QED
      BY <1>1, <2>1, <3>1 DEF RowsFit, CopyOf
  <2> QED
    BY <2>2, <2>3 DEF RowsFit
<1>8. EmailsDiffer'
  BY <1>1, <1>3, <1>4 DEF EmailsDiffer, Accounts
<1>9. \A k \in Keys : token'[k] # NoRow => token'[k] = token[k] /\ token[k].user # i
  BY <1>2 DEF WithoutTokensOf
<1>10. TokensFit(home)'
  <2>1. \A k \in Keys : token[k] # NoRow => token[k].user \in Accounts
    BY DEF Fits, TokensFit
  <2> QED
    BY <1>4, <1>5, <1>9, <2>1, TokensKept
<1>11. Shape'
  <2>1. cached' \in [UserIds -> UserRow \cup {NoRow}]
    BY <1>1, <1>2 DEF InvalidateUser, Shape, AccountsTypeOK
  <2>2. user' \in [UserIds -> UserRow \cup {NoRow}]
    BY <1>1, <1>2 DEF Shape, AccountsTypeOK
  <2>3. token' \in [Keys -> TokenRow \cup {NoRow}]
    BY <1>1, <1>2 DEF WithoutTokensOf, Shape, AccountsTypeOK
  <2>4. AccountsTypeOK'
    BY <1>1, <1>2, <2>1, <2>2, <2>3 DEF Shape, AccountsTypeOK, MailTypeOK, post
  <2> QED
    BY <1>1, <1>2, <2>4 DEF Shape
<1> QED
  BY <1>6, <1>7, <1>8, <1>10, <1>11 DEF Fits

\* The tasks of the mail keep their types.
LEMMA MailStays == ASSUME MailTypeOK, MailNext PROVE MailTypeOK'
<1>1. ASSUME NEW l \in Letters, Render(l)
      PROVE  MailTypeOK'
  BY <1>1 DEF MailTypeOK, Render
<1>2. ASSUME NEW l \in Letters, SendEmail(l)
      PROVE  MailTypeOK'
  BY <1>2, MailAssumption DEF MailTypeOK, SendEmail, Resend
<1> QED
  BY <1>1, <1>2 DEF MailNext

\* A step that leaves the accounts and the service alone.
LEMMA ElsewhereFits ==
    ASSUME NEW home \in Homes, Fits(home), MailTypeOK',
           UNCHANGED <<accounts, service, history>>
    PROVE  Fits(home)'
<1>1. /\ UNCHANGED <<user, nextUser, token, nextKey, cached, writer>>
      /\ UNCHANGED <<stage, local, addressed, presented, trusted>>
  BY DEF accounts, service, history
<1>2. Shape
  BY DEF Fits
<1>3. Grows(home, home)
  BY <1>1, <1>2 DEF Grows, Shape
<1>4. \A q \in Requests : RequestFits(home, q)'
  BY <1>1, <1>3, AllKept
<1>5. RowsFit(home)' /\ EmailsDiffer'
  BY <1>1, <1>3, RowsKept
<1>6. TokensFit(home)'
  <2>1. \A k \in Keys : token[k] # NoRow => token[k].user \in Accounts
    BY DEF Fits, TokensFit
  <2> QED
    BY <1>1, <1>3, <2>1, TokensKept DEF Accounts
<1>7. Shape'
  <2>1. AccountsTypeOK'
    BY <1>1, <1>2 DEF Shape, AccountsTypeOK
  <2> QED
    BY <1>1, <1>2, <2>1 DEF Shape
<1> QED
  BY <1>4, <1>5, <1>6, <1>7 DEF Fits

----------------------------------------------------------------------------
(* The specification. *)

\* Nobody has an account at the start.
LEMMA InitFits == AccountInit => AccountsInv
<1> SUFFICES ASSUME AccountInit PROVE AccountsInv
  OBVIOUS
<1> DEFINE home == [i \in UserIds |-> NoRow]
<1>1. home \in Homes
  BY DEF Homes
<1>2. MailTypeOK
  BY MailAssumption DEF AccountInit, MailInit, MailTypeOK
<1>3. Shape
  BY <1>2 DEF AccountInit, Shape, AccountsTypeOK
<1>4. Accounts = {} /\ \A i \in UserIds : cached[i] = NoRow
  BY DEF AccountInit, Accounts
<1>5. RowsFit(home) /\ EmailsDiffer
  BY <1>4 DEF RowsFit, EmailsDiffer
<1>6. TokensFit(home)
  BY DEF AccountInit, TokensFit
<1>7. \A r \in Requests : RequestFits(home, r)
  BY DEF AccountInit, RequestFits
<1> HIDE DEF home
<1> QED
  BY <1>1, <1>3, <1>5, <1>6, <1>7 DEF AccountsInv, Fits

\* Every step keeps it.
LEMMA StepFits ==
    ASSUME AccountsInv, [AccountNext]_accountVars
    PROVE  AccountsInv'
<1>1. PICK home \in Homes : Fits(home)
  BY DEF AccountsInv
<1> SUFFICES \E h \in Homes : Fits(h)'
  BY DEF AccountsInv
<1>2. ASSUME NEW r \in Requests, Open(r)
      PROVE  \E h \in Homes : Fits(h)'
  BY <1>1, <1>2, OpenFits
<1>3. ASSUME NEW r \in Requests, Handle(r)
      PROVE  \E h \in Homes : Fits(h)'
  <2>1. CASE RegisterWrite(r)
    BY <1>1, <2>1, RegisterWriteFits
  <2>2. CASE RegisterCommit(r)
    BY <1>1, <2>2, RegisterCommitFits
  <2>3. CASE VerifyUser(r) \/ \E n \in Names : ProfileValidate(r, n)
    BY <1>1, <2>3, ReadsFit
  <2>4. CASE Save(r)
    BY <1>1, <2>4, SaveFits
  <2>5. CASE VerifyDelete(r)
    BY <1>1, <2>5, VerifyDeleteFits
  <2>6. CASE SocialCreate(r)
    BY <1>1, <2>6, SocialCreateFits
  <2>7. CASE Error(r)
    BY <1>1, <2>7, ErrorFits
  <2> QED
    BY <1>3, <2>1, <2>2, <2>3, <2>4, <2>5, <2>6, <2>7 DEF Handle
<1>4. CASE CleanUp \/ \E k \in Keys : Age(k)
  BY <1>1, <1>4, TimeFits
<1>5. ASSUME NEW i \in UserIds, UserExpires(i)
      PROVE  \E h \in Homes : Fits(h)'
  BY <1>1, <1>5, UserExpiresFits
<1>6. ASSUME NEW i \in UserIds, DeleteUser(i)
      PROVE  \E h \in Homes : Fits(h)'
  BY <1>1, <1>6, DeleteUserFits
<1>7. ASSUME NEW i \in UserIds, NEW active \in BOOLEAN,
             NEW verified \in BOOLEAN, Administer(i, active, verified)
      PROVE  \E h \in Homes : Fits(h)'
  BY <1>1, <1>7, AdministerFits
<1>8. CASE MailNext /\ UNCHANGED <<accounts, service, history>>
  <2>1. MailTypeOK'
    BY <1>1, <1>8, MailStays DEF Fits, Shape, AccountsTypeOK
  <2> QED
    BY <1>1, <1>8, <2>1, ElsewhereFits
<1>9. CASE UNCHANGED accountVars
  <2>1. UNCHANGED <<accounts, service, history>> /\ UNCHANGED post
    BY <1>9 DEF accountVars
  <2>2. MailTypeOK'
    BY <1>1, <2>1 DEF Fits, Shape, AccountsTypeOK, MailTypeOK, post
  <2> QED
    BY <1>1, <2>1, <2>2, ElsewhereFits
<1> QED
  BY <1>2, <1>3, <1>4, <1>5, <1>6, <1>7, <1>8, <1>9 DEF AccountNext

\* Addresses have homes throughout.
LEMMA AccountsStay == AccountSpec => []AccountsInv
<1>1. AccountInit => AccountsInv
  BY InitFits
<1>2. AccountsInv /\ [AccountNext]_accountVars => AccountsInv'
  BY StepFits
<1> QED
  BY <1>1, <1>2, PTL DEF AccountSpec

\* The tables, the cache and the requests keep their types, and the one
\* transaction that writes is that of a registration before its commit.
THEOREM AccountsHaveTypes == AccountSpec => []AccountsTypeOK
<1>1. AccountsInv => AccountsTypeOK
  BY DEF AccountsInv, Fits, Shape
<1> QED
  BY <1>1, AccountsStay, PTL

\* No two accounts share an address, and every token belongs to an account,
\* however saves of stale rows and deletions interleave.
THEOREM AccountsAgree == AccountSpec => []AccountsFit
<1>1. AccountsInv => AccountsFit
  BY DEF AccountsInv, Fits, TokensFit, EmailsDiffer, AccountsFit
<1> QED
  BY <1>1, AccountsStay, PTL

\* Whoever can sign in has presented the key of a letter to the address of
\* the account, or was let in by the administrator.
THEOREM ActivationIsEarned == AccountSpec => []ActiveWasConfirmed
<1>1. AccountsInv => ActiveWasConfirmed
  BY DEF AccountsInv, Fits, RowsFit, CopyOf, ActiveWasConfirmed
<1> QED
  BY <1>1, AccountsStay, PTL

=============================================================================
