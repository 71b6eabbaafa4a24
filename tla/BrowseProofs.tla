---------------------------- MODULE BrowseProofs ----------------------------
(***************************************************************************)
(* Proofs about Browse, for any number of products, offers, shops and      *)
(* filters and any lifetimes, lost invalidations included.  The argument:  *)
(* an answer is right about every offer whose last change Redis was not    *)
(* told of is older than the answer itself; and an answer is never older   *)
(* than its lifetime.                                                      *)
(***************************************************************************)
EXTENDS Browse, TLAPS

\* What an answer to q says of offer i is what the tables say.
RightAbout(q, i, found) ==
    IF q.of = "list" THEN Meets(i, q.filter) => offer[i].product \in found
    ELSE i \in found <=> CartAccepts(i) /\ offer[i].product = q.product

\* The age of an answer stays below its lifetime.
AgesBounded ==
    \A q \in Queries : cache[q] # NoRow =>
        /\ cache[q].age \in Nat
        /\ cache[q].age < Lasts[q.of]

\* An offer that was changed before an answer was given is in it as it is.
OlderChangesSeen ==
    \A q \in Queries, i \in Infos :
        cache[q] # NoRow /\ cache[q].age < since[i] =>
            RightAbout(q, i, cache[q].found)

BrowseInv ==
    /\ offer \in [Infos -> Offer \cup {NoRow}]
    /\ since \in [Infos -> Nat]
    /\ DOMAIN cache = Queries
    /\ AgesBounded
    /\ OlderChangesSeen

\* The two kinds of queries and their lifetimes.
LEMMA QueryKinds ==
    ASSUME NEW q \in Queries
    PROVE  /\ q.of \in {"list", "detail"}
           /\ Lasts[q.of] \in Nat \ {0} /\ Lasts[q.of] <= Long
           /\ Long \in Nat
           /\ q.of = "list" => q.filter \in Filters /\ q.filter \in Filter
           /\ q.of = "detail" => q.product \in Products
<1>1. CASE \E f \in Filters : q = List(f)
  <2>1. q.of = "list" /\ q.filter \in Filters
    BY <1>1 DEF List
  <2> QED
    BY <2>1, BrowseAssumption DEF Long
<1>2. CASE \E p \in Products : q = Page(p)
  <2>1. q.of = "detail" /\ q.product \in Products
    BY <1>2 DEF Page
  <2> QED
    BY <2>1, BrowseAssumption DEF Long
<1> QED
  BY <1>1, <1>2 DEF Queries

\* The tables are right about themselves: a list finds every offer that is as
\* it was asked for, and a page shows exactly what a cart accepts.
LEMMA TablesAreRight ==
    ASSUME offer \in [Infos -> Offer \cup {NoRow}], NEW q \in Queries,
           NEW i \in Infos
    PROVE  RightAbout(q, i, FromTables(q))
<1>1. CASE q.of = "list"
  <2> DEFINE f == q.filter
             p == offer[i].product
  <2>1. f \in Filter /\ FromTables(q) = Listed(f)
    BY <1>1, QueryKinds DEF FromTables
  <2> SUFFICES ASSUME Meets(i, f)
               PROVE  p \in Listed(f)
    BY <1>1, <2>1 DEF RightAbout
  <2>2. offer[i] \in Offer
    BY DEF Meets
  <2>3. i \in OffersOf(p) /\ p \in Products
    BY <2>2 DEF OffersOf, Offer, Meets
  <2>4. FromShop(i, f) /\ NotDearer(i, f)
    BY DEF FromShop, NotDearer, Meets
  <2>5. NotCheaper(i, f)
    BY <2>1, <2>2, BrowseAssumption DEF NotCheaper, Filter, Offer, Meets
  <2> QED
    BY <2>3, <2>4, <2>5 DEF Listed
<1>2. CASE q.of = "detail"
  <2>1. FromTables(q) = Available(q.product)
    BY <1>2 DEF FromTables
  <2>2. offer[i] # NoRow => offer[i].quantity \in Nat
    BY BrowseAssumption DEF Offer
  <2>3. i \in Available(q.product) <=>
            CartAccepts(i) /\ offer[i].product = q.product
    BY <2>2 DEF Available, OffersOf, CartAccepts
  <2> QED
    BY <1>2, <2>1, <2>3 DEF RightAbout
<1> QED
  BY <1>1, <1>2, QueryKinds

\* What is right about an offer stays right until the offer or its shop
\* changes.
LEMMA UntouchedStaysRight ==
    ASSUME NEW q, NEW i, NEW found, offer'[i] = offer[i],
           offer[i] # NoRow => open'[offer[i].shop] = open[offer[i].shop],
           RightAbout(q, i, found)
    PROVE  RightAbout(q, i, found)'
<1>1. Meets(i, q.filter)' = Meets(i, q.filter)
  BY DEF Meets
<1>2. CartAccepts(i)' = CartAccepts(i)
  BY DEF CartAccepts
<1> QED
  BY <1>1, <1>2 DEF RightAbout

\* Redis knows nothing at the start.
LEMMA InitKnows == BrowseInit => BrowseInv
<1> SUFFICES ASSUME BrowseInit PROVE BrowseInv
  OBVIOUS
<1>1. offer \in [Infos -> Offer \cup {NoRow}]
  BY DEF BrowseInit
<1>2. since \in [Infos -> Nat]
  BY BrowseAssumption DEF BrowseInit, Long
<1>3. DOMAIN cache = Queries /\ \A q \in Queries : cache[q] = NoRow
  BY DEF BrowseInit
<1> QED
  BY <1>1, <1>2, <1>3 DEF BrowseInv, AgesBounded, OlderChangesSeen

\* A change of some offers, or of their shop, of which Redis knows nothing:
\* the answers it holds are all older.
LEMMA ChangeKnows ==
    ASSUME BrowseInv, NEW infos, Change(infos),
           offer' \in [Infos -> Offer \cup {NoRow}],
           \A i \in Infos \ infos :
               /\ offer'[i] = offer[i]
               /\ offer[i] # NoRow => open'[offer[i].shop] = open[offer[i].shop]
    PROVE  BrowseInv'
<1>1. /\ cache' = cache
      /\ since' = [i \in Infos |-> IF i \in infos THEN 0 ELSE since[i]]
  BY DEF Change
<1>2. since' \in [Infos -> Nat]
  BY <1>1 DEF BrowseInv
<1>3. AgesBounded'
  BY <1>1 DEF BrowseInv, AgesBounded
<1>4. OlderChangesSeen'
  <2> SUFFICES ASSUME NEW q \in Queries, NEW i \in Infos, cache[q] # NoRow,
                      cache[q].age < since'[i]
               PROVE  RightAbout(q, i, cache[q].found)'
    BY <1>1 DEF OlderChangesSeen
  <2>1. cache[q].age \in Nat
    BY DEF BrowseInv, AgesBounded
  <2>2. i \notin infos /\ since'[i] = since[i]
    BY <1>1, <2>1
  <2>3. RightAbout(q, i, cache[q].found)
    BY <2>2 DEF BrowseInv, OlderChangesSeen
  <2> DEFINE found == cache[q].found
  <2>4. found' = found
    BY <1>1
  <2>5. /\ offer'[i] = offer[i]
        /\ offer[i] # NoRow => open'[offer[i].shop] = open[offer[i].shop]
    BY <2>2
  <2> HIDE DEF found
  <2> QED
    BY <2>3, <2>4, <2>5, UntouchedStaysRight DEF found
<1> QED
  BY <1>1, <1>2, <1>3, <1>4 DEF BrowseInv

\* An answer of the tables is kept.
LEMMA ReplyKnows ==
    ASSUME BrowseInv, NEW q \in Queries, Reply(q, FromTables(q))
    PROVE  BrowseInv'
<1> DEFINE kept == [found |-> FromTables(q), age |-> 0]
<1>1. /\ offer' = offer /\ open' = open /\ since' = since
      /\ cache' = [cache EXCEPT ![q] = kept]
  BY DEF Reply, shelf
<1>2. DOMAIN cache' = Queries
      /\ \A x \in Queries : cache'[x] = IF x = q THEN kept ELSE cache[x]
  BY <1>1 DEF BrowseInv
<1>3. kept.age = 0 /\ kept.found = FromTables(q)
  OBVIOUS
<1> HIDE DEF kept
<1>4. AgesBounded'
  BY <1>2, <1>3, QueryKinds DEF BrowseInv, AgesBounded
<1>5. OlderChangesSeen'
  <2> SUFFICES ASSUME NEW x \in Queries, NEW i \in Infos, cache'[x] # NoRow,
                      cache'[x].age < since[i]
               PROVE  RightAbout(x, i, cache[x].found)'
    BY <1>1 DEF OlderChangesSeen
  <2> DEFINE found == cache'[x].found
  <2>1. RightAbout(x, i, found)
    <3>1. CASE x = q
      <4>1. RightAbout(q, i, FromTables(q))
        BY TablesAreRight DEF BrowseInv
      <4> QED
        BY <1>2, <1>3, <3>1, <4>1
    <3>2. CASE x # q
      BY <1>2, <3>2 DEF BrowseInv, OlderChangesSeen
    <3> QED
      BY <3>1, <3>2
  <2> QED
    BY <1>1, <2>1 DEF RightAbout, Meets, CartAccepts
<1> QED
  BY <1>1, <1>2, <1>4, <1>5 DEF BrowseInv

\* Redis is told, or is not.
LEMMA InvalidationKnows ==
    ASSUME BrowseInv, Invalidation \/ LoseInvalidation
    PROVE  BrowseInv'
<1>1. CASE Invalidation
  <2>1. /\ offer' = offer /\ cache' = [q \in Queries |-> NoRow]
        /\ since' = [i \in Infos |-> IF i \in owed THEN Long ELSE since[i]]
    BY <1>1 DEF Invalidation, shelf
  <2>2. since' \in [Infos -> Nat]
    BY <2>1, BrowseAssumption DEF BrowseInv, Long
  <2> QED
    BY <2>1, <2>2 DEF BrowseInv, AgesBounded, OlderChangesSeen
<1>2. CASE LoseInvalidation
  <2>1. UNCHANGED <<offer, open, cache, since>>
    BY <1>2 DEF LoseInvalidation, shelf
  <2> QED
    BY <2>1 DEF BrowseInv, AgesBounded, OlderChangesSeen, RightAbout, Meets,
                CartAccepts
<1> QED
  BY <1>1, <1>2

\* Time passes: an answer and the changes it knows of age together.
LEMMA TickKnows ==
    ASSUME BrowseInv, Tick
    PROVE  BrowseInv'
<1>1. /\ offer' = offer /\ open' = open
      /\ cache' = [q \in Queries |-> Older(q)]
      /\ since' = [i \in Infos |-> IF since[i] < Long THEN since[i] + 1 ELSE Long]
  BY DEF Tick, shelf
<1>2. since' \in [Infos -> Nat]
  BY <1>1, BrowseAssumption DEF BrowseInv, Long
<1>3. ASSUME NEW q \in Queries, cache'[q] # NoRow
      PROVE  /\ cache[q] # NoRow /\ cache[q].age \in Nat
             /\ cache'[q].age = cache[q].age + 1
             /\ cache'[q].found = cache[q].found
             /\ cache'[q].age < Lasts[q.of]
  <2>1. cache'[q] = Older(q)
    BY <1>1
  <2>2. /\ cache[q] # NoRow /\ ~ (cache[q].age + 1 >= Lasts[q.of])
        /\ cache'[q] = [cache[q] EXCEPT !.age = cache[q].age + 1]
    BY <1>3, <2>1 DEF Older
  <2>3. cache[q].age \in Nat
    BY <2>2 DEF BrowseInv, AgesBounded
  <2> QED
    BY <2>2, <2>3, QueryKinds
<1>4. AgesBounded'
  BY <1>1, <1>3 DEF AgesBounded
<1>5. OlderChangesSeen'
  <2> SUFFICES ASSUME NEW q \in Queries, NEW i \in Infos, cache'[q] # NoRow,
                      cache'[q].age < since'[i]
               PROVE  RightAbout(q, i, cache[q].found)'
    BY DEF OlderChangesSeen
  <2>1. /\ cache[q] # NoRow /\ cache[q].age \in Nat
        /\ cache'[q].age = cache[q].age + 1
        /\ cache'[q].found = cache[q].found
        /\ cache'[q].age < Lasts[q.of]
    BY <1>3
  <2>2. cache[q].age < since[i]
    <3>1. since[i] \in Nat /\ Lasts[q.of] \in Nat /\ Lasts[q.of] <= Long
          /\ Long \in Nat
      BY QueryKinds DEF BrowseInv
    <3>2. since'[i] = IF since[i] < Long THEN since[i] + 1 ELSE Long
      BY <1>1
    <3> QED
      BY <2>1, <3>1, <3>2
  <2>3. RightAbout(q, i, cache[q].found)
    BY <2>1, <2>2 DEF BrowseInv, OlderChangesSeen
  <2> QED
    BY <1>1, <2>1, <2>3 DEF RightAbout, Meets, CartAccepts
<1> QED
  BY <1>1, <1>2, <1>4, <1>5 DEF BrowseInv

\* Every step keeps what Redis knows right.
LEMMA NextKnows ==
    ASSUME BrowseInv, [BrowseNext]_browseVars
    PROVE  BrowseInv'
<1>1. ASSUME NEW row \in Offer, Create(row)
      PROVE  BrowseInv'
  <2>1. /\ nextInfo \in Infos /\ Change({nextInfo}) /\ open' = open
        /\ offer' = [offer EXCEPT ![nextInfo] = row]
    BY <1>1 DEF Create
  <2>2. /\ offer' \in [Infos -> Offer \cup {NoRow}]
        /\ \A i \in Infos \ {nextInfo} : offer'[i] = offer[i]
    BY <2>1 DEF BrowseInv
  <2> QED
    BY <2>1, <2>2, ChangeKnows
<1>2. ASSUME NEW i \in Infos, Delete(i)
      PROVE  BrowseInv'
  <2>1. /\ Change({i}) /\ open' = open
        /\ offer' = [offer EXCEPT ![i] = NoRow]
    BY <1>2 DEF Delete
  <2>2. /\ offer' \in [Infos -> Offer \cup {NoRow}]
        /\ \A j \in Infos \ {i} : offer'[j] = offer[j]
    BY <2>1 DEF BrowseInv
  <2> QED
    BY <2>1, <2>2, ChangeKnows
<1>3. ASSUME NEW i \in Infos, NEW n \in 0 .. MaxStock, Restock(i, n)
      PROVE  BrowseInv'
  <2> DEFINE row == [offer[i] EXCEPT !.quantity = n]
  <2>1. /\ Change({i}) /\ open' = open
        /\ offer' = [offer EXCEPT ![i] = row]
    BY <1>3 DEF Restock
  <2>2. row \in Offer
    BY <1>3 DEF Restock, BrowseInv, Offer
  <2> HIDE DEF row
  <2>3. /\ offer' \in [Infos -> Offer \cup {NoRow}]
        /\ \A j \in Infos \ {i} : offer'[j] = offer[j]
    BY <2>1, <2>2 DEF BrowseInv
  <2> QED
    BY <2>1, <2>3, ChangeKnows
<1>4. ASSUME NEW s \in Shops, Switch(s)
      PROVE  BrowseInv'
  <2>1. /\ Change(OffersIn(s)) /\ offer' = offer
        /\ open' = [open EXCEPT ![s] = ~ open[s]]
    BY <1>4 DEF Switch
  <2>2. \A i \in Infos \ OffersIn(s) : offer[i] # NoRow =>
            open'[offer[i].shop] = open[offer[i].shop]
    BY <2>1 DEF OffersIn
  <2>3. offer' \in [Infos -> Offer \cup {NoRow}]
    BY <2>1 DEF BrowseInv
  <2> QED
    BY <2>1, <2>2, <2>3, ChangeKnows
<1>5. ASSUME NEW f \in Filters, ProductList(f)
      PROVE  BrowseInv'
  <2>1. List(f) \in Queries /\ FromTables(List(f)) = Listed(f)
    BY DEF Queries, FromTables, List
  <2> QED
    BY <1>5, <2>1, ReplyKnows DEF ProductList
<1>6. ASSUME NEW p \in Products, ProductDetail(p)
      PROVE  BrowseInv'
  <2>1. Page(p) \in Queries /\ FromTables(Page(p)) = Available(p)
    BY DEF Queries, FromTables, Page
  <2> QED
    BY <1>6, <2>1, ReplyKnows DEF ProductDetail
<1>7. ASSUME UNCHANGED browseVars
      PROVE  BrowseInv'
  BY <1>7 DEF browseVars, shelf, BrowseInv, AgesBounded, OlderChangesSeen,
              RightAbout, Meets, CartAccepts
<1> QED
  BY <1>1, <1>2, <1>3, <1>4, <1>5, <1>6, <1>7, InvalidationKnows, TickKnows
  DEF BrowseNext

\* What is shown is right about every offer Redis has heard of.
LEMMA ShownIsRight ==
    ASSUME BrowseInv, NEW q \in Queries, NEW i \in Infos, Heard(i, q)
    PROVE  RightAbout(q, i, Shown(q))
<1>1. CASE cache[q] = NoRow
  <2>1. RightAbout(q, i, FromTables(q))
    BY TablesAreRight DEF BrowseInv
  <2> QED
    BY <1>1, <2>1 DEF Shown
<1>2. CASE cache[q] # NoRow
  <2>1. cache[q].age < since[i]
    <3>1. cache[q].age \in Nat /\ cache[q].age < Lasts[q.of]
      BY <1>2 DEF BrowseInv, AgesBounded
    <3>2. since[i] \in Nat /\ since[i] >= Lasts[q.of] /\ Lasts[q.of] \in Nat
      BY QueryKinds DEF BrowseInv, Heard
    <3> QED
      BY <3>1, <3>2
  <2>2. RightAbout(q, i, cache[q].found)
    BY <1>2, <2>1 DEF BrowseInv, OlderChangesSeen
  <2> QED
    BY <1>2, <2>2 DEF Shown
<1> QED
  BY <1>1, <1>2

\* The lists of the catalogue miss nothing that is offered as it was asked
\* for and has not changed for the lifetime of an answer, whatever imports,
\* partners and buyers do and however often Redis is not told.
THEOREM ListsMissNothing == BrowseSpec => []ListComplete
<1>1. BrowseInv => ListComplete
  <2> SUFFICES ASSUME BrowseInv, NEW f \in Filters, NEW i \in Infos,
                      Meets(i, f), Heard(i, List(f))
               PROVE  offer[i].product \in Shown(List(f))
    BY DEF ListComplete
  <2>1. List(f) \in Queries /\ List(f).of = "list" /\ List(f).filter = f
    BY DEF Queries, List
  <2>2. RightAbout(List(f), i, Shown(List(f)))
    BY <2>1, ShownIsRight
  <2> QED
    BY <2>1, <2>2 DEF RightAbout
<1> QED
  BY <1>1, InitKnows, NextKnows, PTL DEF BrowseSpec

\* The page of a product shows exactly what a cart accepts, of the offers
\* that have not changed for the lifetime of an answer.
THEOREM PagesShowWhatIsSold == BrowseSpec => []ShownIsSold
<1>1. BrowseInv => ShownIsSold
  <2> SUFFICES ASSUME BrowseInv, NEW p \in Products, NEW i \in Infos,
                      Heard(i, Page(p))
               PROVE  i \in Shown(Page(p)) <=>
                          CartAccepts(i) /\ offer[i].product = p
    BY DEF ShownIsSold
  <2>1. Page(p) \in Queries /\ Page(p).of = "detail" /\ Page(p).product = p
    BY DEF Queries, Page
  <2>2. RightAbout(Page(p), i, Shown(Page(p)))
    BY <2>1, ShownIsRight
  <2> QED
    BY <2>1, <2>2 DEF RightAbout
<1> QED
  BY <1>1, InitKnows, NextKnows, PTL DEF BrowseSpec

============================================================================
