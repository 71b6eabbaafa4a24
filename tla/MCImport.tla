------------------------------ MODULE MCImport ------------------------------
(***************************************************************************)
(* Small instances of Import: four price lists, two of one shop, one after *)
(* the other; and two price lists of one new shop at the same time.        *)
(***************************************************************************)
EXTENDS Import, TLC

CONSTANT u1

\* A good of a file.
Good(c, name, ext, q, par) == [category |-> c, name |-> name,
                               external |-> ext, quantity |-> q,
                               parameter |-> par]

Phone  == Good(1, "phone", 1, 3, "colour")
Laptop == Good(2, "laptop", 2, 1, "colour")

\* Price lists: with a good that is listed twice, one without a name, one
\* of a negative quantity, one of a category that may not exist; ...
Messy(s) == [shop |-> s, categories |-> {1},
             goods |-> <<Phone, Good(1, "phone", 1, 5, NoRow),
                         Good(1, NoRow, 3, 1, NoRow),
                         Good(1, "radio", 4, -1, NoRow), Laptop,
                         Good(1, "case", 1, 7, NoRow)>>]
\* ... with one good; ...
Short(s) == [shop |-> s, categories |-> {1},
             goods |-> <<[Phone EXCEPT !.quantity = 2]>>]
\* ... whose second good has no mapping of parameters.
Faulty(s) == [shop |-> s, categories |-> {1, 2},
              goods |-> <<Good(1, "radio", 4, 9, NoRow),
                          [Laptop EXCEPT !.parameter = Broken]>>]

NoProducts == <<>>
NoAddresses == <<>>

\* A shop with an owner and one without.
TwoShops == <<[name |-> "A", user |-> u1], [name |-> "B", user |-> NoRow]>>

\* A price list with a fault and another of the same shop; one that names a
\* new shop; one that cannot be read.
FourKinds == <<"file", "request", "url", "file">>
FourShops == <<1, 1, 2, 1>>
FourFiles == <<Faulty("A"), Messy("A"), Short("C"), NoRow>>

\* The same new shop, three times.
ThreeFiles == <<"file", "file", "file">>
ForB       == <<2, 2, 2>>
SameFile   == <<Short("C"), Short("C"), Short("C")>>

\* A faulty list of shop 1 and a newer one.
OldAndNew  == <<"file", "request">>
OldThenNew == <<Faulty("A"), Short("A")>>
ForItself  == <<1, 1>>

\* The staff starts an import for shop 2 with a file that names shop 1.
ByStaff    == <<"file">>
ForAnother == <<2>>
NamesFirst == <<Short("A")>>

============================================================================
