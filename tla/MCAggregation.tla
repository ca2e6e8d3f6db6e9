---------------------------- MODULE MCAggregation ----------------------------
(* Aggregation with a number that a site names and its owner confirms      *)
(* twice.                                                                  *)
EXTENDS Aggregation, TLC

CONSTANTS bank, site, user, abc, abcSpaced, o1, o2, e1, e2, e3, r1, r2

NameKeys == abc :> abc @@ abcSpaced :> abc

Places == "BANK" :> 1 @@ "SPAM" :> 2

UserRow(phone, keywords) ==
    [phone |-> phone, source |-> user, company |-> NoCompany, keywords |-> keywords,
     hotline |-> FALSE, congTy |-> TRUE, official |-> FALSE, high |-> TRUE]

Texts ==
    o1 :> [phone |-> bank, source |-> site, company |-> abcSpaced,
           keywords |-> {"BANK", "SPAM"}, hotline |-> TRUE, congTy |-> FALSE,
           official |-> TRUE, high |-> FALSE] @@
    o2 :> UserRow(NoPhone, {}) @@
    e1 :> UserRow(bank, {"BANK"}) @@ e2 :> UserRow(bank, {"BANK"}) @@
    e3 :> UserRow(NoPhone, {})

Lists == r1 :> <<e1, e3>> @@ r2 :> <<e2>>

Labels == [e \in {e1, e2, e3} |-> [name |-> abcSpaced, category |-> "SPAM"]]
=============================================================================
