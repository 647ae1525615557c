------------------------------- MODULE MCLookups -------------------------------
(***************************************************************************)
(* Two providers for Lookups: one that is asked by identifier and then by  *)
(* title, one by title alone; the title of a book may be put right.        *)
(***************************************************************************)
EXTENDS Lookups

MCKey == [q \in Questions |-> "asin"]
MCAsked == <<[q \in Questions |-> <<"asin", q>>], [q \in Questions |-> <<"title">>]>>
MCWorld == <<[asin |-> {"a"}, typo |-> {}, title |-> {"b"}], [title |-> {"c"}]>>

=================================================================================
