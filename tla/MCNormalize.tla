------------------------------ MODULE MCNormalize ------------------------------
(***************************************************************************)
(* Four books of one series for Normalize, by ann with or without bob and  *)
(* cat; ann has two spellings and one in the wrong order, the series three *)
(* names, and two of the books belong to a second one.  The sources answer *)
(* for the first book alone.                                               *)
(***************************************************************************)
EXTENDS Normalize

Spellings == {"Ann A", "Ann Aa", "A, Ann", "Bob", "Cat", "Saga", "saga", "The Saga", "Duo",
          "Fantasy", "fantasy", "Magic"}
MCTidy == [s \in Spellings |-> IF s = "A, Ann" THEN "Ann A" ELSE s]
MCPerson == [s \in Spellings |-> IF s \in {"Ann A", "Ann Aa", "A, Ann"} THEN "ann"
                             ELSE IF s \in {"saga", "The Saga"} THEN "Saga"
                             ELSE IF s = "fantasy" THEN "Fantasy" ELSE s]
MCLower == [s \in Spellings |-> IF s = "Saga" THEN "saga" ELSE IF s = "Fantasy" THEN "fantasy" ELSE s]
Order == <<"The Saga", "Ann Aa", "A, Ann", "Fantasy", "fantasy", "Ann A", "Magic", "Saga", "saga", "Bob", "Cat",
           "Duo">>
MCLonger == [s \in Spellings |-> CHOOSE i \in DOMAIN Order : Order[i] = s]
Letters == <<"A, Ann", "Ann A", "Ann Aa", "Bob", "Cat", "Duo", "fantasy", "Fantasy", "Magic", "saga",
             "Saga", "The Saga">>
MCAlphabet == [s \in Spellings |-> CHOOSE i \in DOMAIN Letters : Letters[i] = s]

Book(authors, narrators, series, genres) ==
  [authors |-> authors, narrators |-> narrators, series |-> series, genres |-> genres]
Firsts == {<<>>, <<"Ann A">>, <<"Ann Aa">>, <<"A, Ann", "Bob">>, <<"Bob", "Ann A">>, <<"Ann A", "Bob", "Cat">>}
Others == {<<"Ann A">>, <<"Ann Aa">>, <<"Ann Aa", "Bob">>}
MCLibraries ==
  {<<Book(a, n, s, g), Book(o, <<"Bob">>, <<"Saga">>, <<"Fantasy">>),
     Book(o, n, <<"Saga">>, <<"Fantasy">>), Book(<<"Ann Aa">>, n, <<"Saga", "Duo">>, <<"Magic">>)>> :
     a \in Firsts, o \in Others, n \in {<<>>, <<"Bob">>}, s \in {<<"Saga">>, <<"Duo", "Saga">>},
     g \in {<<"Magic">>, <<"fantasy">>}}

\* Audible names narrators and a series, Google Books a series that is cased otherwise.
Candidate(provider, by, authors) ==
  [provider |-> provider, by |-> by, similar |-> 100, authors |-> authors,
   narrators |-> IF provider = "audible" THEN <<"Cat">> ELSE <<>>,
   series |-> CASE provider = "audible" -> <<"The Saga">> [] provider = "googlebooks" -> <<"saga">>
                [] OTHER -> <<>>]
Lists == {<<"Ann Aa">>, <<"Ann A", "Bob">>, <<"Ann A", "Cat">>}
MCAnswers ==
  {<<a, <<>>, <<>>, <<>>>> : a \in {<<>>}
     \cup {<<Candidate("audible", "asin", x), Candidate("audnexus", "asin", x),
             Candidate("audiosilo", "asin", y), Candidate("openlibrary", by, z)>> :
             x, y, z \in Lists, by \in {"isbn", "title"}}
     \cup {<<Candidate("openlibrary", "title", x), Candidate("googlebooks", by, y)>> :
             x, y \in Lists, by \in {"isbn", "title"}}}

\* A source that credits one author in two spellings.
MCDoubled == {<<<<Candidate("openlibrary", "isbn", <<"Ann A", "Ann Aa">>)>>, <<>>, <<>>, <<>>>>}

=================================================================================
