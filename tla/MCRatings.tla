------------------------------- MODULE MCRatings --------------------------------
(* Five catalogues for Ratings: editions that repeat, contradict or say       *)
(* nothing about audience; and four that only speak of the kids' shelf.       *)
EXTENDS Ratings

Filed(paths) == [paths |-> paths, maturity |-> "unsaid"]

MCCatalogue ==
  [audible |-> {Filed({<<"kids-shelf">>}),
                [paths |-> {<<"chapter-books", "early-readers">>}, maturity |-> "MATURE"]},
   audnexus |-> {Filed({<<"kids-shelf">>}), Filed({<<"war">>})},
   applebooks |-> {Filed({<<"young-adult">>, <<"fiction-for-kids">>})},
   googlebooks |-> {[paths |-> {}, maturity |-> "NOT_MATURE"]},
   openlibrary |-> {Filed({<<"picture-books">>})}]

MCHandTags == {<<"mine", "loved">>, <<"age", "9 or 10">>}

\* Audible, Audnexus and AudioSilo file a book under the kids' shelf alone.
ShelfCatalogue ==
  [audible |-> {Filed({<<"kids-shelf">>})},
   audnexus |-> {Filed({<<"kids-shelf">>})},
   audiosilo |-> {Filed({<<"kids">>})},
   openlibrary |-> {Filed({<<"picture-books">>}), Filed({<<"picture-books">>, <<"war">>})}]
================================================================================
