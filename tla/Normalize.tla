-------------------------------- MODULE Normalize -------------------------------
(***************************************************************************)
(* What normalize makes of a library (core/normalize.ts): the spellings a  *)
(* library agrees on, what a series has in common, what the sources that   *)
(* identified a book vote for (core/matching.ts), and how these become one *)
(* proposal for each field.  A night is a run over the whole library with  *)
(* the switch on: every book is planned from the library as it was listed, *)
(* and written.  A name is a spelling; Tidy, Person and Lower are what     *)
(* util/text.ts makes of it.                                               *)
(***************************************************************************)
EXTENDS Integers, Sequences, FiniteSets, SequencesExt

CONSTANTS
  Books,        \* 1 .. n, in the order of the listing
  Tidy,         \* Tidy[s]: normalizePersonName, a name in reading order
  Person,       \* Person[s]: normalizeAuthor or normalizeTitle, what s names
  Lower,        \* Lower[s]: s in lower case
  Longer,       \* Longer[s]: the place of s among spellings, the longer first
  Alphabet,     \* Alphabet[s]: the place of s in the alphabet
  Libraries,    \* the libraries to begin with
  Answers,      \* what the providers answer for each book, in order of trust
  TradeMinNarrations, TradeRatio, PlausibleAuthors,
  SeriesMinAgreeing, SeriesMinCarriers,
  SeriesMinShare    \* of the members, in percent

Names == DOMAIN Person
Fields == {"authors", "narrators", "series", "genres"}
Candidates ==
  [provider : STRING, by : {"asin", "isbn", "title"}, similar : 0 .. 100,
   authors : Seq(Names), narrators : Seq(Names), series : Seq(Names)]

ASSUME NormalizeAssumption ==
  /\ IsFiniteSet(Books) /\ Books = 1 .. Cardinality(Books)
  /\ DOMAIN Tidy = Names /\ \A s \in Names : Tidy[s] \in Names
  \* case alone makes nobody else
  /\ DOMAIN Lower = Names /\ \A s, t \in Names : Lower[s] = Lower[t] => Person[s] = Person[t]
  /\ \A order \in {Longer, Alphabet} : order \in [Names -> Nat] /\ IsInjective(order)
  /\ Libraries \subseteq [Books -> [Fields -> Seq(Names)]]
  /\ Answers \subseteq [Books -> Seq(Candidates)]

VARIABLES
  library,      \* book -> [authors, narrators, series, genres], each a list of spellings
  answers,      \* book -> the candidates of its lookup
  changed,      \* the books the last night's report proposes to change
  night         \* the parity of the nights so far

nightVars == <<library, answers, changed, night>>

Named(names) == {Person[names[i]] : i \in DOMAIN names}
Respelled(names, to) == [i \in DOMAIN names |-> to[names[i]]]
Most(S, Better(_, _)) == CHOOSE x \in S : \A y \in S \ {x} : Better(x, y)
\* What is at some places of a list, in an order of the places.
Picked(list, places, Before(_, _)) ==
  [k \in 1 .. Cardinality(places) |->
     list[CHOOSE i \in places : Cardinality({j \in places : Before(j, i)}) = k - 1]]
Kept(list, places) == Picked(list, places, LAMBDA i, j : i < j)
Times(names, name) == Cardinality({i \in DOMAIN names : names[i] = name})

\* Each person or subject once, as first written.
Once(names) ==
  FoldLeft(LAMBDA out, n : IF Person[n] \in Named(out) THEN out ELSE Append(out, n), <<>>, names)

--------------------------------------------------------------------------------
(***************************************************************************)
(* How sure a match is, in percent (matching.ts).                          *)
(***************************************************************************)
MatchMinRewrite == 90
FuzzyCeiling == 85
TitleFloor == 60

\* compareAuthors
Agreement(mine, theirs) ==
  IF mine = <<>> \/ theirs = <<>> THEN 40
  ELSE IF Person[mine[1]] \in Named(theirs) THEN 100 ELSE 0

\* A faulty variant for mutation: a title can be as good as an identifier.
ScoreUncapped(book, c) ==
  LET author == Agreement(book.authors, c.authors) IN
  CASE c.by = "asin" -> 100 [] c.by = "isbn" -> 97
    [] c.by = "title" /\ (c.similar < TitleFloor \/ author = 0) -> 0
    [] OTHER -> (55 * c.similar + 45 * author) \div 100

\* scoreCandidate: an identifier decides alone, a title never reaches the bar.
Score(book, c) ==
  LET author == Agreement(book.authors, c.authors) IN
  CASE c.by = "asin" -> 100 [] c.by = "isbn" -> 97
    [] c.by = "title" /\ (c.similar < TitleFloor \/ author = 0) -> 0
    [] OTHER -> Min({FuzzyCeiling, (55 * c.similar + 45 * author) \div 100})

\* The candidates a rewrite may use, the surest first.
Rewritable(book, cs) ==
  Picked(cs, {i \in DOMAIN cs : Score(book, cs[i]) >= MatchMinRewrite},
         LAMBDA i, j : \/ Score(book, cs[i]) > Score(book, cs[j])
                       \/ Score(book, cs[i]) = Score(book, cs[j]) /\ i < j)

--------------------------------------------------------------------------------
(***************************************************************************)
(* What the library agrees on (Consensus).                                 *)
(***************************************************************************)
\* Every mention of a name in a field of some books: the book and its place there.
Mentions(lib, f, S) ==
  [p \in UNION {{b} \X DOMAIN lib[b][f] : b \in S} |-> lib[p[1]][f][p[2]]]

\* The order of the listing.
Earlier(p, q) == p[1] < q[1] \/ (p[1] = q[1] /\ p[2] < q[2])

\* pickConsensus: the most frequent spelling, of several the longest.
Winner(names, key) ==
  Most({n \in Range(names) : Person[n] = key},
       LAMBDA a, b : \/ Times(names, a) > Times(names, b)
                     \/ Times(names, a) = Times(names, b) /\ Longer[a] < Longer[b])

\* What each spelling becomes: the library's, where it has several.
Spelling(names) ==
  [n \in Names |->
     IF Cardinality({m \in Range(names) : Person[m] = Person[n]}) < 2 THEN n ELSE Winner(names, Person[n])]

\* findNarratorsByTrade
ByTrade(lib) ==
  LET credits(f, key) ==
        Times(Respelled(Mentions(lib, f, Books), Person), key)
  IN {key \in Named(Mentions(lib, "narrators", Books)) :
        /\ credits("narrators", key) >= TradeMinNarrations
        /\ credits("narrators", key) > TradeRatio * credits("authors", key)}

\* The person most books of a series credit, of several the one credited first.
Lead(lib, inSeries) ==
  LET credited == Mentions(lib, "authors", inSeries)
      on(i) == Cardinality({b \in inSeries : Person[credited[i]] \in Named(lib[b].authors)})
  IN Person[credited[Most(DOMAIN credited, LAMBDA i, j : on(i) > on(j) \/ (on(i) = on(j) /\ Earlier(i, j)))]]

\* sharedValues: what enough members carry, spelled as most of them do.
Shared(lib, members, f) ==
  LET carried == Mentions([b \in Books |-> [lib[b] EXCEPT ![f] = Once(@)]], f, members)
      carriers(key) == Cardinality({m \in members : key \in Named(lib[m][f])})
  IN {Most({n \in Range(carried) : Person[n] = key},
           LAMBDA a, b : \/ Times(carried, a) > Times(carried, b)
                         \/ Times(carried, a) = Times(carried, b) /\ Alphabet[a] < Alphabet[b]) :
        key \in {key \in Named(carried) : carriers(key) >= SeriesMinCarriers
                                         /\ 100 * carriers(key) >= SeriesMinShare * Cardinality(members)}}

\* profileSeries: the books that credit the lead, if that is more than half of
\* them, and the people a strict majority of those agrees on.
Profiles(lib) ==
  [s \in UNION {Named(lib[b].series) : b \in Books} |->
     LET inSeries == {b \in Books : s \in Named(lib[b].series)}
         members == IF DOMAIN Mentions(lib, "authors", inSeries) = {} THEN {}
                    ELSE {b \in inSeries : Lead(lib, inSeries) \in Named(lib[b].authors)}
         same(m) == Cardinality({o \in members : Named(lib[o].authors) = Named(lib[m].authors)})
     IN IF 2 * Cardinality(members) <= Cardinality(inSeries)
        THEN [members |-> {}, agreed |-> {}, genres |-> {}]
        ELSE [members |-> members,
              agreed |-> {Named(lib[m].authors) : m \in
                {m \in members : same(m) >= SeriesMinAgreeing /\ 2 * same(m) > Cardinality(members)}},
              genres |-> Shared(lib, members, "genres")]]

\* buildConsensus: a person's spelling votes in reading order.
Consensus(lib) ==
  [authors |-> Spelling(Respelled(Mentions(lib, "authors", Books), Tidy)),
   narrators |-> Spelling(Respelled(Mentions(lib, "narrators", Books), Tidy)),
   series |-> Spelling(Mentions(lib, "series", Books)),
   genres |-> Spelling(Mentions(lib, "genres", Books)),
   byTrade |-> ByTrade(lib),
   bySeries |-> Profiles(lib)]

\* profilesFor: of the series a book is a member of.
ProfilesFor(lib, con, b) ==
  {con.bySeries[s] : s \in {s \in Named(lib[b].series) : b \in con.bySeries[s].members}}

--------------------------------------------------------------------------------
(***************************************************************************)
(* What the sources say, and whom they take away.                          *)
(***************************************************************************)
\* voice: Audnexus is Audible's catalogue.
Voice(provider) == IF provider = "audnexus" THEN "audible" ELSE provider
WorkSources == {"openlibrary", "googlebooks"}
Voices(cs, I) == {Voice(cs[i].provider) : i \in I}

\* voteOn: the sources behind the most-agreed value, a tie to the surest.
Voters(cs, f) ==
  LET says == {i \in DOMAIN cs : cs[i][f] # <<>>}
      group(i) == {j \in says : Respelled(cs[j][f], Person) = Respelled(cs[i][f], Person)}
  IN IF says = {} THEN {}
     ELSE group(Most(says, LAMBDA i, j : \/ Cardinality(group(i)) > Cardinality(group(j))
                                         \/ Cardinality(group(i)) = Cardinality(group(j)) /\ i < j))
Voted(cs, f) == IF Voters(cs, f) = {} THEN <<>> ELSE cs[Min(Voters(cs, f))][f]

\* A faulty variant for mutation: Audnexus counts beside Audible.
MayAddByName(current, proposed, cs, voters) ==
  \/ current = <<>> \/ Named(proposed) \subseteq Named(current)
  \/ Cardinality({cs[i].provider : i \in voters}) >= 2

MayAddPeople(current, proposed, cs, voters) ==
  \/ current = <<>> \/ Named(proposed) \subseteq Named(current)
  \/ Cardinality(Voices(cs, voters)) >= 2

\* A faulty variant for mutation: one catalogue of the written work is enough.
OutvotesAlone(opposed, support) ==
  Cardinality(opposed) > Cardinality(support) /\ opposed \cap WorkSources # {}

Outvotes(opposed, support) ==
  /\ Cardinality(opposed) >= 2 /\ Cardinality(opposed) > Cardinality(support)
  /\ opposed \cap WorkSources # {}

\* outvotedAuthors: never the first credited.
Outvoted(names, cs) ==
  LET lists == {i \in DOMAIN cs : cs[i].authors # <<>>}
      support(key) == Voices(cs, {i \in lists : key \in Named(cs[i].authors)})
      opposed(key) == Voices(cs, {i \in lists : key \notin Named(cs[i].authors)}) \ support(key)
  IN {key \in Named(Tail(names)) : Outvotes(opposed(key), support(key))}

\* seriesExtras: whom the rest of the series does not credit, nor any source.
SeriesExtras(profiles, names, cs) ==
  LET agreed == UNION {p.agreed : p \in profiles}
      credited == UNION {Named(cs[i].authors) : i \in DOMAIN cs}
  IN UNION {IF Cardinality(agreed) = 1 /\ expected \subseteq Named(names)
            THEN Named(names) \ (expected \cup credited) ELSE {} : expected \in agreed}

\* dropNarratorsFromAuthors
WithoutNarrators(book, byTrade) ==
  LET drop == Named(book.narrators) \cap byTrade
      written == Kept(book.authors, {i \in DOMAIN book.authors : Person[book.authors[i]] \notin drop})
  IN IF written = <<>> \/ Len(written) > PlausibleAuthors THEN book.authors ELSE written

--------------------------------------------------------------------------------
(***************************************************************************)
(* planNormalize: the tiers of each field, the stronger over the weaker.   *)
(***************************************************************************)
\* A faulty variant for mutation: a rename of case alone is proposed like another.
ProposedAnyway(record, current, settled, to) ==
  IF to = <<>> \/ to = current THEN settled ELSE to

\* propose: what changes nothing leaves what is proposed already, and so does a
\* rename of case alone where names are records.
Proposed(record, current, settled, to) ==
  IF to = <<>> \/ to = current \/ (record /\ Respelled(to, Lower) = Respelled(current, Lower))
  THEN settled ELSE to

\* Library and sources over a tidying of what is there; settled is current while
\* nothing is proposed.
Tiers(record, current, tidied, agreed, voted) ==
  LET local == Proposed(record, current, current, tidied)
      shared == Proposed(record, current, local, agreed)
  IN Proposed(record, current, shared, voted)

AuthorsOf(book, con, profiles, cs) ==
  LET voted == Voted(cs, "authors")
      added == IF /\ Len(voted) >= Len(book.authors)
                  /\ MayAddPeople(book.authors, voted, cs, Voters(cs, "authors")) THEN voted ELSE <<>>
      base == Tiers(TRUE, book.authors, Respelled(WithoutNarrators(book, con.byTrade), Tidy),
                    Respelled(book.authors, con.authors), added)
      removed == IF base = <<>> THEN {} ELSE Outvoted(base, cs) \cup SeriesExtras(profiles, base, cs)
      kept == Kept(base, {i \in DOMAIN base : Person[base[i]] \notin removed})
  IN IF removed # {} /\ kept # <<>> /\ kept # book.authors THEN kept ELSE base

NarratorsOf(book, con, cs) ==
  LET voted == Voted(cs, "narrators") IN
  Tiers(FALSE, book.narrators, Respelled(book.narrators, Tidy), Respelled(book.narrators, con.narrators),
        IF Len(voted) >= Len(book.narrators) THEN voted ELSE <<>>)

\* The sources name one series: it takes the first place.
SeriesOf(book, con, cs) ==
  LET voted == Voted(cs, "series") IN
  Tiers(TRUE, book.series, <<>>, Respelled(book.series, con.series),
        IF voted = <<>> \/ book.series = <<>> THEN voted ELSE voted \o Tail(book.series))

\* planShared: the library's spelling once each, and what the series carry.
GenresOf(book, con, profiles) ==
  LET carried == {n \in UNION {p.genres : p \in profiles} : Person[n] \notin Named(book.genres)}
  IN Respelled(Once(book.genres), con.genres) \o SetToSeq({con.genres[n] : n \in carried})

Written(lib, con, b, cs) ==
  [authors |-> AuthorsOf(lib[b], con, ProfilesFor(lib, con, b), cs),
   narrators |-> NarratorsOf(lib[b], con, cs),
   series |-> SeriesOf(lib[b], con, cs),
   genres |-> GenresOf(lib[b], con, ProfilesFor(lib, con, b))]

--------------------------------------------------------------------------------
\* AudiobookShelf keeps authors and series as records and looks them up by name,
\* whatever the case.
Resolved(lib, f, names) ==
  LET as(n) == {r \in Range(Mentions(lib, f, Books)) : Lower[r] = Lower[n]}
  IN [i \in DOMAIN names |-> IF names[i] \in as(names[i]) \/ as(names[i]) = {} THEN names[i]
                             ELSE CHOOSE r \in as(names[i]) : TRUE]
Stored(lib, book) ==
  [book EXCEPT !.authors = Resolved(lib, "authors", @), !.series = Resolved(lib, "series", @)]

NightInit == library \in Libraries /\ answers \in Answers /\ changed = {} /\ night = 0

\* The schedule comes round; cron keeps it, so it comes round for ever.
Nightfall == night' = 1 - night

Night ==
  /\ Nightfall
  /\ \E con \in {Consensus(library)} :
     \E plan \in {[b \in Books |-> Written(library, con, b, Rewritable(library[b], answers[b]))]} :
       /\ changed' = {b \in Books : plan[b] # library[b]}
       /\ library' = [b \in Books |-> Stored(library, plan[b])]
  /\ UNCHANGED answers

Nights == NightInit /\ [][Night]_nightVars /\ WF_night(Nightfall)

NightTypeOK ==
  /\ answers \in Answers /\ changed \subseteq Books /\ night \in {0, 1}
  /\ \A b \in Books : \A f \in Fields : library[b][f] \in Seq(Names)
  \* nobody is credited twice and no genre is there twice; a series can be
  /\ \A b \in Books : \A f \in {"authors", "narrators", "genres"} : Once(library[b][f]) = library[b][f]

--------------------------------------------------------------------------------
(***************************************************************************)
(* Properties.                                                             *)
(***************************************************************************)
\* A name in reading order is the same person's: false of one that carries a role,
\* for normalizePersonName drops " - foreword" and normalizeAuthor keeps it.
TidyKeepsPerson == \A s \in Names : Person[Tidy[s]] = Person[s]

\* No source credits a book to somebody twice; nothing takes out the second mention
\* where one does.
CreditedOnce ==
  \A found \in Answers, b \in Books : \A i \in DOMAIN found[b] :
    LET names == found[b][i].authors IN
    \A j, k \in DOMAIN names : Person[names[j]] = Person[names[k]] => j = k

\* The voices of the identified sources that list authors for b without key.
Against(b, key) ==
  LET cs == Rewritable(library[b], answers[b]) IN
  Voices(cs, {i \in DOMAIN cs : cs[i].authors # <<>> /\ key \notin Named(cs[i].authors)})
For(b, key) ==
  LET cs == Rewritable(library[b], answers[b]) IN
  Voices(cs, {i \in DOMAIN cs : key \in Named(cs[i].authors)})

\* Nobody leaves the author list of a book without evidence: two independent
\* catalogues leave them out, or they narrate it by trade, or no source credits
\* them and most of the series does without them (normalize.ts 704-865, the rules
\* taken together in planNormalize).
NobodyLeavesUnopposed ==
  [][\A b \in Books : \A key \in Named(library[b].authors) \ Named(library'[b].authors) :
       \/ Cardinality(Against(b, key)) >= 2
       \/ key \in Named(library[b].narrators) \cap ByTrade(library)
       \/ For(b, key) = {} /\ \E con \in {Consensus(library)} :
            \E p \in ProfilesFor(library, con, b) : \E a \in p.agreed : key \notin a
    ]_nightVars

\* Nobody joins the author list of a book on one catalogue's word, and a book with
\* authors is never left with none (normalize.ts mayAddPeople, dropNarratorsFromAuthors).
NobodyJoinsOnOneWord ==
  [][\A b \in Books : library[b].authors # <<>> =>
       /\ library'[b].authors # <<>>
       /\ \A key \in Named(library'[b].authors) \ Named(library[b].authors) : Cardinality(For(b, key)) >= 2
    ]_nightVars

\* A title alone never renames: without an identified source every name is one the
\* library had (matching.ts FUZZY_CEILING, "never enough to rename a book").
GuessesDoNotRename ==
  [][\A b \in Books : (\A i \in DOMAIN answers[b] : answers[b][i].by = "title") =>
       \A f \in {"authors", "narrators", "series"} :
         Named(library'[b][f]) \subseteq Named(library[b][f])]_nightVars

\* The sources spell a name otherwise than the library or another source, in more
\* than its case.
Disputed ==
  LET fields == {"authors", "narrators", "series"}
      said == UNION {UNION {Range(answers[b][i][f]) : i \in DOMAIN answers[b]} : b \in Books, f \in fields}
      kept == UNION {Range(Mentions(library, f, Books)) : f \in fields}
  IN \E m \in said, n \in said \cup kept : Person[m] = Person[n] /\ Lower[m] # Lower[n]

\* Where no source disputes a spelling, the nights come to an end: from some night
\* on no book is reported (normalize.ts 585-593, 282-295: neither a rename that
\* cannot take nor the order of a name keeps a scheduled run busy).
Settles == ~Disputed => <>[](changed = {})

\* A scheduled run converges whatever the sources answer: a run that "reports the
\* same change every night and never converges" is "the one failure a
\* set-and-forget tool cannot have" (normalize.ts 585-588).
Converges == <>[](changed = {})

=================================================================================
