-------------------------------- MODULE Ratings ---------------------------------
(***************************************************************************)
(* How one book is rated: the shelf labels the catalogues give it          *)
(* (providers/*.ts) are scored into an age band and content flags          *)
(* (content/ageRating.ts), and written as tags of the book                 *)
(* (core/rate.ts).  The catalogues answer with one edition after another   *)
(* and fall silent again between two ratings.                              *)
(*                                                                         *)
(* A label stands for the texts one pattern of the rules matches.          *)
(* Arithmetic is exact: strengths in tenths and weights in twentieths,     *)
(* hence scores in two-hundredths, and confidences in hundredths.          *)
(***************************************************************************)
EXTENDS Naturals, Sequences, FiniteSets, FiniteSetsExt, SequencesExt, Functions

CONSTANTS
  Catalogue,   \* Catalogue[p]: the editions provider p may answer with
  Thresholds,  \* minConfidence, as the commands give it
  HandTags,    \* the tags people put on a book and take off
  MaxEditions  \* bound: editions one provider answers with

Providers == DOMAIN Catalogue
AgeBands == <<"early-reader", "middle-grade", "young-adult", "adult">>
ContentFlags == {"violence", "sexual-content", "profanity", "substance-use", "horror",
                 "romance", "self-harm", "religion"}

Rule(patterns, band, flags, strength) ==
  [patterns |-> patterns, band |-> band, flags |-> flags, strength |-> strength]

KidsShelf == Rule({"kids-shelf", "kids"}, "middle-grade", {}, 3)

Rules == {
  Rule({"picture-books", "early-readers"}, "early-reader", {}, 10),
  Rule({"ages-3-5"}, "early-reader", {}, 10),
  Rule({"reader-level-1"}, "early-reader", {}, 8),
  Rule({"basic-concepts"}, "early-reader", {}, 9),
  KidsShelf,
  Rule({"middle-grade"}, "middle-grade", {}, 10),
  Rule({"juvenile-fiction"}, "middle-grade", {}, 9),
  Rule({"ages-8-12"}, "middle-grade", {}, 10),
  Rule({"chapter-books"}, "middle-grade", {}, 7),
  Rule({"fiction-for-kids"}, "middle-grade", {}, 8),
  Rule({"young-adult"}, "young-adult", {}, 10),
  Rule({"ages-12-and-up"}, "young-adult", {}, 10),
  Rule({"literary-fiction"}, "adult", {}, 6),
  Rule({"MATURE"}, "adult", {"sexual-content"}, 10),
  Rule({"erotica"}, "adult", {"sexual-content"}, 10),
  Rule({"sexuality"}, "none", {"sexual-content"}, 8),
  Rule({"romance"}, "none", {"romance"}, 7),
  Rule({"massacres"}, "adult", {"violence"}, 9),
  Rule({"murder", "war"}, "none", {"violence"}, 7),
  Rule({"profanity"}, "none", {"profanity"}, 8),
  Rule({"alcoholism"}, "none", {"substance-use"}, 8),
  Rule({"smoking"}, "none", {"substance-use"}, 4),
  Rule({"ghosts"}, "none", {"horror"}, 6),
  Rule({"suicide"}, "none", {"self-harm"}, 9),
  Rule({"bible"}, "none", {"religion"}, 6)}

\* "space-opera" and the rest stand for the labels no rule reads.
Labels == UNION {r.patterns : r \in Rules}
            \cup {"space-opera", "books", "young-adults", "NOT_MATURE"}

\* An edition is filed along paths from the general to the specific; a
\* catalogue without a tree files along paths of length one.
Edition(r) == /\ r.paths \subseteq SeqOf(Labels, 2) \ {<<>>}
              /\ r.maturity \in {"MATURE", "NOT_MATURE", "unsaid"}

ASSUME RatingsAssumption ==
  /\ Providers \subseteq {"audible", "audnexus", "applebooks", "googlebooks",
                          "openlibrary", "audiosilo"}
  /\ \A p \in Providers : \A r \in Catalogue[p] : Edition(r)
  /\ Thresholds \subseteq 0 .. 90
  /\ MaxEditions \in Nat \ {0}

VARIABLES
  answers,   \* what each provider said of the book: its editions' signals
  explicit,  \* AudiobookShelf's own flag on the book
  tags,      \* the book's tags
  settled    \* history: nothing has moved since the last rating

ratingVars == <<answers, explicit, tags, settled>>

AgeTag(band) == <<"age", band>>
ContentTag(flag) == <<"content", flag>>
Marker == <<"abs-butler", "rated">>
ButlerTags == {AgeTag(b) : b \in Range(AgeBands)} \cup {ContentTag(f) : f \in ContentFlags}
                \cup {Marker}

--------------------------------------------------------------------------------
(***************************************************************************)
(* What each catalogue's answer says, and how far it is trusted.           *)
(***************************************************************************)
Said(r) == UNION {Range(path) : path \in r.paths}
Leaves(r) == {Last(path) : path \in r.paths}
Signal(label, weight) == [label |-> label, weight |-> weight]
Mature(r, weight) == IF r.maturity = "MATURE" THEN {Signal("MATURE", weight)} ELSE {}

\* A name that is a leaf anywhere counts as one; the nodes above are context.
AudibleSignals(r) ==
  {Signal(l, IF l \in Leaves(r) THEN 18 ELSE 11) : l \in Said(r)} \cup Mature(r, 19)
AudnexusSignals(r) == {Signal(l, 18) : l \in Said(r)} \cup Mature(r, 19)
\* Storefront sections are dropped, and its young adult is worth little.
UselessGenres == {"books", "kids", "young-adults"}
AppleSignals(r) ==
  {Signal(l, IF l = "young-adult" THEN 7 ELSE 16) : l \in Said(r) \ UselessGenres}
\* "NOT_MATURE" is a signal too, though no rule reads it.
GoogleSignals(r) ==
  {Signal(l, 17) : l \in Said(r)}
    \cup (IF r.maturity = "unsaid" THEN {} ELSE {Signal(r.maturity, 18)})
OpenLibrarySignals(r) == {Signal(l, 14) : l \in Said(r)}
AudioSiloSignals(r) == {Signal(l, 16) : l \in Said(r)}

Signals(p, r) ==
  CASE p = "audible" -> AudibleSignals(r)
    [] p = "audnexus" -> AudnexusSignals(r)
    [] p = "applebooks" -> AppleSignals(r)
    [] p = "googlebooks" -> GoogleSignals(r)
    [] p = "openlibrary" -> OpenLibrarySignals(r)
    [] p = "audiosilo" -> AudioSiloSignals(r)

Heard(p) == UNION Range(answers[p])

--------------------------------------------------------------------------------
(***************************************************************************)
(* assessContent.                                                          *)
(***************************************************************************)
Strongest(signals, rule) ==
  Max({0} \cup {rule.strength * s.weight : s \in {s \in signals : s.label \in rule.patterns}})

\* A faulty variant for mutation: a rule scores once per edition.
ContributionPerEdition(group, rule) ==
  MapThenSumSet(LAMBDA k : Strongest(group[k], rule), DOMAIN group)

\* A rule scores at most once per provider, with its strongest match.
Contribution(group, rule) == Strongest(UNION Range(group), rule)

Matches(signals, rule) == \E s \in signals : s.label \in rule.patterns
Weight(results, p, rules) ==
  SumFunction([r \in {r \in rules : Matches(UNION Range(results[p]), r)} |->
                 Contribution(results[p], r)])
Summed(results, rules) == SumFunction([p \in Providers |-> Weight(results, p, rules)])

Score(results, band) == Summed(results, {r \in Rules : r.band = band})

\* The sort is stable: of equal bands the youngest ranks first.
TopOf(scores) == CHOOSE k \in DOMAIN scores :
                   /\ \A j \in DOMAIN scores : scores[j] <= scores[k]
                   /\ \A j \in 1 .. k - 1 : scores[j] < scores[k]

\* A faulty variant for mutation: answers are counted, not catalogues.
DescribedByAnswers(results) ==
  MapThenSumSet(LAMBDA p : Cardinality({k \in DOMAIN results[p] : results[p][k] # {}}),
                Providers)

DescribedBy(results) == Cardinality({p \in Providers : UNION Range(results[p]) # {}})

MinSourcesForAdultByAbsence == 2
AbsenceConfidence(sources) == Min({60, 40 + 10 * (sources - MinSourcesForAdultByAbsence)})

RoundDiv(a, b) == (2 * a + b) \div (2 * b)

\* Volume against one full-strength rule, by how clearly it beat the next.
Confidence(top, next) ==
  IF top = 0 THEN 0 ELSE RoundDiv(Min({180, top}) * (10 * top + next), 18 * (top + next))

FlagConfidence(score) == RoundDiv(Min({300, score}), 3)

Assess(results) ==
  LET scores == <<Score(results, AgeBands[1]), Score(results, AgeBands[2]),
                  Score(results, AgeBands[3]), Score(results, AgeBands[4])>>
      k == TopOf(scores)
      next == Max({scores[j] : j \in DOMAIN scores \ {k}})
      byAbsence == scores[k] = 0 /\ DescribedBy(results) >= MinSourcesForAdultByAbsence
  IN [band |-> IF byAbsence THEN "adult"
               ELSE IF scores[k] = 0 THEN "unknown" ELSE AgeBands[k],
      confidence |-> IF byAbsence THEN AbsenceConfidence(DescribedBy(results))
                     ELSE Confidence(scores[k], next),
      flags |-> {f \in {<<flag, FlagConfidence(Summed(results, {r \in Rules : flag \in r.flags}))>> :
                          flag \in ContentFlags} : f[2] >= 20}]

Assessment == Assess(answers)

--------------------------------------------------------------------------------
(***************************************************************************)
(* rateItem.                                                               *)
(***************************************************************************)
\* AudiobookShelf's own flag beats any inference.
Rating ==
  IF explicit
  THEN [Assessment EXCEPT !.band = "adult", !.confidence = Max({@, 90})]
  ELSE Assessment

AssessmentToTags(a, min) ==
  {Marker} \cup {AgeTag(b) : b \in {b \in {a.band} \ {"unknown"} : a.confidence >= min}}
           \cup {ContentTag(f[1]) : f \in {f \in a.flags : f[2] >= min}}

\* A faulty variant for mutation: content tags are not known for the tool's own.
IsButlerTagNoContent(tag) == tag \in {Marker} \cup {AgeTag(b) : b \in Range(AgeBands)}

IsButlerTag(tag) == tag[1] \in {"age", "content"} \/ tag = Marker

ProposedTags(min) == {t \in tags : ~IsButlerTag(t)} \cup AssessmentToTags(Rating, min)

\* rate --apply on this book; tags that would stay the same are not written.
Rate(min) == /\ tags' = ProposedTags(min)
             /\ settled' = TRUE
             /\ UNCHANGED <<answers, explicit>>

\* The next lookup brings one more edition.
Answer(p, r) == /\ Len(answers[p]) < MaxEditions
                /\ answers' = [answers EXCEPT ![p] = Append(@, Signals(p, r))]
                /\ settled' = FALSE
                /\ UNCHANGED <<explicit, tags>>

\* The next lookup brings nothing from a provider that is out or refusing.
FallSilent(p) == /\ answers[p] # <<>>
                 /\ answers' = [answers EXCEPT ![p] = <<>>]
                 /\ settled' = FALSE
                 /\ UNCHANGED <<explicit, tags>>

\* People tick the explicit box, and put tags on or take them off.
Tick == /\ explicit' = ~explicit
        /\ settled' = FALSE
        /\ UNCHANGED <<answers, tags>>

Tag(t) == /\ tags' = IF t \in tags THEN tags \ {t} ELSE tags \cup {t}
          /\ settled' = FALSE
          /\ UNCHANGED <<answers, explicit>>

RatingInit ==
  /\ answers = [p \in Providers |-> <<>>]
  /\ explicit = FALSE
  /\ tags = {}
  /\ settled = FALSE

RatingNext ==
  \/ \E min \in Thresholds : Rate(min)
  \/ \E p \in Providers : \E r \in Catalogue[p] : Answer(p, r)
  \/ \E p \in Providers : FallSilent(p)
  \/ Tick
  \/ \E t \in HandTags : Tag(t)

RatingSpec == RatingInit /\ [][RatingNext]_ratingVars

--------------------------------------------------------------------------------
RatingTypeOK ==
  /\ DOMAIN answers = Providers
  /\ \A p \in Providers : /\ Range(answers[p]) \subseteq {Signals(p, r) : r \in Catalogue[p]}
                            /\ Len(answers[p]) <= MaxEditions
  /\ explicit \in BOOLEAN
  /\ tags \subseteq ButlerTags \cup HandTags
  /\ settled \in BOOLEAN

States(p, band) == \E r \in Rules : r.band = band /\ Matches(Heard(p), r)

\* However many editions a catalogue answers with, it is heard as if one
\* edition had said it all (content/ageRating.ts 168-188).
ChattyIsNotLoud ==
  Assessment = Assess([p \in Providers |-> IF Heard(p) = {} THEN <<>> ELSE <<Heard(p)>>])

\* A book is called adult because a catalogue says so, or because the server's
\* own flag does, or because two different catalogues described it and none of
\* them named any audience (ageRating.ts 218-239).
AdultHasAReason ==
  Rating.band = "adult" =>
    \/ explicit
    \/ \E p \in Providers : States(p, "adult")
    \/ /\ \E p, q \in Providers : p # q /\ Heard(p) # {} /\ Heard(q) # {}
       /\ \A p \in Providers, b \in Range(AgeBands) : ~States(p, b)

\* No tag of the tool's outlives its evidence: after a rating the book has one
\* age tag at most, the flag's own when it is set, and a content tag only where
\* a label heard now raises that flag, whatever earlier ratings left behind.
NoTagOutlivesItsEvidence ==
  settled =>
    /\ Cardinality({b \in Range(AgeBands) : AgeTag(b) \in tags}) <= 1
    /\ explicit => AgeTag("adult") \in tags
    /\ \A f \in ContentFlags : ContentTag(f) \in tags =>
         \E p \in Providers, r \in Rules :
           f \in r.flags /\ Matches(Heard(p), r)

\* The bands that a catalogue other than the whole-catalogue shelf speaks for.
NamedOutright == {p \in Providers : \E r \in Rules :
                    r.band = "early-reader" /\ r.strength = 10 /\ Matches(Heard(p), r)}
OnShelf == {p \in Providers : Matches(Heard(p), KidsShelf)}
OnlyShelfDisagrees ==
  /\ NamedOutright # {}
  /\ \A p \in Providers, r \in Rules :
       r.band \notin {"none", "early-reader"} /\ Matches(Heard(p), r) => r = KidsShelf

\* A picture book on the kids shelf of two catalogues stays a picture book
\* (ageRating.ts 67-70, where 0.5 made it middle grade).
TwoShelvesAreQuieter ==
  OnlyShelfDisagrees /\ Cardinality(OnShelf) <= 2 => Assessment.band = "early-reader"

\* No source outweighs what it has to say, neither by the number of its editions
\* nor as one of two that put the book on the shelf of the whole catalogue
\* (content/ageRating.ts 67-74, 168-200).
LoudnessIsEarned == ChattyIsNotLoud /\ TwoShelvesAreQuieter

\* "A term spanning ages 0-12 has to stay quieter than one naming a band
\* outright, however many sources repeat it" (ageRating.ts 70-72).
ShelfIsQuieter == OnlyShelfDisagrees => Assessment.band = "early-reader"
================================================================================
