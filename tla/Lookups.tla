-------------------------------- MODULE Lookups ---------------------------------
(***************************************************************************)
(* Asking the metadata providers: lookupItem and its shared cache          *)
(* (core/lookup.ts, db/lookups.ts), the request with its one retry         *)
(* (providers/http.ts) and the order in which a provider is asked by       *)
(* identifier and then by title (providers/*.ts), for the lookups a run    *)
(* has in flight at once.  Time is counted in days, the unit of the        *)
(* expiry; a lookup takes minutes, so days pass between lookups.           *)
(***************************************************************************)
EXTENDS Integers, Sequences, FiniteSets

CONSTANTS
  Workers,      \* the lookups in flight at once
  Providers,    \* how many providers are asked, in order of trust
  Questions, NoQuestion,  \* what may be asked about a book
  Key,          \* Key[q]: queryKey, which an identifier decides alone
  Asked,        \* Asked[p][q]: the requests p makes of q until one has an answer
  World,        \* World[p][x]: what p says to request x once it knows: {}, nothing
  GiveUpAfter,  \* GIVE_UP_AFTER
  CacheDays,    \* settings.lookupCacheDays
  MaxDay,       \* bound: days that pass
  MaxRuns,      \* bound: runs
  MaxLookups    \* bound: lookups

Keys == {Key[q] : q \in Questions}
Order == 1 .. Providers

ASSUME LookupsAssumption ==
  /\ Providers \in Nat /\ GiveUpAfter \in Nat \ {0} /\ CacheDays \in Nat \ {0}
  /\ MaxDay \in Nat /\ MaxRuns \in Nat /\ MaxLookups \in Nat
  /\ IsFiniteSet(Workers)
  /\ DOMAIN Key = Questions /\ NoQuestion \notin Questions
  /\ \A p \in Order, q \in Questions :
       Asked[p][q] \in Seq(DOMAIN World[p]) /\ Asked[p][q] # <<>>

Never == -1

VARIABLES
  known,        \* since which day each provider has known what it is asked
  cache,        \* the lookups table: by provider and key
  refusals,     \* deps.refusals of the run under way
  day,          \* the clock
  look,         \* lookupItem's locals, by worker
  runs, aborted,\* the run under way and its signal
  lookups,      \* how many lookups there have been (bounded)
  used          \* history: what the last step took for the answers of providers

vars == <<known, cache, refusals, day, look, runs, aborted, lookups, used>>

\* A row; which question it answers and how its requests ended is history.
None == [q |-> NoQuestion, hit |-> FALSE, results |-> {}, at |-> Never, ends |-> {}]
Fetched(q, results, ends) ==
  [q |-> q, hit |-> results # {}, results |-> results, at |-> day, ends |-> ends]
Idle == [phase |-> "idle"]

TypeOK ==
  /\ DOMAIN cache = Order \X Keys
  /\ \A c \in DOMAIN cache :
       /\ cache[c].at \in Never .. day /\ cache[c].hit = (cache[c].results # {})
       /\ cache[c].ends \subseteq {"answer", "outage"}
  /\ refusals \in [Order -> Nat]
  /\ day \in 0 .. MaxDay /\ runs \in 0 .. MaxRuns /\ aborted \in BOOLEAN
  /\ lookups \in 0 .. MaxLookups
  /\ \A p \in Order : \A x \in DOMAIN World[p] : known[p][x] \in Never .. day
  /\ DOMAIN look = Workers
  /\ \A w \in Workers : look[w] # Idle =>
       /\ look[w].phase \in {"asking", "pausing"}
       /\ look[w].p \in Order /\ look[w].q \in Questions
       /\ look[w].request \in DOMAIN Asked[look[w].p][look[w].q]
       /\ look[w].retried \in BOOLEAN /\ look[w].refused \in BOOLEAN

--------------------------------------------------------------------------------
(***************************************************************************)
(* The cache and the count of refusals.                                    *)
(***************************************************************************)
\* A faulty variant for mutation: a miss is kept as long as a hit.
TtlForAll(hit) == CacheDays

\* ttlFor, in days.
TtlFor(hit) == IF hit THEN CacheDays ELSE IF CacheDays >= 8 THEN CacheDays \div 4 ELSE 1

Fresh(row) == row # None /\ day - row.at < TtlFor(row.hit)

\* A faulty variant for mutation: nobody is given up on.
HasGivenUpNever(p) == FALSE

HasGivenUp(p) == refusals[p] >= GiveUpAfter

--------------------------------------------------------------------------------
(***************************************************************************)
(* One lookup.  lookupItem asks the providers in turn; providerResults     *)
(* takes the cached row as it is when the provider's turn comes.           *)
(***************************************************************************)
Use(p, q, row, gaveUp, failed) ==
  [p |-> p, q |-> q, row |-> row, gaveUp |-> gaveUp, failed |-> failed]

\* From provider p on, up to the first that has to be asked: the rows used
\* instead, and the lookup's state.
Due(p, q) == ~Fresh(cache'[<<p, Key[q]>>]) /\ ~(HasGivenUp(p)')
Onward(w, q, p, before) ==
  \E next \in p .. Providers + 1 :
    /\ \A i \in p .. next - 1 : ~Due(i, q)
    /\ used' = before \cup {Use(i, q, cache'[<<i, Key[q]>>], HasGivenUp(i)', FALSE) : i \in p .. next - 1}
    /\ \/ next > Providers /\ look' = [look EXCEPT ![w] = Idle]
       \/ /\ next <= Providers /\ Due(next, q)
          /\ look' = [look EXCEPT ![w] =
               [phase |-> "asking", q |-> q, p |-> next, cached |-> cache'[<<next, Key[q]>>],
                request |-> 1, retried |-> FALSE, refused |-> FALSE, ends |-> {}]]

Start(w, q) ==
  /\ look[w] = Idle /\ ~aborted /\ runs > 0
  /\ lookups < MaxLookups /\ lookups' = lookups + 1
  /\ UNCHANGED <<known, cache, refusals, day, runs, aborted>>
  /\ Onward(w, q, 1, {})

\* search returned: the count starts over, the answer is kept, empty or not.
Returned(w, results, ends) ==
  LET l == look[w]  row == Fetched(l.q, results, ends) IN
  /\ refusals' = [refusals EXCEPT ![l.p] = 0]
  /\ cache' = [cache EXCEPT ![<<l.p, Key[l.q]>>] = row]
  /\ Onward(w, l.q, l.p + 1, {Use(l.p, l.q, row, FALSE, FALSE)})

\* A faulty variant for mutation: a refusal is kept as an empty answer.
RefusedIsKept(w) ==
  LET l == look[w] IN
  /\ refusals' = [refusals EXCEPT ![l.p] = @ + 1]
  /\ cache' = [cache EXCEPT ![<<l.p, Key[l.q]>>] = Fetched(l.q, {}, {"answer"})]
  /\ Onward(w, l.q, l.p + 1, {Use(l.p, l.q, l.cached, FALSE, TRUE)})

\* search threw a refusal: it is counted, and the row of old stands in.
Refused(w) ==
  LET l == look[w] IN
  /\ refusals' = [refusals EXCEPT ![l.p] = @ + 1]
  /\ UNCHANGED cache
  /\ Onward(w, l.q, l.p + 1, {Use(l.p, l.q, l.cached, FALSE, TRUE)})

\* A request ended with nothing: the provider asks the next way, or is done.
Empty(w, how) ==
  LET l == look[w] IN
  IF l.request < Len(Asked[l.p][l.q])
    THEN /\ look' = [look EXCEPT ![w] = [l EXCEPT !.request = l.request + 1, !.phase = "asking",
                       !.retried = FALSE, !.refused = FALSE, !.ends = l.ends \cup {how}]]
         /\ used' = {}
         /\ UNCHANGED <<cache, refusals>>
    ELSE Returned(w, {}, l.ends \cup {how})

--------------------------------------------------------------------------------
(***************************************************************************)
(* getJson: how a request may end.                                         *)
(***************************************************************************)
Asking(w) == look[w] # Idle /\ look[w].phase = "asking" /\ ~aborted

\* The answer, or a 404.
Answer(w) ==
  LET l == look[w]  x == Asked[l.p][l.q][l.request] IN
  /\ Asking(w)
  /\ IF known[l.p][x] = Never THEN Empty(w, "answer")
     ELSE Returned(w, World[l.p][x], l.ends \cup {"answer"})
  /\ UNCHANGED <<known, day, runs, aborted, lookups>>

\* The last attempt is over and no answer came.
Exhausted(w, refused) == IF refused THEN Refused(w) ELSE Empty(w, "outage")

\* A 5xx, a timeout, no connection, or a 429, which is a refusal if the other
\* attempt does no better.
Fails(w, limited) ==
  LET l == look[w]  refused == l.refused \/ limited IN
  /\ Asking(w)
  /\ IF l.retried THEN Exhausted(w, refused)
     ELSE /\ look' = [look EXCEPT ![w] = [l EXCEPT !.phase = "pausing", !.refused = refused]]
          /\ used' = {}
          /\ UNCHANGED <<cache, refusals>>
  /\ UNCHANGED <<known, day, runs, aborted, lookups>>

\* A 4xx of another kind is not tried again and not told from having no answer,
\* even when the attempt before it was refused.
Rejected(w) ==
  Asking(w) /\ Empty(w, "outage") /\ UNCHANGED <<known, day, runs, aborted, lookups>>

\* A 403 is not tried again.
Denied(w) == Asking(w) /\ Refused(w) /\ UNCHANGED <<known, day, runs, aborted, lookups>>

Wake(w) ==
  /\ look[w] # Idle /\ look[w].phase = "pausing" /\ ~aborted
  /\ look' = [look EXCEPT ![w] = [@ EXCEPT !.phase = "asking", !.retried = TRUE]]
  /\ used' = {}
  /\ UNCHANGED <<known, cache, refusals, day, runs, aborted, lookups>>

\* A stop fails the request or the pause it finds, and nothing is kept.
Abandon(w) ==
  /\ look[w] # Idle /\ aborted
  /\ look' = [look EXCEPT ![w] = Idle]
  /\ used' = {}
  /\ UNCHANGED <<known, cache, refusals, day, runs, aborted, lookups>>

--------------------------------------------------------------------------------
(***************************************************************************)
(* Runs and days.                                                          *)
(***************************************************************************)
Quiet == \A w \in Workers : look[w] = Idle

Stop == /\ ~aborted /\ ~Quiet /\ aborted' = TRUE /\ used' = {}
        /\ UNCHANGED <<known, cache, refusals, day, look, runs, lookups>>

\* The run before ends, serve's retention drops what is older than the cache
\* keeps (pruneLookups), and a run with a count of its own begins.
NewRun(prunes) ==
  /\ Quiet /\ runs < MaxRuns
  /\ runs' = runs + 1 /\ aborted' = FALSE /\ used' = {}
  /\ refusals' = [p \in Order |-> 0]
  /\ cache' = [c \in DOMAIN cache |->
                 IF prunes /\ day - cache[c].at > CacheDays THEN None ELSE cache[c]]
  /\ UNCHANGED <<known, day, look, lookups>>

\* A day passes, between lookups, and a provider may have learned of a book.
Tick ==
  /\ Quiet /\ day < MaxDay /\ day' = day + 1 /\ used' = {}
  /\ \/ UNCHANGED known
     \/ \E p \in Order : \E x \in DOMAIN World[p] :
          /\ known[p][x] = Never /\ World[p][x] # {}
          /\ known' = [known EXCEPT ![p][x] = day']
  /\ UNCHANGED <<cache, refusals, look, runs, aborted, lookups>>

Init ==
  /\ known = [p \in Order |-> [x \in DOMAIN World[p] |-> Never]]
  /\ cache = [c \in Order \X Keys |-> None]
  /\ refusals = [p \in Order |-> 0]
  /\ day = 0 /\ runs = 0 /\ lookups = 0 /\ aborted = FALSE /\ used = {}
  /\ look = [w \in Workers |-> Idle]

Step(w) == Answer(w) \/ Rejected(w) \/ Denied(w) \/ Wake(w) \/ Abandon(w)
             \/ \E limited \in BOOLEAN : Fails(w, limited)

Next ==
  \/ \E w \in Workers : Step(w) \/ \E q \in Questions : Start(w, q)
  \/ \E prunes \in BOOLEAN : NewRun(prunes)
  \/ Stop \/ Tick

Spec == Init /\ [][Next]_vars

--------------------------------------------------------------------------------
(***************************************************************************)
(* Properties.                                                             *)
(***************************************************************************)
\* "Misses expire sooner than hits": what a provider has known for a quarter of
\* the retention, and for a day at least, is not taken for unknown, unless the
\* provider refused or was given up on, or the empty row was left by an outage or
\* by a title the book no longer has (its identifier, the key, is the same).
NewsArrives ==
  \A u \in used : \A i \in DOMAIN Asked[u.p][u.q] :
    LET since == known[u.p][Asked[u.p][u.q][i]] IN
    (u.row.results = {} /\ since # Never /\ day > since /\ 4 * (day - since) >= CacheDays)
      => u.gaveUp \/ u.failed \/ "outage" \in u.row.ends \/ u.row.q # u.q

\* An answer older than the retention is used of a provider that refuses only.
OldAnswersAreALastResort ==
  \A u \in used : (u.row # None /\ day - u.row.at >= CacheDays) => u.gaveUp \/ u.failed

\* An answer is used for as long as it deserves and no longer, by the clock and by
\* what the provider did since it was written: a hit for the retention, a miss for
\* a quarter of it, and beyond that only in place of a provider that refuses
\* (core/lookup.ts ttlFor, cached).
AnswersAreTimely == NewsArrives /\ OldAnswersAreALastResort

\* With so many lookups in flight, a provider that only refuses is asked until
\* GIVE_UP_AFTER refusals and by those already under way, and no more.
RefusalsAreBounded ==
  \A p \in Order : refusals[p] <= GiveUpAfter - 1 + Cardinality(Workers)

\* A row says what the provider said when it was written: a hit is one of its
\* answers, a miss is never a refusal alone, and where the provider did know the
\* answer, an outage or a status the request takes for one.
RowsAreAnswers ==
  \A p \in Order, k \in Keys :
    LET row == cache[<<p, k>>]
        knew(x) == known[p][x] \in 0 .. row.at
        requests == {Asked[p][row.q][i] : i \in DOMAIN Asked[p][row.q]}
    IN row # None =>
         IF row.hit THEN \E x \in requests : knew(x) /\ row.results = World[p][x]
         ELSE "outage" \in row.ends \/ \A x \in requests : ~knew(x)

================================================================================
