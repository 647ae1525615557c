----------------------------- MODULE MCPlanReplay -----------------------------
(***************************************************************************)
(* Small libraries and recorded runs for model checking PlanReplay.        *)
(***************************************************************************)
EXTENDS PlanReplay, TLC

CONSTANT b1

OneBook == {b1}
Titles == {"title"}
TwoFields == {"title", "subtitle"}
TwoTags == {"adult", "mine"}
Spellings == {"", "old", "new"}

Book(title, subtitle, tags) ==
  [text |-> ("title" :> title @@ "subtitle" :> subtitle), tags |-> tags]
TitledBook(title, tags) == [text |-> ("title" :> title), tags |-> tags]

Changes(kind, change) == [kind |-> kind, change |-> change, added |-> {}, removed |-> {}]
Rating(added, removed) ==
  [kind |-> "rate", change |-> [f \in {} |-> ""], added |-> added, removed |-> removed]
Becomes(from, to) == [from |-> from, to |-> to, additive |-> FALSE]

InterchangeableWorkers == Permutations(Workers)

\* One book, a metadata run that fills its title and a rating.
MixedLibrary == b1 :> TitledBook("", {})
MixedRuns ==
  << b1 :> Changes("metadata", "title" :> Becomes("", "new")),
     b1 :> Rating({"adult"}, {}) >>

\* One book, a normalize of its title and blank subtitle, and a rating.
StudiedLibrary == b1 :> Book("old", "", {"mine"})
StudiedRuns ==
  << b1 :> Changes("normalize", "title" :> Becomes("old", "new")
                                @@ "subtitle" :> Becomes("", "new")),
     b1 :> Rating({"adult"}, {}) >>

\* One book, and two metadata runs that want the same title: one was decided when
\* the title was the old one, the other when it was blank.
NoTags == {}
ReturningLibrary == b1 :> TitledBook("old", {})
ReturningRuns ==
  << b1 :> Changes("metadata", "title" :> Becomes("old", "new")),
     b1 :> Changes("metadata", "title" :> Becomes("", "new")) >>

================================================================================
