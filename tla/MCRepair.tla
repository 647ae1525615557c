-------------------------------- MODULE MCRepair --------------------------------
(***************************************************************************)
(* A small library for Repair: a folder book with one file, or with three  *)
(* of which one is excluded, and a bare file; one file of each is listed   *)
(* twice, and a spare inode lets the storage move again.                   *)
(***************************************************************************)
EXTENDS Repair, TLC

MCIno == 1 .. 7
MCCopy == <<"a", "b", "c", "a", "a", "d", "d">>
MCLength == <<2, 3, 1, 2, 2, 4, 4>>

Doubled(live, dead, off, chapters) ==
  [disk |-> live, recs |-> live \cup dead, off |-> off,
   length |-> Total(live \cup dead), chapters |-> chapters, changed |-> FALSE]

MCShelf ==
  ("folder" :> {Doubled({1, 2, 3}, {4}, {3}, <<2, 5, 8>>),
                Doubled({1}, {4}, {}, <<2, 4>>)})
  @@ ("bare" :> {Doubled({6}, {7}, {}, <<3, 8>>)})
MCLibraryOf == [b \in Books |-> "library"]

ASSUME EveryFileIsListed == Listed

=================================================================================
