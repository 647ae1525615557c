-------------------------------- MODULE MCSweep ---------------------------------
(***************************************************************************)
(* Two books for Sweep: one rated and written by two people, one blank.    *)
(***************************************************************************)
EXTENDS Sweep

MCValues == [tags |-> {"mine", "age", "work"}, blurb |-> {"text", "other"},
             names |-> {"ann", "bob"}]
MCShelf == [b \in Books |->
  IF b = "pair" THEN [tags |-> {"mine", "age"}, blurb |-> {"text"}, names |-> {"ann", "bob"}]
  ELSE [tags |-> {}, blurb |-> {}, names |-> {"ann"}]]

=================================================================================
