------------------------------ MODULE RunViewProofs -------------------------------
(***************************************************************************)
(* Proofs about the page of a run, in two parts that share no variable.    *)
(*                                                                         *)
(* Its log, for any limit of a poll, any number of lines, of polls on      *)
(* their way and of upsets: a page that tails a log has no hole before the *)
(* last line it saw.  The invariant says that every poll asked for what    *)
(* comes after a covered line, and that an answer is a run of consecutive  *)
(* lines.                                                                  *)
(*                                                                         *)
(* Its report, for any runs, books, filters, clicks and lost answers: what *)
(* is ticked or about to be applied was on the screen.  The invariant says *)
(* whose answers the network still holds.                                  *)
(***************************************************************************)
EXTENDS RunPage, LogTail, TLAPS

\* Lines that are on the page, or that an answer left out for its limit.
Covered(st, sk, line) == (\E j \in DOMAIN st.shown : st.shown[j] = line) \/ line \in sk

\* Consecutive lines, from the first of them.
Consecutive(lines) ==
  \A line \in Nat : lines[1] <= line /\ line <= lines[Len(lines)] =>
    \E j \in 1 .. Len(lines) : lines[j] = line

IsReply(q) == /\ q = [after |-> q.after, lines |-> q.lines]
              /\ q.after \in Nat /\ q.lines \in Seq(Nat)
              /\ Len(q.lines) > 0 => Consecutive(q.lines)

IsStream(st) == /\ st = [shown |-> st.shown, lastId |-> st.lastId, error |-> st.error]
                /\ st.shown \in Seq(Nat) /\ st.lastId \in Nat

Replies == {q \in [after : Nat, lines : Seq(Nat)] : IsReply(q)}

TableInv == buffer \in Nat /\ logs \in Nat
StreamInv == IsStream(stream) /\ \A line \in 1 .. stream.lastId : Covered(stream, skipped, line)
NetInv == /\ polls \in Seq(Replies)
          /\ \A k \in 1 .. Len(polls) :
               /\ polls[k].after <= logs
               /\ \A line \in 1 .. polls[k].after : Covered(stream, skipped, line)
LastInv == stream.lastId <= logs
LinesInv == \A k \in 1 .. Len(polls) : \A j \in 1 .. Len(polls[k].lines) : polls[k].lines[j] <= logs

Inv == TableInv /\ StreamInv /\ NetInv /\ LastInv /\ LinesInv

--------------------------------------------------------------------------------
\* The smaller of two numbers is one of them.
LEMMA MinOfTwo == ASSUME NEW a \in Nat, NEW b \in Nat PROVE Min({a, b}) \in {a, b}
<1>1. \E x \in {a, b} : \A y \in {a, b} : x =< y
  OBVIOUS
<1>2. QED
  BY <1>1 DEF Min

\* A poll brings consecutive lines of the table.
LEMMA ListIsReply ==
  ASSUME Limit \in Nat, logs \in Nat, NEW after \in Nat, after <= logs
  PROVE  /\ List(after) \in Replies
         /\ List(after).after = after
         /\ \A j \in 1 .. Len(List(after).lines) : List(after).lines[j] <= logs
<1> DEFINE n == Min({Limit, logs - after})
<1> DEFINE lines == [k \in 1 .. n |-> (logs - n) + k]
<1>1. n \in Nat /\ n <= logs
  <2>1. logs - after \in Nat
    OBVIOUS
  <2>2. \A m \in Nat : Min({Limit, m}) \in {Limit, m}
    BY MinOfTwo
  <2>3. Min({Limit, logs - after}) <= logs - after
    <3>1. \E x \in {Limit, logs - after} : \A y \in {Limit, logs - after} : x =< y
      BY <2>1
    <3>2. QED
      BY <3>1, <2>1 DEF Min
  <2>4. QED
    BY <2>1, <2>2, <2>3
<1>2. List(after) = [after |-> after, lines |-> lines]
  BY DEF List
<1> HIDE DEF n
<1>3. lines \in Seq(Nat) /\ Len(lines) = n /\ \A j \in 1 .. n : lines[j] = (logs - n) + j
  BY <1>1
<1>4. n > 0 => Consecutive(lines)
  <2> SUFFICES ASSUME n > 0, NEW line \in Nat, lines[1] <= line, line <= lines[n]
               PROVE  \E j \in 1 .. n : lines[j] = line
    BY <1>3 DEF Consecutive
  <2>1. line - (logs - n) \in 1 .. n
    BY <1>1, <1>3
  <2>2. lines[line - (logs - n)] = line
    BY <2>1, <1>1, <1>3
  <2>3. QED
    BY <2>1, <2>2
<1>5. QED
  BY <1>1, <1>2, <1>3, <1>4 DEF Replies, IsReply

\* What is left of the polls when one is answered were polls before.
LEMMA WithoutOne ==
  ASSUME NEW k \in 1 .. Len(polls), polls \in Seq(Replies)
  PROVE  /\ Without(k) \in Seq(Replies)
         /\ \A j \in 1 .. Len(Without(k)) : \E i \in 1 .. Len(polls) : Without(k)[j] = polls[i]
<1> DEFINE s == SubSeq(polls, 1, k - 1)
<1> DEFINE t == SubSeq(polls, k + 1, Len(polls))
<1>1. s \in Seq(Replies) /\ Len(s) = k - 1 /\ \A j \in 1 .. k - 1 : s[j] = polls[j]
  OBVIOUS
<1>2. t \in Seq(Replies) /\ Len(t) = Len(polls) - k /\ \A j \in 1 .. Len(polls) - k : t[j] = polls[k + j]
  OBVIOUS
<1>3. Without(k) = s \o t
  BY DEF Without, RemoveAt
<1> HIDE DEF s, t
<1>4. \A j \in 1 .. Len(s \o t) : \E i \in 1 .. Len(polls) : (s \o t)[j] = polls[i]
  <2> SUFFICES ASSUME NEW j \in 1 .. Len(s \o t) PROVE \E i \in 1 .. Len(polls) : (s \o t)[j] = polls[i]
    OBVIOUS
  <2>1. CASE j <= k - 1
    <3>1. (s \o t)[j] = polls[j]
      BY <1>1, <1>2, <2>1
    <3>2. QED
      BY <3>1, <2>1
  <2>2. CASE j > k - 1
    <3>1. (s \o t)[j] = t[j - (k - 1)] /\ j - (k - 1) \in 1 .. Len(polls) - k
      BY <1>1, <1>2, <2>2
    <3>2. t[j - (k - 1)] = polls[k + (j - (k - 1))]
      BY <1>2, <3>1
    <3>3. k + (j - (k - 1)) = j + 1 /\ j + 1 \in 1 .. Len(polls)
      BY <3>1
    <3>4. QED
      BY <3>1, <3>2, <3>3
  <2>3. QED
    BY <2>1, <2>2
<1>5. s \o t \in Seq(Replies)
  BY <1>1, <1>2
<1>6. QED
  BY <1>3, <1>4, <1>5

\* What stands in one of two sequences stands in the two joined.
LEMMA Joined ==
  ASSUME NEW s \in Seq(Nat), NEW t \in Seq(Nat), NEW line
  PROVE  /\ (\E j \in 1 .. Len(s) : s[j] = line) => \E j \in DOMAIN (s \o t) : (s \o t)[j] = line
         /\ (\E j \in 1 .. Len(t) : t[j] = line) => \E j \in DOMAIN (s \o t) : (s \o t)[j] = line
<1>1. DOMAIN (s \o t) = 1 .. Len(s) + Len(t)
  OBVIOUS
<1>2. ASSUME NEW j \in 1 .. Len(s), s[j] = line PROVE \E i \in DOMAIN (s \o t) : (s \o t)[i] = line
  <2>1. j \in DOMAIN (s \o t) /\ (s \o t)[j] = s[j]
    BY <1>1
  <2>2. QED
    BY <1>2, <2>1
<1>3. ASSUME NEW j \in 1 .. Len(t), t[j] = line PROVE \E i \in DOMAIN (s \o t) : (s \o t)[i] = line
  <2>1. Len(s) + j \in DOMAIN (s \o t) /\ (s \o t)[Len(s) + j] = t[j]
    BY <1>1
  <2>2. QED
    BY <1>3, <2>1
<1>4. QED
  BY <1>2, <1>3

--------------------------------------------------------------------------------
LEMMA InitInv == TailInit => Inv
<1> SUFFICES ASSUME TailInit PROVE Inv
  OBVIOUS
<1> USE LogTailAssumption DEF LogTailAssumption
<1>1. TableInv /\ LastInv /\ StreamInv
  BY DEF TailInit, Fresh, TableInv, LastInv, StreamInv, IsStream
<1>2. List(0) \in Replies /\ List(0).after = 0
      /\ \A j \in 1 .. Len(List(0).lines) : List(0).lines[j] <= logs
  BY <1>1, ListIsReply DEF TableInv
<1>3. polls = <<List(0)>>
  BY DEF TailInit
<1>4. NetInv /\ LinesInv
  BY <1>1, <1>2, <1>3 DEF NetInv, LinesInv, TableInv
<1>5. QED
  BY <1>1, <1>4 DEF Inv

\* A poll sent now asks for what comes after what is covered.
LEMMA ListFits ==
  ASSUME Inv
  PROVE  /\ List(stream.lastId) \in Replies
         /\ List(stream.lastId).after = stream.lastId
         /\ \A j \in 1 .. Len(List(stream.lastId).lines) : List(stream.lastId).lines[j] <= logs
BY ListIsReply, LogTailAssumption DEF LogTailAssumption, Inv, TableInv, StreamInv, IsStream, LastInv

\* Starting, saying, flushing, ending and asking touch nothing the page has.
LEMMA RunStep ==
  ASSUME Inv, Begin \/ Say \/ Flush \/ Finish \/ Ask
  PROVE  Inv'
<1>1. UNCHANGED <<stream, polls, skipped>> /\ logs' \in Nat /\ logs' >= logs /\ buffer' \in Nat
  BY DEF Inv, TableInv, Begin, Say, Flush, Finish, Ask
<1>2. TableInv' /\ StreamInv' /\ LastInv'
  BY <1>1 DEF Inv, TableInv, StreamInv, IsStream, LastInv, Covered
<1>3. NetInv'
  <2>1. \A k \in 1 .. Len(polls) : polls[k].after \in Nat
    BY DEF Inv, NetInv, Replies
  <2>2. \A k \in 1 .. Len(polls) : polls[k].after <= logs'
    BY <1>1, <2>1 DEF Inv, TableInv, NetInv
  <2>3. QED
    BY <1>1, <2>2 DEF Inv, NetInv, Covered
<1>4. LinesInv'
  <2>1. \A k \in 1 .. Len(polls) : polls[k].lines \in Seq(Nat)
    BY DEF Inv, NetInv, Replies
  <2>2. QED
    BY <1>1, <2>1 DEF Inv, TableInv, LinesInv
<1>5. QED
  BY <1>2, <1>3, <1>4 DEF Inv

LEMMA PollStep == ASSUME Inv, Poll PROVE Inv'
<1> DEFINE q == List(stream.lastId)
<1>1. UNCHANGED <<buffer, logs, stream, skipped>> /\ polls' = Append(polls, q)
  BY DEF Poll
<1>2. q \in Replies /\ q.after = stream.lastId /\ \A j \in 1 .. Len(q.lines) : q.lines[j] <= logs
  BY ListFits
<1> HIDE DEF q
<1>3. TableInv' /\ StreamInv' /\ LastInv'
  BY <1>1 DEF Inv, TableInv, StreamInv, IsStream, LastInv, Covered
<1>4. polls' \in Seq(Replies) /\ Len(polls') = Len(polls) + 1
      /\ \A k \in 1 .. Len(polls') : polls'[k] = IF k = Len(polls) + 1 THEN q ELSE polls[k]
  BY <1>1, <1>2 DEF Inv, NetInv
<1>5. NetInv'
  <2> SUFFICES ASSUME NEW k \in 1 .. Len(polls')
               PROVE  /\ polls'[k].after <= logs
                      /\ \A line \in 1 .. polls'[k].after : Covered(stream, skipped, line)
    BY <1>1, <1>4 DEF NetInv, Covered
  <2>1. CASE k = Len(polls) + 1
    BY <1>2, <1>4, <2>1 DEF Inv, StreamInv, LastInv
  <2>2. CASE k # Len(polls) + 1
    BY <1>4, <2>2 DEF Inv, NetInv
  <2>3. QED
    BY <2>1, <2>2
<1>6. LinesInv'
  BY <1>1, <1>2, <1>4 DEF Inv, LinesInv, NetInv
<1>7. QED
  BY <1>3, <1>5, <1>6 DEF Inv

\* One fresh poll on its way, over a page and holes that cover what it asks after.
LEMMA OnePoll ==
  ASSUME LogTailAssumption, TableInv, TableInv', logs' = logs, StreamInv', LastInv',
         NEW after \in Nat, after <= logs, polls' = <<List(after)>>,
         \A line \in 1 .. after : Covered(stream', skipped', line)
  PROVE  Inv'
<1>1. List(after) \in Replies /\ List(after).after = after
      /\ \A j \in 1 .. Len(List(after).lines) : List(after).lines[j] <= logs
  BY ListIsReply DEF LogTailAssumption, TableInv
<1>2. NetInv' /\ LinesInv'
  BY <1>1 DEF NetInv, LinesInv
<1>3. QED
  BY <1>2 DEF Inv

LEMMA LearnStep == ASSUME Inv, NEW going \in BOOLEAN, Learn(going) PROVE Inv'
<1>1. UNCHANGED <<buffer, logs, stream, skipped>>
  BY DEF Learn
<1>2. TableInv' /\ StreamInv' /\ LastInv'
  BY <1>1 DEF Inv, TableInv, StreamInv, IsStream, LastInv, Covered
<1>3. CASE going = live
  <2>1. polls' = polls
    BY <1>3 DEF Learn
  <2>2. NetInv' /\ LinesInv'
    BY <1>1, <2>1 DEF Inv, NetInv, LinesInv, Covered
  <2>3. QED
    BY <1>2, <2>2 DEF Inv
<1>4. CASE going # live
  <2>1. polls' = <<List(stream.lastId)>>
    BY <1>4 DEF Learn
  <2>2. stream.lastId \in Nat /\ stream.lastId <= logs
        /\ \A line \in 1 .. stream.lastId : Covered(stream', skipped', line)
    BY <1>1 DEF Inv, StreamInv, IsStream, LastInv
  <2>3. QED
    BY <1>1, <1>2, <2>1, <2>2, OnePoll, LogTailAssumption DEF Inv
<1>5. QED
  BY <1>3, <1>4

LEMMA RemountStep == ASSUME Inv, Remount PROVE Inv'
<1>1. UNCHANGED <<buffer, logs>> /\ stream' = Fresh /\ skipped' = {} /\ polls' = <<List(0)>>
  BY DEF Remount
<1>2. TableInv' /\ StreamInv' /\ LastInv'
  BY <1>1 DEF Inv, TableInv, StreamInv, IsStream, LastInv, Fresh
<1>3. QED
  BY <1>1, <1>2, OnePoll, LogTailAssumption DEF Inv, TableInv

LEMMA LostStep == ASSUME Inv, NEW k \in DOMAIN polls, Lost(k) PROVE Inv'
<1>1. k \in 1 .. Len(polls) /\ polls \in Seq(Replies)
  BY DEF Inv, NetInv
<1>2. UNCHANGED <<buffer, logs, skipped>> /\ polls' = Without(k)
      /\ stream' = [stream EXCEPT !.error = TRUE]
  BY DEF Lost
<1>3. IsStream(stream') /\ stream'.shown = stream.shown /\ stream'.lastId = stream.lastId
  BY <1>2 DEF Inv, StreamInv, IsStream
<1>4. TableInv' /\ StreamInv' /\ LastInv'
  BY <1>2, <1>3 DEF Inv, TableInv, StreamInv, LastInv, Covered
<1>5. polls' \in Seq(Replies) /\ \A j \in 1 .. Len(polls') : \E i \in 1 .. Len(polls) : polls'[j] = polls[i]
  BY <1>1, <1>2, WithoutOne
<1>6. NetInv' /\ LinesInv'
  BY <1>2, <1>3, <1>5 DEF Inv, NetInv, LinesInv, Covered
<1>7. QED
  BY <1>4, <1>6 DEF Inv

\* An answer adds its lines, and the holes before them are holes of its limit.
LEMMA ArriveStep == ASSUME Inv, NEW k \in DOMAIN polls, Arrive(k) PROVE Inv'
<1> DEFINE q == polls[k]
<1> DEFINE n == Len(q.lines)
<1>1. k \in 1 .. Len(polls) /\ polls \in Seq(Replies) /\ q \in Replies
  BY DEF Inv, NetInv
<1>2. q.after \in Nat /\ q.lines \in Seq(Nat) /\ n \in Nat /\ (n > 0 => Consecutive(q.lines))
  BY <1>1 DEF Replies, IsReply
<1>3. UNCHANGED <<buffer, logs>> /\ polls' = Without(k)
  BY DEF Arrive
<1>4. polls' \in Seq(Replies) /\ \A j \in 1 .. Len(polls') : \E i \in 1 .. Len(polls) : polls'[j] = polls[i]
  BY <1>1, <1>3, WithoutOne
<1>5. LinesInv'
  BY <1>3, <1>4 DEF Inv, LinesInv
<1>6. CASE n = 0
  <2>1. q.lines = <<>>
    BY <1>2, <1>6
  <2>2. UNCHANGED <<stream, skipped>>
    BY <2>1 DEF Arrive
  <2>3. TableInv' /\ StreamInv' /\ LastInv' /\ NetInv'
    BY <1>3, <1>4, <2>2 DEF Inv, TableInv, StreamInv, LastInv, NetInv, Covered
  <2>4. QED
    BY <1>5, <2>3 DEF Inv
<1>7. CASE n > 0
  <2>1. q.lines # <<>>
    BY <1>2, <1>7
  <2>2. stream' = [shown |-> stream.shown \o q.lines, lastId |-> q.lines[n], error |-> FALSE]
        /\ skipped' = skipped \cup (q.after + 1 .. q.lines[1] - 1)
    BY <2>1 DEF Arrive, Last
  <2>3. stream.shown \in Seq(Nat)
    BY DEF Inv, StreamInv, IsStream
  <2>4. IsStream(stream') /\ stream'.lastId = q.lines[n]
    BY <1>2, <1>7, <2>2, <2>3 DEF IsStream
  <2>5. stream'.shown = stream.shown \o q.lines
    BY <2>2
  <2>6. \A line \in Nat : (\E j \in 1 .. n : q.lines[j] = line) => Covered(stream', skipped', line)
    <3> SUFFICES ASSUME NEW line \in Nat, \E j \in 1 .. n : q.lines[j] = line
                 PROVE  Covered(stream', skipped', line)
      OBVIOUS
    <3>1. \E j \in DOMAIN (stream.shown \o q.lines) : (stream.shown \o q.lines)[j] = line
      BY <1>2, <2>3, Joined
    <3>2. \E j \in DOMAIN stream'.shown : stream'.shown[j] = line
      BY <2>5, <3>1, Zenon
    <3>3. QED
      BY <3>2 DEF Covered
  <2>7. skipped \subseteq skipped' /\ (q.after + 1 .. q.lines[1] - 1) \subseteq skipped'
    BY <2>2
  <2>8. \A line \in Nat : Covered(stream, skipped, line) => Covered(stream', skipped', line)
    <3> SUFFICES ASSUME NEW line \in Nat, Covered(stream, skipped, line)
                 PROVE  Covered(stream', skipped', line)
      OBVIOUS
    <3>1. CASE line \in skipped
      BY <2>7, <3>1 DEF Covered
    <3>2. CASE \E j \in DOMAIN stream.shown : stream.shown[j] = line
      <4>1. \E j \in 1 .. Len(stream.shown) : stream.shown[j] = line
        BY <2>3, <3>2
      <4>2. \E j \in DOMAIN (stream.shown \o q.lines) : (stream.shown \o q.lines)[j] = line
        BY <1>2, <2>3, <4>1, Joined
      <4>3. \E j \in DOMAIN stream'.shown : stream'.shown[j] = line
        BY <2>5, <4>2, Zenon
      <4>4. QED
        BY <4>3 DEF Covered
    <3>3. QED
      BY <3>1, <3>2 DEF Covered
  <2>9. \A line \in 1 .. q.after : Covered(stream', skipped', line)
    BY <1>1, <2>8 DEF Inv, NetInv
  <2>10. \A line \in Nat : q.after < line /\ line < q.lines[1] => Covered(stream', skipped', line)
    <3>1. q.lines[1] \in Nat
      BY <1>2, <1>7
    <3>2. \A line \in Nat : q.after < line /\ line < q.lines[1] => line \in q.after + 1 .. q.lines[1] - 1
      BY <1>2, <3>1
    <3>3. QED
      BY <2>7, <3>2 DEF Covered
  <2>11. \A line \in Nat : q.lines[1] <= line /\ line <= q.lines[n] => Covered(stream', skipped', line)
    <3> SUFFICES ASSUME NEW line \in Nat, q.lines[1] <= line, line <= q.lines[n]
                 PROVE  Covered(stream', skipped', line)
      OBVIOUS
    <3>1. PICK j \in 1 .. n : q.lines[j] = line
      BY <1>2, <1>7 DEF Consecutive
    <3>2. QED
      BY <2>6, <3>1
  <2>12. \A line \in 1 .. stream'.lastId : Covered(stream', skipped', line)
    <3>1. q.lines[1] \in Nat /\ q.lines[n] \in Nat
      BY <1>2, <1>7
    <3>2. QED
      BY <1>2, <2>4, <2>9, <2>10, <2>11, <3>1
  <2>13. TableInv' /\ StreamInv' /\ LastInv'
    <3>1. q.lines[n] <= logs
      BY <1>1, <1>2, <1>7 DEF Inv, LinesInv
    <3>2. QED
      BY <1>3, <2>4, <2>12, <3>1 DEF Inv, TableInv, StreamInv, LastInv
  <2>14. NetInv'
    <3>1. \A i \in 1 .. Len(polls) : polls[i].after \in Nat /\ polls[i].after <= logs
          /\ \A line \in 1 .. polls[i].after : Covered(stream', skipped', line)
      BY <1>1, <2>8 DEF Inv, NetInv, Replies
    <3>2. QED
      BY <1>3, <1>4, <3>1 DEF NetInv
  <2>15. QED
    BY <1>5, <2>13, <2>14 DEF Inv
<1>8. QED
  BY <1>2, <1>6, <1>7

LEMMA NextInv == Inv /\ [TailNext]_tailVars => Inv'
<1> SUFFICES ASSUME Inv, [TailNext]_tailVars PROVE Inv'
  OBVIOUS
<1>1. CASE Begin \/ Say \/ Flush \/ Finish \/ Ask
  BY <1>1, RunStep
<1>2. CASE Poll
  BY <1>2, PollStep
<1>3. CASE Remount
  BY <1>3, RemountStep
<1>4. CASE \E k \in DOMAIN polls : Arrive(k)
  BY <1>4, ArriveStep
<1>5. CASE \E k \in DOMAIN polls : Lost(k)
  BY <1>5, LostStep
<1>6. CASE \E going \in BOOLEAN : Learn(going)
  BY <1>6, LearnStep
<1>7. CASE UNCHANGED tailVars
  BY <1>7 DEF tailVars, Inv, TableInv, StreamInv, IsStream, NetInv, LastInv, LinesInv, Covered
<1>8. QED
  BY <1>1, <1>2, <1>3, <1>4, <1>5, <1>6, <1>7 DEF TailNext

LEMMA InvNoHole == Inv => NoHole
<1> SUFFICES ASSUME Inv, NEW line \in 1 .. stream.lastId
             PROVE  line \in Range(stream.shown) \cup skipped
  BY DEF NoHole
<1>1. Covered(stream, skipped, line)
  BY DEF Inv, StreamInv
<1>2. QED
  BY <1>1 DEF Covered, Range

\* Whatever the limit and the number of polls that cross, are lost or are
\* disowned, every line up to the last one a page saw is on the page, or one an
\* answer left out for its limit (components/LogStream.tsx 19-47).
THEOREM TailHasNoHole == TailSpec => []NoHole
<1>1. TailInit => Inv
  BY InitInv
<1>2. Inv /\ [TailNext]_tailVars => Inv'
  BY NextInv
<1>3. Inv => NoHole
  BY InvNoHole
<1>4. QED
  BY <1>1, <1>2, <1>3, PTL DEF TailSpec

--------------------------------------------------------------------------------
(***************************************************************************)
(* The report.                                                             *)
(***************************************************************************)
Hooks == [data : Snapshots \cup {None}, error : BOOLEAN, loading : BOOLEAN]
Confirmings == [all : BOOLEAN, items : SUBSET Books] \cup {None}
Panels == [report : Reports \cup {None}, error : BOOLEAN, filter : Filters,
           picked : SUBSET Books, confirming : Confirmings, applying : Slots \cup {None}]
Nets == [Slots -> Request \cup {None}]

\* What a message on its way says, and to whom: an answer about a run is for
\* the page people look at, a report is for a panel that is up.
Owned(m, where, up, rs) ==
  /\ m.kind \in {"run", "first"} => m.reply \in Snapshots /\ m.reply.id = where
  /\ m.kind = "items" => m.reply \in Reports /\ up
  /\ m.kind = "cancel" => where \in Runs
  /\ m.kind = "apply" /\ m.reply \in Runs => rs[m.reply].status # "none"

AtInv == /\ at \in Runs => runs[at].status # "none"
         /\ Mounted(hook) => hook.data.id = at
ReplyInv == \A slot \in Slots : net[slot] # None => Owned(net[slot], at, Mounted(hook), runs)

\* What is shown, what is ticked and what is about to be applied was on the
\* screen, in the report of the run the page is of.
SeenBy(h, p, screen) ==
  Mounted(h) =>
    /\ ~Live(h.data) /\ p.report # None => p.report.rows \cap p.report.waiting \subseteq screen[h.data.id]
    /\ p.picked \subseteq screen[h.data.id]
    /\ p.confirming # None /\ ~p.confirming.all => p.confirming.items \subseteq screen[h.data.id]
SeenInv == SeenBy(hook, panel, onScreen)

ReportInv == TypeOK /\ AtInv /\ ReplyInv /\ SeenInv

\* Runs are born and never unborn.
Grown == \A r \in Runs : runs[r].status # "none" => runs'[r].status # "none"

\* The type invariant by the names its parts have here.
LEMMA TypeParts ==
  TypeOK <=> /\ runs \in [Runs -> Run] /\ at \in Runs \cup {Away}
             /\ hook \in Hooks /\ stopping \in BOOLEAN /\ panel \in Panels
             /\ Mounted(hook) \/ panel = NoPanel
             /\ net \in Nets
             /\ stopAsked \subseteq Runs /\ onScreen \in [Runs -> SUBSET Books]
             /\ clicks \in 0 .. MaxClicks /\ lost \in 0 .. MaxLost
BY Zenon DEF TypeOK, Hooks, Panels, Confirmings, Nets

LEMMA NoPanelFits ==
  ASSUME RunPageAssumption
  PROVE  NoPanel \in Panels /\ NoPanel.report = None /\ NoPanel.picked = {} /\ NoPanel.confirming = None
BY DEF RunPageAssumption, NoPanel, Panels, Confirmings

LEMMA InitReport == Init => ReportInv
<1> SUFFICES ASSUME Init PROVE ReportInv
  OBVIOUS
<1> USE RunPageAssumption DEF RunPageAssumption
<1>1. PICK first \in Runs :
        /\ runs = [r \in Runs |-> IF r = first THEN [Unborn EXCEPT !.status = "queued"] ELSE Unborn]
        /\ at = first
        /\ hook = NoHook /\ stopping = FALSE /\ panel = NoPanel
        /\ \E slot \in Slots :
             net = ToSlot([s \in Slots |-> None], slot, "first",
                          [id |-> first, status |-> "queued"])
        /\ stopAsked = {} /\ onScreen = [r \in Runs |-> {}]
        /\ clicks = 0 /\ lost = 0
  BY DEF Init
<1>2. runs \in [Runs -> Run] /\ runs[at].status = "queued"
  BY <1>1 DEF Run, Unborn
<1>3. hook \in Hooks /\ ~Mounted(hook) /\ panel \in Panels
  BY <1>1, NoPanelFits DEF Hooks, NoHook, Mounted
<1>4. PICK slot \in Slots :
        net = ToSlot([s \in Slots |-> None], slot, "first", [id |-> first, status |-> "queued"])
  BY <1>1
<1>5. [id |-> first, status |-> "queued"] \in Snapshots
  BY DEF Snapshots
<1>6. net \in Nets /\ \A s \in Slots : net[s] # None =>
        /\ net[s].kind = "first" /\ net[s].reply \in Snapshots /\ net[s].reply.id = first
  BY <1>4, <1>5 DEF ToSlot, Nets, Request
<1>7. TypeOK
  <2>1. stopAsked \subseteq Runs /\ onScreen \in [Runs -> SUBSET Books] /\ stopping \in BOOLEAN
    BY <1>1
  <2>2. clicks \in 0 .. MaxClicks /\ lost \in 0 .. MaxLost
    BY <1>1
  <2>3. QED
    BY <1>1, <1>2, <1>3, <1>6, <2>1, <2>2, TypeParts
<1>8. AtInv /\ ReplyInv /\ SeenInv
  BY <1>1, <1>2, <1>3, <1>6 DEF AtInv, ReplyInv, SeenInv, SeenBy, Owned
<1>9. QED
  BY <1>7, <1>8 DEF ReportInv

\* Dropping answers leaves the others; sending a request fills one slot.
LEMMA DropFacts ==
  ASSUME NEW n \in Nets, NEW kinds
  PROVE  /\ Drop(n, kinds) \in Nets
         /\ \A slot \in Slots : Drop(n, kinds)[slot] # None =>
              n[slot] # None /\ Drop(n, kinds)[slot] = n[slot] /\ n[slot].kind \notin kinds
BY DEF Drop, Nets

LEMMA ToSlotFacts ==
  ASSUME NEW n \in Nets, NEW slot \in Slots,
         NEW kind \in {"run", "first", "items", "cancel", "apply"},
         NEW reply \in Snapshots \cup Reports \cup Runs \cup {None}
  PROVE  /\ ToSlot(n, slot, kind, reply) \in Nets
         /\ \A s \in Slots : ToSlot(n, slot, kind, reply)[s] =
              IF s = slot THEN [kind |-> kind, reply |-> reply] ELSE n[s]
BY DEF ToSlot, Nets, Request

LEMMA EmptySlot ==
  ASSUME NEW n \in Nets, NEW slot \in Slots
  PROVE  /\ [n EXCEPT ![slot] = None] \in Nets
         /\ \A s \in Slots : [n EXCEPT ![slot] = None][s] = IF s = slot THEN None ELSE n[s]
BY DEF Nets

LEMMA SnapshotFits ==
  ASSUME runs \in [Runs -> Run], NEW r \in Runs, runs[r].status # "none"
  PROVE  Snapshot(r) \in Snapshots /\ Snapshot(r).id = r
BY DEF Snapshot, Snapshots, Run

LEMMA ReportFits ==
  ASSUME runs \in [Runs -> Run], NEW r \in Runs, NEW filter \in SUBSET Books
  PROVE  Report(r, filter) \in Reports
<1>1. runs[r].rows \in SUBSET Books /\ runs[r].waiting \in SUBSET Books
  BY DEF Run
<1>2. QED
  BY <1>1 DEF Report, Reports

\* A run the hook has is one of the runs; the spinner has no panel.
LEMMA HookFacts ==
  ASSUME TypeOK
  PROVE  /\ Mounted(hook) => hook.data \in Snapshots /\ hook.data.id \in Runs
         /\ ~Mounted(hook) => panel = NoPanel
BY TypeParts DEF Hooks, Mounted, Snapshots

\* The spinner, and a first load of this run.
LEMMA LoadFirstFacts ==
  ASSUME TypeOK, NEW n \in Nets, NEW r \in Runs, runs[r].status # "none", LoadFirst(r, n)
  PROVE  /\ hook' \in Hooks /\ ~Mounted(hook') /\ panel' = NoPanel /\ net' \in Nets
         /\ \A slot \in Slots : net'[slot] # None =>
              \/ /\ n[slot] # None /\ net'[slot] = n[slot]
                 /\ n[slot].kind \notin {"run", "first", "items"}
              \/ /\ net'[slot].kind = "first"
                 /\ net'[slot].reply \in Snapshots /\ net'[slot].reply.id = r
<1> DEFINE cleared == Drop(n, {"run", "first", "items"})
<1>1. PICK slot \in Slots : net' = ToSlot(cleared, slot, "first", Snapshot(r))
  BY DEF LoadFirst, Free
<1>2. Snapshot(r) \in Snapshots /\ Snapshot(r).id = r
  BY TypeParts, SnapshotFits
<1>3. /\ cleared \in Nets
      /\ \A s \in Slots : cleared[s] # None =>
           n[s] # None /\ cleared[s] = n[s] /\ n[s].kind \notin {"run", "first", "items"}
  BY DropFacts
<1> HIDE DEF cleared
<1>4. /\ net' \in Nets
      /\ \A s \in Slots : net'[s] = IF s = slot THEN [kind |-> "first", reply |-> Snapshot(r)]
                                    ELSE cleared[s]
  BY <1>1, <1>2, <1>3, ToSlotFacts
<1>5. hook' = [hook EXCEPT !.loading = TRUE] /\ panel' = NoPanel
  BY DEF LoadFirst
<1>6. hook' \in Hooks /\ ~Mounted(hook')
  BY <1>5, TypeParts DEF Hooks, Mounted
<1>7. QED
  BY <1>2, <1>3, <1>4, <1>5, <1>6

\* An answer about the run settles into the hook: the panel stays if it was up
\* and is up, and what is sent for it is a report.
LEMMA SettleFacts ==
  ASSUME RunPageAssumption, TypeOK, NEW h \in Hooks, NEW n \in Nets, Settle(h, n)
  PROVE  /\ hook' = h /\ net' \in Nets
         /\ ~Mounted(h) => panel' = NoPanel
         /\ Mounted(h) => panel' = IF Mounted(hook) THEN panel ELSE NoPanel
         /\ \A slot \in Slots : net'[slot] # None =>
              \/ n[slot] # None /\ net'[slot] = n[slot] /\ (n[slot].kind = "items" => Mounted(h))
              \/ Mounted(h) /\ net'[slot].kind = "items" /\ net'[slot].reply \in Reports
<1> DEFINE cleared == Drop(n, {"items"})
<1>1. /\ cleared \in Nets
      /\ \A s \in Slots : cleared[s] # None =>
           n[s] # None /\ cleared[s] = n[s] /\ n[s].kind \notin {"items"}
  BY DropFacts
<1>2. hook' = h
  BY DEF Settle
<1>3. CASE ~Mounted(h)
  <2>1. panel' = NoPanel /\ net' = cleared
    BY <1>3 DEF Settle
  <2>2. QED
    BY <1>1, <1>2, <1>3, <2>1
<1>4. CASE Mounted(h) /\ Reloads(hook, h)
  <2> DEFINE filter == IF Mounted(hook) THEN panel.filter ELSE Books
  <2>1. panel' = IF Mounted(hook) THEN panel ELSE NoPanel
    BY <1>4 DEF Settle
  <2>2. PICK slot \in Slots : net' = ToSlot(cleared, slot, "items", Report(h.data.id, filter))
    BY <1>4 DEF Settle, Free
  <2>3. filter \in SUBSET Books
    BY TypeParts DEF Panels, RunPageAssumption
  <2>4. h.data.id \in Runs
    BY <1>4 DEF Hooks, Mounted, Snapshots
  <2> HIDE DEF filter, cleared
  <2>5. Report(h.data.id, filter) \in Reports
    BY <2>3, <2>4, ReportFits, TypeParts
  <2>6. /\ net' \in Nets
        /\ \A s \in Slots : net'[s] =
             IF s = slot THEN [kind |-> "items", reply |-> Report(h.data.id, filter)] ELSE cleared[s]
    BY <1>1, <2>2, <2>5, ToSlotFacts
  <2>7. QED
    BY <1>1, <1>2, <1>4, <2>1, <2>5, <2>6
<1>5. CASE Mounted(h) /\ ~Reloads(hook, h)
  <2>1. panel' = panel /\ net' = n /\ Mounted(hook)
    BY <1>5 DEF Settle, Reloads
  <2>2. QED
    BY <1>2, <1>5, <2>1
<1>6. QED
  BY <1>3, <1>4, <1>5

--------------------------------------------------------------------------------
\* The server moves a run on: the page is not touched.
LEMMA ServerStep ==
  ASSUME ReportInv, NEW r \in Runs, Start(r) \/ FinishTask(r) \/ FinishApply(r)
  PROVE  ReportInv'
<1>0. TypeOK /\ runs \in [Runs -> Run]
  BY TypeParts DEF ReportInv
<1>1. UNCHANGED <<page, history>>
  BY DEF Start, FinishTask, FinishApply
<1>2. runs' \in [Runs -> Run] /\ Grown
  <2>1. CASE Start(r)
    <3>1. runs' = [runs EXCEPT ![r].status = "running"]
      BY <2>1 DEF Start
    <3>2. QED
      BY <1>0, <3>1 DEF Run, Grown
  <2>2. CASE FinishTask(r)
    <3>1. PICK waiting \in SUBSET Books :
            runs' = [runs EXCEPT ![r].status = "over", ![r].rows = Books, ![r].waiting = waiting]
      BY <2>2 DEF FinishTask
    <3>2. QED
      BY <1>0, <3>1 DEF Run, Grown
  <2>3. CASE FinishApply(r)
    <3> DEFINE src == runs[r].source
    <3>1. src \in Runs /\ runs[r] \in Run
      BY <1>0, <2>3 DEF FinishApply, Run
    <3>2. runs' = [[[runs EXCEPT ![r].status = "over"] EXCEPT ![r].rows = runs[r].items]
                     EXCEPT ![src].waiting = @ \ runs[r].items]
      BY <2>3 DEF FinishApply
    <3> HIDE DEF src
    <3> DEFINE mid == [[runs EXCEPT ![r].status = "over"] EXCEPT ![r].rows = runs[r].items]
    <3>3. mid \in [Runs -> Run] /\ \A q \in Runs : runs[q].status # "none" => mid[q].status # "none"
      BY <1>0, <3>1 DEF Run
    <3>4. runs' = [mid EXCEPT ![src].waiting = @ \ runs[r].items]
      BY <3>2
    <3> HIDE DEF mid
    <3>5. QED
      BY <3>1, <3>3, <3>4 DEF Run, Grown
  <2>4. QED
    BY <2>1, <2>2, <2>3
<1>3. /\ at' = at /\ hook' = hook /\ stopping' = stopping /\ panel' = panel /\ net' = net
      /\ stopAsked' = stopAsked /\ onScreen' = onScreen /\ clicks' = clicks /\ lost' = lost
  BY <1>1 DEF page, history
<1>4. TypeOK'
  BY <1>0, <1>2, <1>3, TypeParts DEF TypeOK, Mounted, Hooks, Panels, Confirmings, Nets
<1>5. AtInv' /\ SeenInv'
  BY <1>2, <1>3 DEF ReportInv, AtInv, SeenInv, SeenBy, Grown, Mounted, Live
<1>6. ReplyInv'
  BY <1>2, <1>3 DEF ReportInv, ReplyInv, Owned, Grown, Mounted
<1>7. QED
  BY <1>4, <1>5, <1>6 DEF ReportInv

\* A step that keeps the runs and the hook, and of the panel what was seen.
LEMMA PanelStep ==
  ASSUME ReportInv, UNCHANGED <<runs, at, hook, stopping, stopAsked, onScreen>>,
         clicks' \in 0 .. MaxClicks, lost' \in 0 .. MaxLost,
         panel' \in Panels, Mounted(hook) \/ panel' = NoPanel, net' \in Nets,
         SeenBy(hook, panel', onScreen),
         \A slot \in Slots : net'[slot] # None => Owned(net'[slot], at, Mounted(hook), runs)
  PROVE  ReportInv'
<1>1. TypeOK'
  BY TypeParts DEF ReportInv, TypeOK, Mounted, Hooks, Panels, Confirmings, Nets
<1>2. AtInv' /\ ReplyInv' /\ SeenInv'
  BY DEF ReportInv, AtInv, ReplyInv, SeenInv, SeenBy, Mounted, Owned, Live
<1>3. QED
  BY <1>1, <1>2 DEF ReportInv

LEMMA PollStepReport == ASSUME ReportInv, PollRun PROVE ReportInv'
<1>1. PICK slot \in Slots : net' = ToSlot(net, slot, "run", Snapshot(at))
  BY DEF PollRun, Free
<1>2. Snapshot(at) \in Snapshots /\ Snapshot(at).id = at
  BY TypeParts, SnapshotFits DEF ReportInv, AtInv, PollRun
<1>3. /\ net' \in Nets
      /\ \A s \in Slots : net'[s] = IF s = slot THEN [kind |-> "run", reply |-> Snapshot(at)]
                                    ELSE net[s]
  BY <1>1, <1>2, ToSlotFacts, TypeParts DEF ReportInv
<1>4. \A s \in Slots : net'[s] # None => Owned(net'[s], at, Mounted(hook), runs)
  BY <1>2, <1>3 DEF ReportInv, ReplyInv, Owned
<1>5. UNCHANGED <<runs, at, hook, stopping, panel, stopAsked, onScreen, clicks, lost>>
  BY DEF PollRun, server, history
<1>6. QED
  BY <1>3, <1>4, <1>5, PanelStep, TypeParts DEF ReportInv, SeenInv

\* What is on the screen is noted, and nothing is struck out.
LEMMA NoteFacts ==
  ASSUME onScreen \in [Runs -> SUBSET Books], hook' \in Hooks, panel' \in Panels, NoteScreen
  PROVE  /\ onScreen' \in [Runs -> SUBSET Books]
         /\ \A r \in Runs : onScreen[r] \subseteq onScreen'[r]
         /\ Mounted(hook') /\ ~Live(hook'.data) /\ panel'.report # None =>
              panel'.report.rows \cap panel'.report.waiting \subseteq onScreen'[hook'.data.id]
<1>1. CASE Shows'
  <2>1. hook'.data.id \in Runs
    BY <1>1 DEF Shows, Mounted, Hooks, Snapshots
  <2>2. Selectable' \in SUBSET Books
    BY <1>1 DEF Shows, Selectable, Panels, Reports
  <2>3. onScreen' = [onScreen EXCEPT ![hook'.data.id] = @ \cup Selectable']
    BY <1>1 DEF NoteScreen
  <2>4. QED
    BY <2>1, <2>2, <2>3 DEF Selectable
<1>2. CASE ~Shows'
  BY <1>2 DEF NoteScreen, Shows, Mounted, Live
<1>3. QED
  BY <1>1, <1>2

\* An answer about the run: it is of the run the page is of, so what was ticked
\* stays ticked for the run it was ticked for.
LEMMA RunArrivesStep ==
  ASSUME ReportInv, NEW slot \in Slots, RunArrives(slot) PROVE ReportInv'
<1> DEFINE m == net[slot]
<1> DEFINE h == [data |-> m.reply, error |-> FALSE, loading |-> hook.loading /\ m.kind # "first"]
<1> DEFINE n == [net EXCEPT ![slot] = None]
<1>0. TypeOK /\ net \in Nets /\ hook \in Hooks /\ panel \in Panels
  BY TypeParts DEF ReportInv
<1>1. m.reply \in Snapshots /\ m.reply.id = at
  BY DEF ReportInv, ReplyInv, Owned, RunArrives
<1>2. h \in Hooks /\ h.data.id = at
  BY <1>0, <1>1 DEF Hooks
<1>3. n \in Nets /\ \A s \in Slots : n[s] = IF s = slot THEN None ELSE net[s]
  BY <1>0, EmptySlot
<1>4. Settle(h, n)
  BY DEF RunArrives
<1> HIDE DEF h, n, m
<1>5. /\ hook' = h /\ net' \in Nets
      /\ ~Mounted(h) => panel' = NoPanel
      /\ Mounted(h) => panel' = IF Mounted(hook) THEN panel ELSE NoPanel
      /\ \A s \in Slots : net'[s] # None =>
           \/ n[s] # None /\ net'[s] = n[s] /\ (n[s].kind = "items" => Mounted(h))
           \/ Mounted(h) /\ net'[s].kind = "items" /\ net'[s].reply \in Reports
  BY <1>0, <1>2, <1>3, <1>4, SettleFacts, RunPageAssumption
<1>6. /\ runs' = runs /\ at' = at /\ stopping' = stopping /\ stopAsked' = stopAsked
      /\ clicks' = clicks /\ lost' = lost /\ NoteScreen
  BY DEF RunArrives, server
<1>7. panel' \in Panels
  BY <1>0, <1>5, NoPanelFits, RunPageAssumption
<1>8. /\ onScreen' \in [Runs -> SUBSET Books]
      /\ \A r \in Runs : onScreen[r] \subseteq onScreen'[r]
      /\ Mounted(hook') /\ ~Live(hook'.data) /\ panel'.report # None =>
           panel'.report.rows \cap panel'.report.waiting \subseteq onScreen'[hook'.data.id]
  BY <1>0, <1>2, <1>5, <1>6, <1>7, NoteFacts, TypeParts
<1>9. TypeOK'
  BY <1>0, <1>2, <1>5, <1>6, <1>7, <1>8, TypeParts DEF TypeOK, Mounted, Hooks, Panels, Confirmings, Nets
<1>10. AtInv'
  BY <1>2, <1>5, <1>6 DEF ReportInv, AtInv, Mounted
<1>11. ReplyInv'
  <2> SUFFICES ASSUME NEW s \in Slots, net'[s] # None PROVE Owned(net'[s], at, Mounted(h), runs)
    BY <1>5, <1>6 DEF ReplyInv, Mounted
  <2>1. CASE Mounted(h) /\ net'[s].kind = "items" /\ net'[s].reply \in Reports
    BY <2>1 DEF Owned
  <2>2. CASE n[s] # None /\ net'[s] = n[s] /\ (n[s].kind = "items" => Mounted(h))
    BY <1>3, <2>2 DEF ReportInv, ReplyInv, Owned
  <2>3. QED
    BY <1>5, <2>1, <2>2
<1>12. SeenInv'
  <2>1. CASE ~Mounted(h)
    BY <1>5, <2>1 DEF SeenInv, SeenBy, Mounted
  <2>2. CASE Mounted(h) /\ ~Mounted(hook)
    BY <1>5, <1>8, <2>2, NoPanelFits, RunPageAssumption DEF SeenInv, SeenBy, Mounted, Live
  <2>3. CASE Mounted(h) /\ Mounted(hook)
    <3>1. hook.data.id = at /\ at \in Runs
      BY <1>0, <2>3, HookFacts DEF ReportInv, AtInv
    <3>2. panel' = panel /\ hook'.data.id = at
      BY <1>2, <1>5, <2>3
    <3>3. panel.picked \subseteq onScreen[at]
          /\ (panel.confirming # None /\ ~panel.confirming.all =>
                panel.confirming.items \subseteq onScreen[at])
      BY <2>3, <3>1 DEF ReportInv, SeenInv, SeenBy
    <3>4. onScreen[at] \subseteq onScreen'[at]
      BY <1>8, <3>1
    <3>5. QED
      BY <1>8, <3>2, <3>3, <3>4 DEF SeenInv, SeenBy, Mounted, Live
  <2>4. QED
    BY <2>1, <2>2, <2>3
<1>13. QED
  BY <1>9, <1>10, <1>11, <1>12 DEF ReportInv

\* A failed answer takes the panels off the page.
LEMMA RunLostStep ==
  ASSUME ReportInv, NEW slot \in Slots, RunLost(slot) PROVE ReportInv'
<1> DEFINE m == net[slot]
<1> DEFINE h == [hook EXCEPT !.error = TRUE, !.loading = @ /\ m.kind # "first"]
<1> DEFINE n == [net EXCEPT ![slot] = None]
<1>0. TypeOK /\ net \in Nets /\ hook \in Hooks
  BY TypeParts DEF ReportInv
<1>1. h \in Hooks /\ ~Mounted(h)
  BY <1>0 DEF Hooks, Mounted
<1>2. n \in Nets /\ \A s \in Slots : n[s] = IF s = slot THEN None ELSE net[s]
  BY <1>0, EmptySlot
<1>3. Settle(h, n)
  BY DEF RunLost
<1> HIDE DEF h, n, m
<1>4. /\ hook' = h /\ net' \in Nets /\ panel' = NoPanel
      /\ \A s \in Slots : net'[s] # None =>
           n[s] # None /\ net'[s] = n[s] /\ (n[s].kind = "items" => Mounted(h))
  BY <1>0, <1>1, <1>2, <1>3, SettleFacts, RunPageAssumption
<1>5. /\ UNCHANGED <<runs, at, stopping, stopAsked, onScreen, clicks>>
      /\ lost' \in 0 .. MaxLost
  BY <1>0, TypeParts, RunPageAssumption DEF RunLost, server, history, RunPageAssumption
<1>6. TypeOK'
  BY <1>0, <1>1, <1>4, <1>5, NoPanelFits, RunPageAssumption, TypeParts
     DEF TypeOK, Mounted, Hooks, Panels, Confirmings, Nets
<1>7. AtInv' /\ SeenInv'
  BY <1>1, <1>4, <1>5 DEF ReportInv, AtInv, SeenInv, SeenBy, Mounted
<1>8. ReplyInv'
  BY <1>1, <1>2, <1>4, <1>5 DEF ReportInv, ReplyInv, Owned, Mounted
<1>9. QED
  BY <1>6, <1>7, <1>8 DEF ReportInv

\* A report comes to be shown: what it offers is noted as seen.
LEMMA ItemsArriveStep ==
  ASSUME ReportInv, NEW slot \in Slots, ItemsArrive(slot) PROVE ReportInv'
<1>0. TypeOK /\ net \in Nets /\ hook \in Hooks /\ panel \in Panels
  BY TypeParts DEF ReportInv
<1>1. net[slot].reply \in Reports /\ Mounted(hook)
  BY DEF ReportInv, ReplyInv, Owned, ItemsArrive
<1>2. panel' = [panel EXCEPT !.report = net[slot].reply, !.error = FALSE]
      /\ net' = [net EXCEPT ![slot] = None] /\ NoteScreen
      /\ UNCHANGED <<runs, at, hook, stopping, stopAsked, clicks, lost>>
  BY DEF ItemsArrive, server
<1>3. panel' \in Panels /\ panel'.picked = panel.picked /\ panel'.confirming = panel.confirming
  BY <1>0, <1>1, <1>2 DEF Panels
<1>4. net' \in Nets /\ \A s \in Slots : net'[s] = IF s = slot THEN None ELSE net[s]
  BY <1>0, <1>2, EmptySlot
<1>5. /\ onScreen' \in [Runs -> SUBSET Books]
      /\ \A r \in Runs : onScreen[r] \subseteq onScreen'[r]
      /\ Mounted(hook') /\ ~Live(hook'.data) /\ panel'.report # None =>
           panel'.report.rows \cap panel'.report.waiting \subseteq onScreen'[hook'.data.id]
  BY <1>0, <1>2, <1>3, NoteFacts, TypeParts
<1>6. TypeOK'
  BY <1>0, <1>1, <1>2, <1>3, <1>4, <1>5, TypeParts DEF TypeOK, Mounted, Hooks, Panels, Confirmings, Nets
<1>7. AtInv' /\ ReplyInv'
  BY <1>1, <1>2, <1>4 DEF ReportInv, AtInv, ReplyInv, Owned, Mounted
<1>8. SeenInv'
  <2>1. hook.data.id \in Runs
    BY <1>0, <1>1, HookFacts
  <2>2. onScreen[hook.data.id] \subseteq onScreen'[hook.data.id]
    BY <1>5, <2>1
  <2>3. QED
    BY <1>1, <1>2, <1>3, <1>5, <2>2 DEF ReportInv, SeenInv, SeenBy, Mounted, Live
<1>9. QED
  BY <1>6, <1>7, <1>8 DEF ReportInv

LEMMA ItemsLostStep ==
  ASSUME ReportInv, NEW slot \in Slots, ItemsLost(slot) PROVE ReportInv'
<1>0. TypeOK /\ net \in Nets /\ hook \in Hooks /\ panel \in Panels
  BY TypeParts DEF ReportInv
<1>1. Mounted(hook)
  BY DEF ReportInv, ReplyInv, Owned, ItemsLost
<1>2. panel' = [panel EXCEPT !.error = TRUE] /\ net' = [net EXCEPT ![slot] = None]
      /\ UNCHANGED <<runs, at, hook, stopping, stopAsked, onScreen, clicks>>
  BY DEF ItemsLost, server, history
<1>3. panel' \in Panels /\ panel'.picked = panel.picked /\ panel'.confirming = panel.confirming
      /\ panel'.report = panel.report
  BY <1>0, <1>2 DEF Panels
<1>4. net' \in Nets /\ \A s \in Slots : net'[s] = IF s = slot THEN None ELSE net[s]
  BY <1>0, <1>2, EmptySlot
<1>5. lost' \in 0 .. MaxLost /\ clicks' \in 0 .. MaxClicks
  BY <1>0, <1>2, TypeParts, RunPageAssumption DEF ItemsLost, RunPageAssumption
<1>6. SeenBy(hook, panel', onScreen)
  BY <1>3 DEF ReportInv, SeenInv, SeenBy
<1>7. \A s \in Slots : net'[s] # None => Owned(net'[s], at, Mounted(hook), runs)
  BY <1>4 DEF ReportInv, ReplyInv
<1>8. QED
  BY <1>1, <1>2, <1>3, <1>4, <1>5, <1>6, <1>7, PanelStep

--------------------------------------------------------------------------------
\* To another page, or the page of another run: nothing of this run comes along,
\* neither what was ticked nor an answer of its.
LEMMA GoToStep ==
  ASSUME ReportInv, NEW where \in Runs \cup {Away},
         where \in Runs => runs[where].status # "none",
         NEW n \in Nets, \A s \in Slots : n[s] # None => n[s] = net[s],
         GoTo(where, n), UNCHANGED <<runs, stopAsked, onScreen>>,
         clicks' \in 0 .. MaxClicks, lost' \in 0 .. MaxLost
  PROVE  ReportInv'
<1>0. TypeOK /\ hook \in Hooks
  BY TypeParts DEF ReportInv
<1>1. at' = where
  BY DEF GoTo
<1>2. /\ hook' \in Hooks /\ ~Mounted(hook') /\ panel' = NoPanel /\ net' \in Nets
      /\ \A s \in Slots : net'[s] # None => Owned(net'[s], where, FALSE, runs)
  <2>1. CASE where = Away
    <3>1. hook' = NoHook /\ panel' = NoPanel /\ net' = Drop(n, {"run", "first", "items", "cancel"})
      BY <2>1 DEF GoTo
    <3>2. /\ net' \in Nets
          /\ \A s \in Slots : net'[s] # None =>
               /\ n[s] # None /\ net'[s] = n[s]
               /\ n[s].kind \notin {"run", "first", "items", "cancel"}
      BY <3>1, DropFacts
    <3>3. \A s \in Slots : net'[s] # None => Owned(net'[s], where, FALSE, runs)
      BY <3>2 DEF ReportInv, ReplyInv, Owned
    <3>4. hook' \in Hooks /\ ~Mounted(hook')
      BY <3>1 DEF Hooks, NoHook, Mounted
    <3>5. QED
      BY <3>1, <3>2, <3>3, <3>4
  <2>2. CASE where # Away
    <3>1. where \in Runs /\ LoadFirst(where, n)
      BY <2>2 DEF GoTo
    <3>2. /\ hook' \in Hooks /\ ~Mounted(hook') /\ panel' = NoPanel /\ net' \in Nets
          /\ \A s \in Slots : net'[s] # None =>
              \/ /\ n[s] # None /\ net'[s] = n[s]
                 /\ n[s].kind \notin {"run", "first", "items"}
              \/ /\ net'[s].kind = "first"
                 /\ net'[s].reply \in Snapshots /\ net'[s].reply.id = where
      BY <1>0, <3>1, LoadFirstFacts
    <3>3. \A s \in Slots : net'[s] # None => Owned(net'[s], where, FALSE, runs)
      BY <3>1, <3>2 DEF ReportInv, ReplyInv, Owned
    <3>4. QED
      BY <3>2, <3>3
  <2>3. QED
    BY <2>1, <2>2
<1>3. stopping' \in BOOLEAN
  BY <1>0, TypeParts DEF GoTo
<1>4. TypeOK'
  BY <1>0, <1>1, <1>2, <1>3, NoPanelFits, RunPageAssumption, TypeParts
     DEF TypeOK, Mounted, Hooks, Panels, Confirmings, Nets
<1>5. AtInv' /\ SeenInv'
  BY <1>1, <1>2 DEF AtInv, SeenInv, SeenBy, Mounted
<1>6. ReplyInv'
  BY <1>1, <1>2 DEF ReplyInv, Owned, Mounted
<1>7. QED
  BY <1>4, <1>5, <1>6 DEF ReportInv

\* Going on with the same run: the spinner comes up and a first load goes out.
LEMMA ReloadStep ==
  ASSUME ReportInv, at \in Runs, NEW slot \in Slots, LoadFirst(at, [net EXCEPT ![slot] = None]),
         UNCHANGED <<runs, at, stopAsked, onScreen, clicks>>,
         stopping' \in BOOLEAN, lost' \in 0 .. MaxLost
  PROVE  ReportInv'
<1> DEFINE n == [net EXCEPT ![slot] = None]
<1>0. TypeOK /\ net \in Nets /\ runs[at].status # "none"
  BY TypeParts DEF ReportInv, AtInv
<1>1. n \in Nets /\ \A s \in Slots : n[s] = IF s = slot THEN None ELSE net[s]
  BY <1>0, EmptySlot
<1> HIDE DEF n
<1>2. /\ hook' \in Hooks /\ ~Mounted(hook') /\ panel' = NoPanel /\ net' \in Nets
      /\ \A s \in Slots : net'[s] # None =>
          \/ /\ n[s] # None /\ net'[s] = n[s]
             /\ n[s].kind \notin {"run", "first", "items"}
          \/ /\ net'[s].kind = "first"
             /\ net'[s].reply \in Snapshots /\ net'[s].reply.id = at
  BY <1>0, <1>1, LoadFirstFacts DEF n
<1>3. TypeOK'
  BY <1>0, <1>2, NoPanelFits, RunPageAssumption, TypeParts
     DEF TypeOK, Mounted, Hooks, Panels, Confirmings, Nets
<1>4. AtInv' /\ SeenInv'
  BY <1>0, <1>2 DEF AtInv, SeenInv, SeenBy, Mounted
<1>5. ReplyInv'
  BY <1>1, <1>2 DEF ReportInv, ReplyInv, Owned, Mounted
<1>6. QED
  BY <1>3, <1>4, <1>5 DEF ReportInv

LEMMA ClickFacts == ASSUME TypeOK, Click PROVE clicks' \in 0 .. MaxClicks
BY TypeParts, RunPageAssumption DEF Click, RunPageAssumption

LEMMA LossFacts ==
  ASSUME TypeOK, lost < MaxLost, lost' = lost + 1 PROVE lost' \in 0 .. MaxLost
BY TypeParts, RunPageAssumption DEF RunPageAssumption

LEMMA NavigateStep ==
  ASSUME ReportInv, NEW where \in Runs \cup {Away}, Navigate(where) PROVE ReportInv'
<1>1. TypeOK /\ net \in Nets
  BY TypeParts DEF ReportInv
<1>2. /\ where \in Runs => runs[where].status # "none"
      /\ GoTo(where, net) /\ UNCHANGED <<runs, stopAsked, onScreen, lost>>
  BY DEF Navigate, server, history
<1>3. clicks' \in 0 .. MaxClicks /\ lost' \in 0 .. MaxLost
  BY <1>1, <1>2, ClickFacts, TypeParts DEF Navigate
<1>4. QED
  BY <1>1, <1>2, <1>3, GoToStep

\* Another filter disowns the report on its way; what is shown stays until the
\* new one arrives.
LEMMA FilterStep ==
  ASSUME ReportInv, NEW filter \in Filters, Filter(filter) PROVE ReportInv'
<1> DEFINE cleared == Drop(net, {"items"})
<1>0. TypeOK /\ net \in Nets /\ panel \in Panels /\ Mounted(hook) /\ hook.data.id \in Runs
      /\ filter \in SUBSET Books /\ runs \in [Runs -> Run]
  BY TypeParts, HookFacts, RunPageAssumption DEF ReportInv, Filter, Shows, RunPageAssumption
<1>1. PICK slot \in Slots : net' = ToSlot(cleared, slot, "items", Report(hook.data.id, filter))
  BY DEF Filter, Free
<1>2. Report(hook.data.id, filter) \in Reports
  BY <1>0, ReportFits
<1>3. /\ cleared \in Nets
      /\ \A s \in Slots : cleared[s] # None => net[s] # None /\ cleared[s] = net[s]
  BY <1>0, DropFacts
<1> HIDE DEF cleared
<1>4. /\ net' \in Nets
      /\ \A s \in Slots : net'[s] =
           IF s = slot THEN [kind |-> "items", reply |-> Report(hook.data.id, filter)] ELSE cleared[s]
  BY <1>1, <1>2, <1>3, ToSlotFacts
<1>5. \A s \in Slots : net'[s] # None => Owned(net'[s], at, Mounted(hook), runs)
  BY <1>0, <1>2, <1>3, <1>4 DEF ReportInv, ReplyInv, Owned
<1>6. panel' = [panel EXCEPT !.filter = filter]
      /\ UNCHANGED <<runs, at, hook, stopping, stopAsked, onScreen, lost>>
  BY DEF Filter, server, history
<1>7. panel' \in Panels /\ panel'.picked = panel.picked /\ panel'.confirming = panel.confirming
      /\ panel'.report = panel.report
  BY <1>0, <1>6 DEF Panels
<1>8. SeenBy(hook, panel', onScreen)
  BY <1>7 DEF ReportInv, SeenInv, SeenBy
<1>9. clicks' \in 0 .. MaxClicks /\ lost' \in 0 .. MaxLost
  BY <1>0, <1>6, ClickFacts, TypeParts DEF Filter
<1>10. QED
  BY <1>0, <1>4, <1>5, <1>6, <1>7, <1>8, <1>9, PanelStep

\* Ticking, clearing and the sentence before an apply: the tick boxes are on
\* the rows that are shown, and the sentence keeps the list that was ticked.
LEMMA EditStep ==
  ASSUME ReportInv,
         \/ \E b \in Books : Toggle(b)
         \/ ToggleAll \/ ClearPicked \/ CancelConfirm
         \/ \E all \in BOOLEAN : Confirm(all)
  PROVE  ReportInv'
<1> DEFINE seen == onScreen[hook.data.id]
<1>0. TypeOK /\ net \in Nets /\ panel \in Panels
  BY TypeParts DEF ReportInv
<1>1. Click /\ Editing
  BY DEF Toggle, ToggleAll, ClearPicked, CancelConfirm, Confirm
<1>2. Shows /\ UNCHANGED <<runs, at, hook, stopping, net, stopAsked, onScreen, lost>>
  BY <1>1 DEF Editing, server, history
<1>3. Mounted(hook) /\ panel.report \in Reports
  BY <1>0, <1>2 DEF Shows, Panels
<1>4. Selectable \subseteq seen /\ Selectable \subseteq Books /\ panel.picked \subseteq seen
  BY <1>2, <1>3 DEF ReportInv, SeenInv, SeenBy, Shows, Selectable, Reports
<1>5. /\ panel' \in Panels /\ panel'.report = panel.report /\ panel'.picked \subseteq seen
      /\ \/ panel'.confirming \in {panel.confirming, None}
         \/ \E all \in BOOLEAN :
              panel'.confirming = [all |-> all, items |-> IF all THEN {} ELSE panel.picked]
  <2> HIDE DEF seen
  <2>1. ASSUME NEW b \in Books, Toggle(b)
        PROVE  panel' \in Panels /\ panel'.report = panel.report /\ panel'.picked \subseteq seen
               /\ panel'.confirming = panel.confirming
    <3>1. panel' = [panel EXCEPT !.picked = IF b \in @ THEN @ \ {b} ELSE @ \cup {b}] /\ b \in Selectable
      BY <2>1 DEF Toggle
    <3>2. QED
      BY <1>0, <1>4, <3>1 DEF Panels
  <2>2. CASE ToggleAll
    <3>1. panel' = [panel EXCEPT !.picked = IF Selectable \subseteq @ THEN @ \ Selectable
                                            ELSE @ \cup Selectable]
      BY <2>2 DEF ToggleAll
    <3>2. QED
      BY <1>0, <1>4, <3>1 DEF Panels
  <2>3. CASE ClearPicked
    <3>1. panel' = [panel EXCEPT !.picked = {}]
      BY <2>3 DEF ClearPicked
    <3>2. QED
      BY <1>0, <1>4, <3>1 DEF Panels
  <2>4. CASE CancelConfirm
    <3>1. panel' = [panel EXCEPT !.confirming = None]
      BY <2>4 DEF CancelConfirm
    <3>2. QED
      BY <1>0, <1>4, <3>1 DEF Panels, Confirmings
  <2>5. ASSUME NEW all \in BOOLEAN, Confirm(all)
        PROVE  panel' \in Panels /\ panel'.report = panel.report /\ panel'.picked \subseteq seen
               /\ panel'.confirming = [all |-> all, items |-> IF all THEN {} ELSE panel.picked]
    <3>1. panel' = [panel EXCEPT !.confirming =
                      [all |-> all, items |-> IF all THEN {} ELSE panel.picked]]
      BY <2>5 DEF Confirm
    <3>2. QED
      BY <1>0, <1>4, <3>1 DEF Panels, Confirmings
  <2>6. QED
    BY <2>1, <2>2, <2>3, <2>4, <2>5
<1>6. panel'.confirming # None /\ ~panel'.confirming.all => panel'.confirming.items \subseteq seen
  <2>1. panel.confirming # None /\ ~panel.confirming.all => panel.confirming.items \subseteq seen
    BY <1>3 DEF ReportInv, SeenInv, SeenBy
  <2>2. panel.picked \subseteq seen
    BY <1>4
  <2> HIDE DEF seen
  <2>3. CASE panel'.confirming \in {panel.confirming, None}
    BY <2>1, <2>3
  <2>4. ASSUME NEW all \in BOOLEAN,
               panel'.confirming = [all |-> all, items |-> IF all THEN {} ELSE panel.picked]
        PROVE  ~panel'.confirming.all => panel'.confirming.items \subseteq seen
    BY <2>2, <2>4
  <2>5. QED
    BY <1>5, <2>3, <2>4
<1>7. SeenBy(hook, panel', onScreen)
  BY <1>3, <1>5, <1>6 DEF ReportInv, SeenInv, SeenBy
<1>8. clicks' \in 0 .. MaxClicks /\ lost' \in 0 .. MaxLost
  BY <1>0, <1>1, <1>2, ClickFacts, TypeParts
<1>9. \A s \in Slots : net'[s] # None => Owned(net'[s], at, Mounted(hook), runs)
  BY <1>2 DEF ReportInv, ReplyInv
<1>10. QED
  BY <1>0, <1>2, <1>3, <1>5, <1>7, <1>8, <1>9, PanelStep

\* A panel whose apply was refused or lost.
LEMMA RefusedStep ==
  ASSUME ReportInv, NEW slot \in Slots, Refused(slot, [net EXCEPT ![slot] = None]),
         UNCHANGED <<runs, at, hook, stopping, stopAsked, onScreen, clicks>>, lost' \in 0 .. MaxLost
  PROVE  ReportInv'
<1>0. TypeOK /\ net \in Nets /\ panel \in Panels
  BY TypeParts DEF ReportInv
<1>1. net' \in Nets /\ \A s \in Slots : net'[s] = IF s = slot THEN None ELSE net[s]
  BY <1>0, EmptySlot DEF Refused
<1>2. \A s \in Slots : net'[s] # None => Owned(net'[s], at, Mounted(hook), runs)
  BY <1>1 DEF ReportInv, ReplyInv
<1>3. panel' \in {panel, [panel EXCEPT !.applying = None, !.confirming = None]}
      /\ (panel.applying # slot => panel' = panel)
  BY DEF Refused
<1>4. panel' \in Panels /\ panel'.report = panel.report /\ panel'.picked = panel.picked
      /\ panel'.confirming \in {panel.confirming, None}
  BY <1>0, <1>3 DEF Panels, Confirmings
<1>5. SeenBy(hook, panel', onScreen)
  BY <1>4 DEF ReportInv, SeenInv, SeenBy
<1>6. Mounted(hook) \/ panel' = NoPanel
  <2>1. CASE ~Mounted(hook)
    <3>1. panel = NoPanel
      BY <1>0, <2>1, HookFacts
    <3>2. [NoPanel EXCEPT !.applying = None, !.confirming = None] = NoPanel
      <4> DEFINE p == [NoPanel EXCEPT !.applying = None, !.confirming = None]
      <4>0. p \in Panels
        BY NoPanelFits, RunPageAssumption DEF Panels, Confirmings
      <4>1. p.report = None /\ p.error = FALSE /\ p.filter = Books /\ p.picked = {}
            /\ p.confirming = None /\ p.applying = None
        BY DEF NoPanel
      <4>2. p = [report |-> p.report, error |-> p.error, filter |-> p.filter, picked |-> p.picked,
                 confirming |-> p.confirming, applying |-> p.applying]
        <5> HIDE DEF p
        <5> QED
          BY <4>0 DEF Panels
      <4>3. QED
        BY <4>1, <4>2 DEF NoPanel
    <3>3. QED
      BY <1>3, <3>1, <3>2
  <2>2. QED
    BY <2>1
<1>7. clicks' \in 0 .. MaxClicks
  BY <1>0, TypeParts
<1>8. QED
  BY <1>1, <1>2, <1>4, <1>5, <1>6, <1>7, PanelStep

\* The answer to an apply takes the page to the new run, or is a refusal.
LEMMA ApplyAnswersStep ==
  ASSUME ReportInv, NEW slot \in Slots, ApplyAnswers(slot) PROVE ReportInv'
<1> DEFINE n == [net EXCEPT ![slot] = None]
<1>0. TypeOK /\ net \in Nets
  BY TypeParts DEF ReportInv
<1>1. n \in Nets /\ \A s \in Slots : n[s] # None => n[s] = net[s]
  BY <1>0, EmptySlot
<1>2. UNCHANGED <<runs, stopAsked, onScreen, clicks, lost>>
  BY DEF ApplyAnswers, server, history
<1>3. clicks' \in 0 .. MaxClicks /\ lost' \in 0 .. MaxLost
  BY <1>0, <1>2, TypeParts
<1>4. CASE net[slot].reply \in Runs \ {at}
  <2>1. GoTo(net[slot].reply, n)
    BY <1>4 DEF ApplyAnswers
  <2>2. runs[net[slot].reply].status # "none"
    BY <1>4 DEF ReportInv, ReplyInv, Owned, ApplyAnswers
  <2> HIDE DEF n
  <2>3. QED
    BY <1>1, <1>2, <1>3, <1>4, <2>1, <2>2, GoToStep
<1>5. CASE net[slot].reply \notin Runs \ {at}
  <2>1. Refused(slot, n) /\ UNCHANGED <<at, hook, stopping>>
    BY <1>5 DEF ApplyAnswers
  <2>2. QED
    BY <1>2, <1>3, <2>1, RefusedStep
<1>6. QED
  BY <1>4, <1>5

LEMMA ApplyLostStep ==
  ASSUME ReportInv, NEW slot \in Slots, ApplyLost(slot) PROVE ReportInv'
<1>1. UNCHANGED <<runs, at, hook, stopping, stopAsked, onScreen, clicks>>
      /\ Refused(slot, [net EXCEPT ![slot] = None]) /\ lost < MaxLost /\ lost' = lost + 1
  BY DEF ApplyLost, server, history
<1>2. lost' \in 0 .. MaxLost
  BY <1>1, LossFacts DEF ReportInv
<1>3. QED
  BY <1>1, <1>2, RefusedStep

\* A Stop answered or lost reloads the run of the page.
LEMMA StopAnswersStep ==
  ASSUME ReportInv, NEW slot \in Slots, StopAnswers(slot) \/ StopLost(slot) PROVE ReportInv'
<1>0. TypeOK
  BY DEF ReportInv
<1>1. at \in Runs
  BY DEF ReportInv, ReplyInv, Owned, StopAnswers, StopLost
<1>2. UNCHANGED <<runs, at, stopAsked, onScreen, clicks>>
      /\ LoadFirst(at, [net EXCEPT ![slot] = None]) /\ stopping' \in BOOLEAN
  BY <1>0, TypeParts DEF StopAnswers, StopLost, server, history
<1>3. lost' \in 0 .. MaxLost
  BY <1>0, LossFacts, TypeParts DEF StopAnswers, StopLost
<1>4. QED
  BY <1>1, <1>2, <1>3, ReloadStep

\* Births and stops at the server, with a request on its way for them.
LEMMA AskingStep ==
  ASSUME ReportInv, runs' \in [Runs -> Run], Grown,
         NEW slot \in Slots, NEW kind \in {"cancel", "apply"}, NEW reply \in Runs \cup {None},
         kind = "cancel" => at \in Runs,
         kind = "apply" => (reply \in Runs => runs'[reply].status # "none"),
         net' = ToSlot(net, slot, kind, reply),
         UNCHANGED <<at, hook, onScreen>>, stopAsked' \subseteq Runs, stopping' \in BOOLEAN,
         clicks' \in 0 .. MaxClicks, lost' \in 0 .. MaxLost,
         panel' \in Panels, Mounted(hook), SeenBy(hook, panel', onScreen)
  PROVE  ReportInv'
<1>0. TypeOK /\ net \in Nets
  BY TypeParts DEF ReportInv
<1>1. /\ net' \in Nets
      /\ \A s \in Slots : net'[s] = IF s = slot THEN [kind |-> kind, reply |-> reply] ELSE net[s]
  BY <1>0, ToSlotFacts
<1>2. TypeOK'
  BY <1>0, <1>1, TypeParts DEF TypeOK, Mounted, Hooks, Panels, Confirmings, Nets
<1>3. AtInv' /\ SeenInv'
  BY DEF ReportInv, AtInv, SeenInv, SeenBy, Grown, Mounted, Live
<1>4. ReplyInv'
  <2> SUFFICES ASSUME NEW s \in Slots, net'[s] # None PROVE Owned(net'[s], at, Mounted(hook), runs')
    BY DEF ReplyInv, Mounted
  <2>1. CASE s = slot
    BY <1>1, <2>1 DEF Owned
  <2>2. CASE s # slot
    BY <1>1, <2>2 DEF ReportInv, ReplyInv, Owned, Grown
  <2>3. QED
    BY <2>1, <2>2
<1>5. QED
  BY <1>2, <1>3, <1>4 DEF ReportInv

LEMMA StopStep == ASSUME ReportInv, Stop PROVE ReportInv'
<1> DEFINE r == hook.data.id
<1>0. TypeOK /\ runs \in [Runs -> Run] /\ panel \in Panels
  BY TypeParts DEF ReportInv
<1>1. Mounted(hook) /\ r \in Runs /\ at \in Runs
  BY <1>0, HookFacts DEF Stop, ReportInv, AtInv
<1>2. /\ UNCHANGED <<at, hook, panel, onScreen, lost>> /\ stopping' = TRUE
      /\ stopAsked' = stopAsked \cup {r}
      /\ runs' = IF runs[r].status = "queued" THEN [runs EXCEPT ![r].status = "over"] ELSE runs
  BY DEF Stop
<1>3. PICK slot \in Slots : net' = ToSlot(net, slot, "cancel", IF Live(runs[r]) THEN r ELSE None)
  BY DEF Stop, Free
<1> HIDE DEF r
<1>4. runs' \in [Runs -> Run] /\ Grown
  BY <1>0, <1>1, <1>2 DEF Run, Grown
<1>5. clicks' \in 0 .. MaxClicks /\ lost' \in 0 .. MaxLost
  BY <1>0, <1>2, ClickFacts, TypeParts DEF Stop
<1>6. SeenBy(hook, panel', onScreen)
  BY <1>2 DEF ReportInv, SeenInv
<1>7. stopAsked' \subseteq Runs
  BY <1>0, <1>1, <1>2, TypeParts
<1>8. QED
  BY <1>0, <1>1, <1>2, <1>3, <1>4, <1>5, <1>6, <1>7, AskingStep

LEMMA ApplyStep == ASSUME ReportInv, Apply PROVE ReportInv'
<1> DEFINE src == hook.data.id
<1> DEFINE items == IF panel.confirming.all THEN runs[src].waiting ELSE panel.confirming.items
<1>0. TypeOK /\ runs \in [Runs -> Run] /\ panel \in Panels
  BY TypeParts DEF ReportInv
<1>1. Mounted(hook) /\ src \in Runs
  BY <1>0, HookFacts DEF Apply, Shows
<1>2. items \in SUBSET Books
  <2>1. panel.confirming \in [all : BOOLEAN, items : SUBSET Books]
    BY <1>0 DEF Apply, Panels, Confirmings
  <2>2. QED
    BY <1>0, <1>1, <2>1 DEF Run
<1>3. UNCHANGED <<at, hook, stopping, stopAsked, onScreen, lost>>
  BY DEF Apply, history
<1>4. PICK slot \in Slots :
        /\ panel' = [panel EXCEPT !.applying = slot]
        /\ IF runs[src].waiting = {}
           THEN /\ net' = ToSlot(net, slot, "apply", None)
                /\ UNCHANGED runs
           ELSE \E r \in Runs :
                  /\ runs[r].status = "none"
                  /\ runs' = [runs EXCEPT ![r] = [Unborn EXCEPT !.status = "queued",
                                !.source = src, !.items = items]]
                  /\ net' = ToSlot(net, slot, "apply", r)
  BY DEF Apply, Free
<1> HIDE DEF src, items
<1>5. panel' \in Panels /\ panel'.report = panel.report /\ panel'.picked = panel.picked
      /\ panel'.confirming = panel.confirming
  BY <1>0, <1>4 DEF Panels
<1>6. SeenBy(hook, panel', onScreen)
  BY <1>5 DEF ReportInv, SeenInv, SeenBy
<1>7. clicks' \in 0 .. MaxClicks /\ lost' \in 0 .. MaxLost
  BY <1>0, <1>3, ClickFacts, TypeParts DEF Apply
<1>8. stopAsked' \subseteq Runs /\ stopping' \in BOOLEAN
  BY <1>0, <1>3, TypeParts
<1>9. CASE runs[src].waiting = {}
  <2>1. net' = ToSlot(net, slot, "apply", None) /\ runs' = runs
    BY <1>4, <1>9
  <2>2. Grown /\ None \notin Runs
    BY <2>1, RunPageAssumption DEF Grown, RunPageAssumption
  <2>3. QED
    BY <1>0, <1>1, <1>3, <1>5, <1>6, <1>7, <1>8, <2>1, <2>2, AskingStep
<1>10. CASE runs[src].waiting # {}
  <2>1. PICK r \in Runs :
          /\ runs[r].status = "none"
          /\ runs' = [runs EXCEPT ![r] = [Unborn EXCEPT !.status = "queued",
                        !.source = src, !.items = items]]
          /\ net' = ToSlot(net, slot, "apply", r)
    BY <1>4, <1>10
  <2>2. [Unborn EXCEPT !.status = "queued", !.source = src, !.items = items] \in Run
        /\ [Unborn EXCEPT !.status = "queued", !.source = src, !.items = items].status = "queued"
    BY <1>1, <1>2 DEF Unborn, Run
  <2>3. runs' \in [Runs -> Run] /\ Grown /\ runs'[r].status # "none"
    BY <1>0, <2>1, <2>2 DEF Grown
  <2>4. QED
    BY <1>1, <1>3, <1>5, <1>6, <1>7, <1>8, <2>1, <2>3, AskingStep
<1>11. QED
  BY <1>9, <1>10

LEMMA NextReport == ReportInv /\ [Next]_vars => ReportInv'
<1> SUFFICES ASSUME ReportInv, [Next]_vars PROVE ReportInv'
  OBVIOUS
<1>1. CASE \E r \in Runs : Start(r) \/ FinishTask(r) \/ FinishApply(r)
  BY <1>1, ServerStep
<1>2. CASE PollRun
  BY <1>2, PollStepReport
<1>3. ASSUME NEW slot \in Slots, Arrives(slot) PROVE ReportInv'
  BY <1>3, RunArrivesStep, ItemsArriveStep, ApplyAnswersStep, StopAnswersStep DEF Arrives
<1>4. ASSUME NEW slot \in Slots, Loses(slot) PROVE ReportInv'
  BY <1>4, RunLostStep, ItemsLostStep, ApplyLostStep, StopAnswersStep DEF Loses
<1>5. CASE \E where \in Runs \cup {Away} : Navigate(where)
  BY <1>5, NavigateStep
<1>6. CASE \E filter \in Filters : Filter(filter)
  BY <1>6, FilterStep
<1>7. CASE \/ \E b \in Books : Toggle(b)
           \/ ToggleAll \/ ClearPicked \/ CancelConfirm
           \/ \E all \in BOOLEAN : Confirm(all)
  BY <1>7, EditStep
<1>8. CASE Apply
  BY <1>8, ApplyStep
<1>9. CASE Stop
  BY <1>9, StopStep
<1>10. CASE UNCHANGED vars
  <2>1. UNCHANGED <<runs, at, hook, stopping, panel, net, stopAsked, onScreen, clicks, lost>>
    BY <1>10 DEF vars
  <2>2. QED
    BY <2>1 DEF ReportInv, TypeOK, AtInv, ReplyInv, SeenInv, SeenBy, Owned, Mounted, Live
<1>11. QED
  BY <1>1, <1>2, <1>3, <1>4, <1>5, <1>6, <1>7, <1>8, <1>9, <1>10 DEF Next

LEMMA ReportInvSeen == ReportInv => OnlyWhatWasSeen
<1>1. ASSUME ReportInv, panel.confirming # None PROVE Mounted(hook)
  BY <1>1, TypeParts, NoPanelFits, RunPageAssumption DEF ReportInv
<1>2. QED
  BY <1>1 DEF OnlyWhatWasSeen, ReportInv, SeenInv, SeenBy

\* The page of a run keeps its types, whatever answers come late, out of order
\* or not at all (RunDetail.tsx 16-110, 126-241, lib.tsx 13-48).
THEOREM PageTypeCorrect == Spec => []TypeOK
<1>1. ReportInv => TypeOK
  BY DEF ReportInv
<1>2. QED
  BY <1>1, InitReport, NextReport, PTL DEF Spec

\* Whatever runs, books and filters there are, and however answers cross, the
\* ticked books about to be applied were all on the screen, with something to
\* apply, in the report of the very run that is applied (RunDetail.tsx 138-141,
\* 230-254).
THEOREM SeenBeforeApplied == Spec => []OnlyWhatWasSeen
BY InitReport, NextReport, ReportInvSeen, PTL DEF Spec
================================================================================
