------------------------- MODULE IpcConnectionsProofs -------------------------
(***************************************************************************)
(* Theorems about IpcConnections: no event is left in the queue while the  *)
(* loop sleeps, and no call of the settings application waits for an       *)
(* answer that was lost.                                                   *)
(*                                                                         *)
(* What travels to the settings application is always a sequence of whole  *)
(* lines, until its connection is hung up on; so the head of an answer     *)
(* that it keeps in its buffer is always completed by the tail of the same *)
(* answer.                                                                 *)
(***************************************************************************)
EXTENDS IpcConnections, SequenceTheorems, TLAPS

-----------------------------------------------------------------------------
(* Lines in pieces.                                                        *)

Pieces == [kind : {"answer", "event"}, id : Nat, piece : {"head", "tail"}]
Piece(kind, id, piece) == [kind |-> kind, id |-> id, piece |-> piece]

\* The k-th line of a sequence of pieces.
LineAt(s, k, kind, id) ==
  s[2 * k - 1] = Piece(kind, id, "head") /\ s[2 * k] = Piece(kind, id, "tail")

Whole(s) ==
  /\ s \in Seq(Pieces)
  /\ \E n \in Nat :
       /\ Len(s) = 2 * n
       /\ \A k \in 1..n : \E kind \in {"answer", "event"}, id \in Nat : LineAt(s, k, kind, id)

Answered(s, id) == \E k \in Nat : 1 =< k /\ 2 * k =< Len(s) /\ LineAt(s, k, "answer", id)

LEMMA PieceIsPiece ==
  ASSUME NEW kind \in {"answer", "event"}, NEW id \in Nat, NEW piece \in {"head", "tail"}
  PROVE  Piece(kind, id, piece) \in Pieces
BY DEF Piece, Pieces

LEMMA LineIsWhole ==
  ASSUME NEW kind \in {"answer", "event"}, NEW id \in Nat
  PROVE  /\ Whole(Line(kind, id))
         /\ Line(kind, id) = <<Piece(kind, id, "head"), Piece(kind, id, "tail")>>
<1>1. Line(kind, id) = <<Piece(kind, id, "head"), Piece(kind, id, "tail")>>
  BY DEF Line, Piece
<1>2. Piece(kind, id, "head") \in Pieces /\ Piece(kind, id, "tail") \in Pieces
  BY PieceIsPiece
<1>3. Line(kind, id) \in Seq(Pieces) /\ Len(Line(kind, id)) = 2 * 1
  BY <1>1, <1>2
<1>4. LineAt(Line(kind, id), 1, kind, id)
  BY <1>1 DEF LineAt
<1>5. \A k \in 1..1 : k = 1
  OBVIOUS
<1>6. 1 \in Nat
  OBVIOUS
<1> QED BY <1>1, <1>3, <1>4, <1>5, <1>6, Zenon DEF Whole

LEMMA NothingIsWhole == Whole(<<>>)
<1>1. <<>> \in Seq(Pieces) /\ Len(<<>>) = 2 * 0 /\ 0 \in Nat /\ \A k \in 1..0 : FALSE
  OBVIOUS
<1> QED BY <1>1, Zenon DEF Whole

LEMMA EventsAreWhole ==
  ASSUME NEW n \in Nat
  PROVE  Whole(Events(n))
<1>1. /\ EventId \in Nat
      /\ Line("event", EventId) = <<Piece("event", EventId, "head"), Piece("event", EventId, "tail")>>
  BY LineIsWhole DEF EventId
<1>2. \A i \in 1..2 * n : 2 - (i % 2) \in {1, 2}
  OBVIOUS
<1>3. Piece("event", EventId, "head") \in Pieces /\ Piece("event", EventId, "tail") \in Pieces
  BY <1>1, PieceIsPiece
<1>4. \A i \in 1..2 * n : Line("event", EventId)[2 - (i % 2)] \in Pieces
  BY <1>1, <1>2, <1>3
<1>5. Events(n) \in Seq(Pieces) /\ Len(Events(n)) = 2 * n
  BY <1>4 DEF Events
<1>6. ASSUME NEW k \in 1..n PROVE LineAt(Events(n), k, "event", EventId)
  <2>1. (2 * k - 1) % 2 = 1 /\ (2 * k) % 2 = 0 /\ 2 * k - 1 \in 1..2 * n /\ 2 * k \in 1..2 * n
    OBVIOUS
  <2>2. Events(n)[2 * k - 1] = Line("event", EventId)[1] /\ Events(n)[2 * k] = Line("event", EventId)[2]
    BY <2>1 DEF Events
  <2> QED BY <1>1, <2>2 DEF LineAt
<1> QED BY <1>1, <1>5, <1>6 DEF Whole

\* Where a line of the second of two sequences stands in both.
LEMMA JoinedSecond ==
  ASSUME NEW s \in Seq(Pieces), NEW t \in Seq(Pieces), NEW n \in Nat, Len(s) = 2 * n,
         NEW k \in Nat, k > n, 2 * k =< Len(s) + Len(t)
  PROVE  (s \o t)[2 * k - 1] = t[2 * (k - n) - 1] /\ (s \o t)[2 * k] = t[2 * (k - n)]
<1>1. 2 * k - 1 \in 1..Len(s) + Len(t) /\ 2 * k \in 1..Len(s) + Len(t)
  BY SMT
<1>2. 2 * k - 1 > Len(s) /\ 2 * k > Len(s)
  BY SMT
<1>3. 2 * k - 1 - Len(s) = 2 * (k - n) - 1 /\ 2 * k - Len(s) = 2 * (k - n)
  BY SMT
<1>4. \A i \in 1..Len(s) + Len(t) : i > Len(s) => (s \o t)[i] = t[i - Len(s)]
  BY ConcatProperties
<1>5. (s \o t)[2 * k - 1] = t[2 * k - 1 - Len(s)]
  BY <1>1, <1>2, <1>4, Zenon
<1>6. (s \o t)[2 * k] = t[2 * k - Len(s)]
  BY <1>1, <1>2, <1>4, Zenon
<1> QED BY <1>3, <1>5, <1>6, Zenon

LEMMA WholeJoined ==
  ASSUME NEW s, Whole(s), NEW t, Whole(t)
  PROVE  Whole(s \o t)
<1>1. s \in Seq(Pieces) /\ t \in Seq(Pieces)
  BY DEF Whole
<1>2. PICK n \in Nat :
        /\ Len(s) = 2 * n
        /\ \A k \in 1..n : \E kind \in {"answer", "event"}, id \in Nat : LineAt(s, k, kind, id)
  BY DEF Whole
<1>3. PICK m \in Nat :
        /\ Len(t) = 2 * m
        /\ \A k \in 1..m : \E kind \in {"answer", "event"}, id \in Nat : LineAt(t, k, kind, id)
  BY DEF Whole
<1>4. s \o t \in Seq(Pieces) /\ Len(s \o t) = 2 * (n + m)
  BY <1>1, <1>2, <1>3
<1>5. ASSUME NEW k \in 1..n + m
      PROVE  \E kind \in {"answer", "event"}, id \in Nat : LineAt(s \o t, k, kind, id)
  <2>1. CASE k =< n
    <3>1. PICK kind \in {"answer", "event"}, id \in Nat : LineAt(s, k, kind, id)
      BY <1>2, <2>1
    <3>2. (s \o t)[2 * k - 1] = s[2 * k - 1] /\ (s \o t)[2 * k] = s[2 * k]
      BY <1>1, <1>2, <1>3, <2>1
    <3> QED BY <3>1, <3>2 DEF LineAt
  <2>2. CASE k > n
    <3>0. k - n \in 1..m
      BY <2>2
    <3>1. PICK kind \in {"answer", "event"}, id \in Nat : LineAt(t, k - n, kind, id)
      BY <1>3, <3>0
    <3>2. k \in Nat /\ 2 * k =< Len(s) + Len(t)
      BY <1>2, <1>3
    <3>3. (s \o t)[2 * k - 1] = t[2 * (k - n) - 1] /\ (s \o t)[2 * k] = t[2 * (k - n)]
      BY <1>1, <1>2, <2>2, <3>2, JoinedSecond, Zenon
    <3> QED BY <3>1, <3>3 DEF LineAt
  <2> QED BY <2>1, <2>2
<1>6. n + m \in Nat
  OBVIOUS
<1> QED BY <1>4, <1>5, <1>6 DEF Whole

LEMMA JoinedAgain ==
  ASSUME NEW s \in Seq(Pieces), NEW t \in Seq(Pieces), NEW u \in Seq(Pieces)
  PROVE  (s \o t) \o u = s \o (t \o u)
BY ConcatAssociative

LEMMA AnsweredStill ==
  ASSUME NEW s \in Seq(Pieces), NEW t \in Seq(Pieces), NEW id, Answered(s, id)
  PROVE  Answered(s \o t, id)
<1>1. PICK k \in Nat : 1 =< k /\ 2 * k =< Len(s) /\ LineAt(s, k, "answer", id)
  BY DEF Answered
<1>2. (s \o t)[2 * k - 1] = s[2 * k - 1] /\ (s \o t)[2 * k] = s[2 * k] /\ 2 * k =< Len(s \o t)
  BY <1>1
<1>3. LineAt(s \o t, k, "answer", id)
  BY <1>1, <1>2 DEF LineAt
<1> QED BY <1>1, <1>2, <1>3 DEF Answered

LEMMA AnsweredThen ==
  ASSUME NEW s, Whole(s), NEW t \in Seq(Pieces), NEW id, Answered(t, id)
  PROVE  Answered(s \o t, id)
<1>1. PICK k \in Nat : 1 =< k /\ 2 * k =< Len(t) /\ LineAt(t, k, "answer", id)
  BY DEF Answered
<1>2. s \in Seq(Pieces)
  BY DEF Whole
<1>3. PICK n \in Nat : Len(s) = 2 * n
  BY DEF Whole
<1>4. PICK j \in Nat : j > n /\ j - n = k /\ 1 =< j /\ j = n + k
  BY <1>1
<1>5. Len(s \o t) = Len(s) + Len(t) /\ 2 * j =< Len(s) + Len(t)
  <2>1. Len(s \o t) = Len(s) + Len(t) /\ Len(t) \in Nat
    BY <1>2
  <2>2. 2 * j =< 2 * n + Len(t)
    BY <1>1, <1>4, <2>1
  <2> QED BY <1>3, <2>1, <2>2
<1>6. (s \o t)[2 * j - 1] = t[2 * (j - n) - 1] /\ (s \o t)[2 * j] = t[2 * (j - n)]
  BY <1>2, <1>3, <1>4, <1>5, JoinedSecond, Zenon
<1>7. LineAt(s \o t, j, "answer", id)
  BY <1>1, <1>4, <1>6 DEF LineAt
<1> QED BY <1>4, <1>5, <1>7 DEF Answered

\* Reading one piece of whole lines: a head is kept, a tail completes the line kept.
LEMMA HeadRead ==
  ASSUME NEW down \in Seq(Pieces), down # <<>>
  PROVE  <<Head(down)>> \o Tail(down) = down /\ Head(down) \in Pieces /\ Tail(down) \in Seq(Pieces)
OBVIOUS

LEMMA FirstLine ==
  ASSUME NEW s, Whole(s), s # <<>>
  PROVE  /\ Len(s) >= 2
         /\ \E kind \in {"answer", "event"}, id \in Nat : LineAt(s, 1, kind, id)
<1>1. s \in Seq(Pieces)
  BY DEF Whole
<1>2. PICK n \in Nat :
        /\ Len(s) = 2 * n
        /\ \A k \in 1..n : \E kind \in {"answer", "event"}, id \in Nat : LineAt(s, k, kind, id)
  BY DEF Whole
<1>3. Len(s) # 0
  BY <1>1
<1>4. 1 \in 1..n
  BY <1>2, <1>3
<1> QED BY <1>2, <1>4

LEMMA LineRead ==
  ASSUME NEW s, Whole(s), s # <<>>, NEW rest \in Seq(Pieces), Len(rest) = Len(s) - 2,
         \A i \in 1..Len(rest) : rest[i] = s[i + 2]
  PROVE  /\ Whole(rest)
         /\ \A id : Answered(s, id) => LineAt(s, 1, "answer", id) \/ Answered(rest, id)
<1>1. s \in Seq(Pieces)
  BY DEF Whole
<1>2. PICK n \in Nat :
        /\ Len(s) = 2 * n
        /\ \A k \in 1..n : \E kind \in {"answer", "event"}, id \in Nat : LineAt(s, k, kind, id)
  BY DEF Whole
<1>3. n - 1 \in Nat /\ Len(rest) = 2 * (n - 1)
  BY <1>1, <1>2
<1>4. ASSUME NEW k \in 1..n - 1
      PROVE  rest[2 * k - 1] = s[2 * (k + 1) - 1] /\ rest[2 * k] = s[2 * (k + 1)]
  <2>1. 2 * k - 1 \in 1..Len(rest) /\ 2 * k \in 1..Len(rest)
    BY <1>3
  <2>2. 2 * k - 1 + 2 = 2 * (k + 1) - 1 /\ 2 * k + 2 = 2 * (k + 1)
    OBVIOUS
  <2> QED BY <2>1, <2>2
<1>5. Whole(rest)
  <2>1. ASSUME NEW k \in 1..n - 1
        PROVE  \E kind \in {"answer", "event"}, id \in Nat : LineAt(rest, k, kind, id)
    <3>1. k + 1 \in 1..n
      OBVIOUS
    <3>2. PICK kind \in {"answer", "event"}, id \in Nat : LineAt(s, k + 1, kind, id)
      BY <1>2, <3>1
    <3> QED BY <1>4, <3>2 DEF LineAt
  <2> QED BY <1>3, <2>1 DEF Whole
<1>6. ASSUME NEW id, Answered(s, id)
      PROVE  LineAt(s, 1, "answer", id) \/ Answered(rest, id)
  <2>1. PICK k \in Nat : 1 =< k /\ 2 * k =< Len(s) /\ LineAt(s, k, "answer", id)
    BY <1>6 DEF Answered
  <2>2. CASE k = 1
    BY <2>1, <2>2
  <2>3. CASE k # 1
    <3>1. k - 1 \in 1..n - 1 /\ k - 1 \in Nat /\ 2 * (k - 1) =< Len(rest) /\ 1 =< k - 1
      BY <1>2, <1>3, <2>1, <2>3
    <3>2. k - 1 + 1 = k
      OBVIOUS
    <3>3. LineAt(rest, k - 1, "answer", id)
      BY <1>4, <2>1, <3>1, <3>2 DEF LineAt
    <3> QED BY <3>1, <3>3 DEF Answered
  <2> QED BY <2>2, <2>3
<1> QED BY <1>5, <1>6

-----------------------------------------------------------------------------
(* The fields of a connection.                                             *)

IsLink(l) ==
  /\ l = [at |-> l.at, owner |-> l.owner, up |-> l.up, down |-> l.down, shut |-> l.shut,
          gone |-> l.gone]
  /\ l.up \in Seq(Nat)

\* A connection of the settings application that is under way or over.
Own(l) == IsLink(l) /\ l.owner = "settings" /\ l.at # "none"

\* Whose a connection is, and that it was made, stays.
SameOwner(l, m) == IsLink(m) /\ m.owner = l.owner /\ (l.at # "none" => m.at # "none")

LEMMA AtSet ==
  ASSUME NEW l, IsLink(l), NEW x, x # "none"
  PROVE  /\ SameOwner(l, [l EXCEPT !.at = x]) /\ [l EXCEPT !.at = x].up = l.up
         /\ [l EXCEPT !.at = x].down = l.down /\ [l EXCEPT !.at = x].shut = l.shut
BY DEF SameOwner, IsLink

LEMMA UpSet ==
  ASSUME NEW l, IsLink(l), NEW x \in Seq(Nat)
  PROVE  /\ SameOwner(l, [l EXCEPT !.up = x]) /\ [l EXCEPT !.up = x].up = x
         /\ [l EXCEPT !.up = x].down = l.down /\ [l EXCEPT !.up = x].shut = l.shut
BY DEF SameOwner, IsLink

LEMMA DownSet ==
  ASSUME NEW l, IsLink(l), NEW x
  PROVE  /\ SameOwner(l, [l EXCEPT !.down = x]) /\ [l EXCEPT !.down = x].up = l.up
         /\ [l EXCEPT !.down = x].down = x /\ [l EXCEPT !.down = x].shut = l.shut
BY DEF SameOwner, IsLink

LEMMA GoneSet ==
  ASSUME NEW l, IsLink(l), NEW x
  PROVE  SameOwner(l, [l EXCEPT !.gone = x])
BY DEF SameOwner, IsLink

LEMMA ShutSet ==
  ASSUME NEW l, IsLink(l), NEW x
  PROVE  SameOwner(l, [l EXCEPT !.shut = x]) /\ [l EXCEPT !.shut = x].shut = x
BY DEF SameOwner, IsLink

LEMMA OwnerKept ==
  ASSUME NEW l, NEW m, NEW n, SameOwner(l, m), SameOwner(m, n)
  PROVE  SameOwner(l, n)
BY DEF SameOwner

LEMMA OverKeeps ==
  ASSUME NEW l, IsLink(l)
  PROVE  SameOwner(l, Over(l)) /\ (l.shut => Over(l).shut)
<1>1. CASE l.shut /\ (l.gone \/ l.down = <<>>)
  <2>1. Over(l) = [at |-> "over", owner |-> l.owner, up |-> <<>>, down |-> <<>>, shut |-> TRUE,
                   gone |-> l.gone]
    BY <1>1 DEF Over, NoLink
  <2> QED BY <2>1 DEF SameOwner, IsLink
<1>2. CASE ~(l.shut /\ (l.gone \/ l.down = <<>>))
  BY <1>2 DEF Over, SameOwner
<1> QED BY <1>1, <1>2

\* Hung up on.
LEMMA ShutOver ==
  ASSUME NEW l, IsLink(l)
  PROVE  /\ SameOwner(l, Over([l EXCEPT !.shut = TRUE])) /\ Over([l EXCEPT !.shut = TRUE]).shut
<1> DEFINE m == [l EXCEPT !.shut = TRUE]
<1>1. SameOwner(l, m) /\ m.shut = TRUE
  BY ShutSet
<1> HIDE DEF m
<1>2. SameOwner(m, Over(m)) /\ Over(m).shut
  BY <1>1, OverKeeps DEF SameOwner
<1>3. SameOwner(l, Over(m))
  BY <1>1, <1>2, OwnerKept
<1> QED BY <1>2, <1>3 DEF m

\* A client that is not hung up on got all of what was sent.
LEMMA SentWhole ==
  ASSUME NEW l, IsLink(l), NEW pieces
  PROVE  /\ SameOwner(l, Sent(l, pieces))
         /\ ~Sent(l, pieces).shut => /\ ~l.shut /\ Sent(l, pieces).up = l.up
                                     /\ Sent(l, pieces).down = l.down \o pieces
<1>1. CASE l.shut \/ l.gone
  <2>1. Sent(l, pieces) = [l EXCEPT !.shut = TRUE]
    BY <1>1 DEF Sent
  <2>2. SameOwner(l, [l EXCEPT !.shut = TRUE]) /\ [l EXCEPT !.shut = TRUE].shut = TRUE
    BY ShutSet
  <2> QED BY <2>1, <2>2
<1>2. CASE ~(l.shut \/ l.gone) /\ Room - Len(l.down) >= Len(pieces)
  <2> DEFINE all == l.down \o pieces
  <2>1. Sent(l, pieces) = [l EXCEPT !.down = all]
    BY <1>2 DEF Sent
  <2> HIDE DEF all
  <2>2. /\ SameOwner(l, [l EXCEPT !.down = all]) /\ [l EXCEPT !.down = all].up = l.up
        /\ [l EXCEPT !.down = all].down = all
    BY DownSet
  <2> QED BY <1>2, <2>1, <2>2 DEF all
<1>3. CASE ~(l.shut \/ l.gone) /\ ~(Room - Len(l.down) >= Len(pieces))
  <2> DEFINE part == l.down \o SubSeq(pieces, 1, Room - Len(l.down))
             m == [l EXCEPT !.down = part]
  <2>1. Sent(l, pieces) = [m EXCEPT !.shut = TRUE]
    BY <1>3 DEF Sent
  <2> HIDE DEF part
  <2>2. SameOwner(l, m)
    BY DownSet
  <2> HIDE DEF m
  <2>3. SameOwner(m, [m EXCEPT !.shut = TRUE]) /\ [m EXCEPT !.shut = TRUE].shut = TRUE
    BY <2>2, ShutSet DEF SameOwner
  <2>4. SameOwner(l, [m EXCEPT !.shut = TRUE])
    BY <2>2, <2>3, OwnerKept
  <2> QED BY <2>1, <2>3, <2>4
<1> QED BY <1>1, <1>2, <1>3

-----------------------------------------------------------------------------
(* The invariant.                                                          *)

IsApplication(s) == s = [link |-> s.link, buffer |-> s.buffer, pending |-> s.pending]
IsLoop(l) ==
  l = [at |-> l.at, ready |-> l.ready, accept |-> l.accept, index |-> l.index, lines |-> l.lines,
       closed |-> l.closed]

LEMMA LoopAt ==
  ASSUME NEW l, IsLoop(l), NEW x
  PROVE  /\ IsLoop([l EXCEPT !.at = x]) /\ [l EXCEPT !.at = x].at = x
         /\ [l EXCEPT !.at = x].lines = l.lines
BY DEF IsLoop

LEMMA LoopLines ==
  ASSUME NEW l, IsLoop(l), NEW x
  PROVE  /\ IsLoop([l EXCEPT !.lines = x]) /\ [l EXCEPT !.lines = x].at = l.at
         /\ [l EXCEPT !.lines = x].lines = x /\ [l EXCEPT !.lines = x].index = l.index
BY DEF IsLoop

LEMMA LoopIndex ==
  ASSUME NEW l, IsLoop(l), NEW x
  PROVE  /\ IsLoop([l EXCEPT !.index = x]) /\ [l EXCEPT !.index = x].at = l.at
         /\ [l EXCEPT !.index = x].lines = l.lines /\ [l EXCEPT !.index = x].index = x
BY DEF IsLoop

LEMMA LoopNext ==
  ASSUME NEW l, IsLoop(l), NEW x, NEW i
  PROVE  /\ IsLoop([l EXCEPT !.lines = x, !.index = i])
         /\ [l EXCEPT !.lines = x, !.index = i].at = l.at
         /\ [l EXCEPT !.lines = x, !.index = i].lines = x
         /\ [l EXCEPT !.lines = x, !.index = i].index = i
<1> DEFINE m == [l EXCEPT !.lines = x]
<1>1. IsLoop(m) /\ m.at = l.at /\ m.lines = x
  BY LoopLines
<1> HIDE DEF m
<1>2. /\ IsLoop([m EXCEPT !.index = i]) /\ [m EXCEPT !.index = i].at = l.at
      /\ [m EXCEPT !.index = i].lines = x /\ [m EXCEPT !.index = i].index = i
  BY <1>1, LoopIndex
<1> QED BY <1>2 DEF m

LEMMA ApplicationSet ==
  ASSUME NEW s, IsApplication(s), NEW x, NEW y
  PROVE  /\ IsApplication([s EXCEPT !.pending = x]) /\ [s EXCEPT !.pending = x].pending = x
         /\ [s EXCEPT !.pending = x].link = s.link /\ [s EXCEPT !.pending = x].buffer = s.buffer
         /\ IsApplication([s EXCEPT !.buffer = y]) /\ [s EXCEPT !.buffer = y].buffer = y
         /\ [s EXCEPT !.buffer = y].link = s.link /\ [s EXCEPT !.buffer = y].pending = s.pending
BY DEF IsApplication

LEMMA ApplicationRead ==
  ASSUME NEW s, IsApplication(s), NEW x
  PROVE  /\ [s EXCEPT !.buffer = <<>>, !.pending = x].buffer = <<>>
         /\ [s EXCEPT !.buffer = <<>>, !.pending = x].pending = x
         /\ [s EXCEPT !.buffer = <<>>, !.pending = x].link = s.link
<1> DEFINE n == [s EXCEPT !.buffer = <<>>]
<1>1. IsApplication(n) /\ n.buffer = <<>> /\ n.link = s.link
  BY DEF IsApplication
<1> HIDE DEF n
<1>2. /\ [n EXCEPT !.pending = x].buffer = <<>> /\ [n EXCEPT !.pending = x].pending = x
      /\ [n EXCEPT !.pending = x].link = s.link
  BY <1>1, ApplicationSet
<1> QED BY <1>2 DEF n

LEMMA AtPollIsLoop == IsLoop(AtPoll) /\ AtPoll.at = "poll" /\ AtPoll.lines = <<>>
BY DEF IsLoop, AtPoll

LinksOK == link = [c \in Links |-> link[c]] /\ \A c \in Links : IsLink(link[c])

LoopOK ==
  /\ IsApplication(settings) /\ IsLoop(loop)
  /\ loop.lines \in Seq(Nat)
  /\ loop.at # "clients" => loop.lines = <<>>
  /\ outbox \in Seq(Nat) /\ pushing \in Nat /\ called \in Nat

\* Events wait only for somebody who was woken, or will be.
EventsComing ==
  /\ loop.at \in {"poll", "drain", "clients"} /\ outbox # <<>> => wake \/ pushing > 0
  /\ loop.at = "stopped" => outbox = <<>>

\* The connection of the settings application is its own; without one nothing is pending.
OwnConnection ==
  /\ settings.link = NoConnection => settings.pending = {}
  /\ settings.link # NoConnection => settings.link \in Links /\ Own(link[settings.link])

\* The daemon has a call, or is handling it.
Asked(id, c) ==
  \/ id \in Range(link[c].up)
  \/ id \in Range(loop.lines) /\ clients[loop.index] = c

\* While a connection stands, what the settings application kept and what is on its way to it
\* are whole lines, and each call pending is asked or answered.
InFlight ==
  settings.link # NoConnection /\ ~link[settings.link].shut =>
    /\ link[settings.link].down \in Seq(Pieces)
    /\ settings.buffer \in Seq(Pieces) /\ Len(settings.buffer) =< 1
    /\ Whole(settings.buffer \o link[settings.link].down)
    /\ \A id \in settings.pending :
         \/ Asked(id, settings.link)
         \/ Answered(settings.buffer \o link[settings.link].down, id)

IpcInv == LinksOK /\ LoopOK /\ EventsComing /\ OwnConnection /\ InFlight

LEMMA IpcInvInit == IpcInit => IpcInv
<1> SUFFICES ASSUME IpcInit PROVE IpcInv
  OBVIOUS
<1>1. LoopOK
  BY DEF IpcInit, LoopOK, AtPoll, IsLoop, IsApplication
<1>3. IsLink(NoLink)
  BY DEF IsLink, NoLink
<1>4. LinksOK
  BY <1>3 DEF IpcInit, LinksOK
<1>2. EventsComing /\ OwnConnection /\ InFlight
  BY DEF IpcInit, EventsComing, OwnConnection, InFlight, NoConnection, AtPoll
<1> QED BY <1>1, <1>2, <1>4 DEF IpcInv

AskedThen(id, c) ==
  \/ id \in Range(link'[c].up)
  \/ id \in Range(loop'.lines) /\ clients'[loop'.index] = c

\* A step that leaves what the settings application knows alone, and of its connection keeps
\* what is on its way and adds whole lines to it, or hangs up.
Kept(c) ==
  /\ Own(link'[c])
  /\ ~link'[c].shut =>
       /\ ~link[c].shut
       /\ \E more : /\ Whole(more) /\ link'[c].down = link[c].down \o more
                    /\ \A id : Asked(id, c) => AskedThen(id, c) \/ Answered(more, id)

LEMMA Onward ==
  ASSUME OwnConnection, InFlight, UNCHANGED settings,
         settings.link # NoConnection => Kept(settings.link)
  PROVE  OwnConnection' /\ InFlight'
<1>1. OwnConnection'
  BY DEF OwnConnection, Kept
<1>2. CASE settings.link = NoConnection
  BY <1>1, <1>2 DEF InFlight
<1>3. CASE settings.link # NoConnection
  <2> DEFINE c == settings.link
  <2>1. CASE link'[c].shut
    <3>1. settings'.link = c
      OBVIOUS
    <3>2. InFlight'
      BY <2>1, <3>1, Zenon DEF InFlight
    <3> QED BY <1>1, <3>2
  <2>2. CASE ~link'[c].shut
    <3>1. ~link[c].shut
      BY <1>3, <2>2 DEF Kept
    <3>2. PICK more : /\ Whole(more) /\ link'[c].down = link[c].down \o more
                      /\ \A id : Asked(id, c) => AskedThen(id, c) \/ Answered(more, id)
      BY <1>3, <2>2 DEF Kept
    <3>3. /\ link[c].down \in Seq(Pieces) /\ settings.buffer \in Seq(Pieces)
          /\ Len(settings.buffer) =< 1 /\ Whole(settings.buffer \o link[c].down)
          /\ \A id \in settings.pending :
               Asked(id, c) \/ Answered(settings.buffer \o link[c].down, id)
      BY <1>3, <3>1 DEF InFlight
    <3> DEFINE ahead == settings.buffer \o link[c].down
    <3>4. more \in Seq(Pieces)
      BY <3>2 DEF Whole
    <3>5. settings'.buffer \o link'[c].down = ahead \o more /\ link'[c].down \in Seq(Pieces)
          /\ ahead \in Seq(Pieces)
      <4>1. (settings.buffer \o link[c].down) \o more = settings.buffer \o (link[c].down \o more)
        BY <3>3, <3>4, JoinedAgain
      <4> QED BY <3>2, <3>3, <3>4, <4>1
    <3> HIDE DEF ahead
    <3>6. Whole(ahead \o more)
      BY <3>2, <3>3, WholeJoined DEF ahead
    <3>7. ASSUME NEW id \in settings.pending
          PROVE  AskedThen(id, c) \/ Answered(ahead \o more, id)
      <4>1. CASE Answered(ahead, id)
        BY <3>4, <3>5, <4>1, AnsweredStill
      <4>2. CASE Answered(more, id)
        BY <3>3, <3>4, <4>2, AnsweredThen DEF ahead
      <4> QED BY <3>2, <3>3, <4>1, <4>2 DEF ahead
    <3>8. settings'.link = c /\ settings'.buffer = settings.buffer
          /\ settings'.pending = settings.pending
      OBVIOUS
    <3>9. ASSUME NEW id \in settings'.pending
          PROVE  \/ Asked(id, settings.link)'
                 \/ Answered(settings'.buffer \o link'[settings'.link].down, id)
      BY <3>5, <3>7, <3>8 DEF Asked, AskedThen
    <3>10. /\ link'[settings'.link].down \in Seq(Pieces)
           /\ settings'.buffer \in Seq(Pieces) /\ Len(settings'.buffer) =< 1
           /\ Whole(settings'.buffer \o link'[settings'.link].down)
      BY <3>1, <3>3, <3>5, <3>6, <3>8
    <3>11. InFlight'
      BY <3>9, <3>10, Zenon DEF InFlight
    <3> QED BY <1>1, <3>11
  <2> QED BY <2>1, <2>2
<1> QED BY <1>1, <1>2, <1>3

-----------------------------------------------------------------------------
(* The types, and the events.                                              *)

LEMMA LoopKept ==
  ASSUME LoopOK, IsLoop(loop'), UNCHANGED <<settings, called>>,
         loop'.lines \in Seq(Nat), loop'.at = "clients" \/ loop'.lines = <<>>,
         outbox' = outbox \/ outbox' = <<>>, pushing' \in Nat
  PROVE  LoopOK'
<1>1. outbox' \in Seq(Nat)
  <2>1. <<>> \in Seq(Nat)
    OBVIOUS
  <2>2. outbox \in Seq(Nat)
    BY DEF LoopOK
  <2> QED BY <2>1, <2>2, Zenon
<1>2. IsApplication(settings') /\ called' \in Nat
  BY DEF LoopOK
<1> QED BY <1>1, <1>2 DEF LoopOK

LEMMA LoopSteps ==
  ASSUME LinksOK, LoopOK, IpcNext
  PROVE  LoopOK'
<1>1. CASE Broadcast
  BY <1>1 DEF Broadcast, EventId, LoopOK, IsLoop, IsApplication
<1>2. CASE Wake
  BY <1>2 DEF Wake, LoopOK, IsLoop, IsApplication
<1>3. CASE Poll
  BY <1>3 DEF Poll, LoopOK, IsLoop, IsApplication, AtPoll
<1>4. CASE DrainAndDeliver
  <2>1. /\ loop' = [loop EXCEPT !.at = "deliver"] \/ loop' = [loop EXCEPT !.at = "clients"]
        /\ loop.at # "clients" /\ UNCHANGED <<settings, pushing, called>>
        /\ outbox' = outbox \/ outbox' = <<>>
    BY <1>4 DEF DrainAndDeliver
  <2> QED BY <2>1 DEF LoopOK, IsLoop, IsApplication
<1>5. CASE SkipClient
  BY <1>5 DEF SkipClient, AtClient, LoopOK, IsLoop, IsApplication
<1>6. CASE ReadClient
  <2>1. PICK c \in Links :
          /\ \/ loop' = [loop EXCEPT !.closed = loop.closed \cup {loop.index},
                                      !.index = loop.index + 1]
             \/ loop' = [loop EXCEPT !.lines = link[c].up]
          /\ loop.at = "clients" /\ UNCHANGED <<settings, pushing, called, outbox>>
    BY <1>6 DEF ReadClient, AtClient
  <2>2. link[c].up \in Seq(Nat)
    BY DEF LinksOK, IsLink
  <2> QED BY <2>1, <2>2 DEF LoopOK, IsLoop, IsApplication
<1>7. CASE Dispatch
  <2> DEFINE index == IF Len(loop.lines) = 1 THEN loop.index + 1 ELSE loop.index
  <2>1. /\ loop.at = "clients" /\ loop.lines # <<>> /\ UNCHANGED <<settings, pushing, called>>
        /\ outbox' = outbox \/ outbox' = <<>>
        /\ loop' = [loop EXCEPT !.lines = Tail(loop.lines), !.index = index]
    BY <1>7, Zenon DEF Dispatch
  <2> HIDE DEF index
  <2>2. Tail(loop.lines) \in Seq(Nat)
    BY <2>1 DEF LoopOK, IsLoop, IsApplication
  <2>3. IsLoop(loop)
    BY DEF LoopOK
  <2> DEFINE l == [loop EXCEPT !.lines = Tail(loop.lines)]
  <2>6. IsLoop(l) /\ l.at = loop.at /\ l.lines = Tail(loop.lines)
    BY <2>3, LoopLines
  <2>7. loop' = [l EXCEPT !.index = index]
    BY <2>1
  <2> HIDE DEF l
  <2>8. IsLoop([l EXCEPT !.index = index]) /\ [l EXCEPT !.index = index].at = l.at
        /\ [l EXCEPT !.index = index].lines = l.lines
    BY <2>6, LoopIndex
  <2>4. IsLoop(loop') /\ loop'.at = loop.at /\ loop'.lines = Tail(loop.lines)
    BY <2>6, <2>7, <2>8
  <2>5. pushing' \in Nat
    BY <2>1 DEF LoopOK
  <2> QED BY <2>1, <2>2, <2>4, <2>5, LoopKept
<1>8. CASE EndOfRound
  <2>1. loop' = AtPoll /\ UNCHANGED <<settings, pushing, called, outbox>>
    BY <1>8 DEF EndOfRound
  <2> QED BY <2>1 DEF LoopOK, IsLoop, IsApplication, AtPoll
<1>9. CASE StopServer
  <2>1. loop' = [AtPoll EXCEPT !.at = "stopped"] /\ outbox' = <<>> /\ pushing' = 0
        /\ UNCHANGED <<settings, called>>
    BY <1>9, Zenon DEF StopServer
  <2>2. IsLoop(loop') /\ loop'.at = "stopped" /\ loop'.lines = <<>>
    BY <2>1, AtPollIsLoop, LoopAt
  <2>3. <<>> \in Seq(Nat) /\ 0 \in Nat
    OBVIOUS
  <2> QED BY <2>1, <2>2, <2>3, LoopKept
<1>10. CASE Restart
  BY <1>10 DEF Restart, LoopOK, IsLoop, IsApplication, AtPoll
<1>11. CASE Call
  <2> DEFINE all == settings.pending \cup {called + 1}
  <2>1. /\ settings' = [settings EXCEPT !.pending = all]
        /\ called' = called + 1 /\ UNCHANGED <<loop, pushing, outbox>>
    BY <1>11, Zenon DEF Call
  <2> HIDE DEF all
  <2>2. IsApplication(settings')
    BY <2>1, ApplicationSet DEF LoopOK
  <2> QED BY <2>1, <2>2 DEF LoopOK
<1>12. CASE Read
  <2> DEFINE piece == Head(link[settings.link].down)
             line == Append(settings.buffer, piece)
             left == settings.pending \ {piece.id}
  <2>1. /\ \/ settings' = [settings EXCEPT !.buffer = line]
           \/ settings' = [settings EXCEPT !.buffer = <<>>, !.pending = left]
           \/ settings' = [settings EXCEPT !.buffer = <<>>]
        /\ UNCHANGED <<loop, pushing, outbox, called>>
    BY <1>12, Zenon DEF Read
  <2> HIDE DEF line, left
  <2> QED BY <2>1 DEF LoopOK, IsLoop, IsApplication
<1>13. CASE TimeOut
  <2>1. PICK id : settings' = [settings EXCEPT !.pending = settings.pending \ {id}]
    BY <1>13 DEF TimeOut
  <2> QED BY <1>13, <2>1 DEF LoopOK, IsLoop, IsApplication, TimeOut
<1>14. CASE Disconnected
  BY <1>14 DEF LoopOK, IsLoop, IsApplication, Disconnected
<1>15. ASSUME NEW c \in Links, Connect(c) \/ CtlConnect(c) \/ CtlReads(c) \/ CtlGivesUp(c)
       PROVE  LoopOK'
  <2>1. /\ settings' = settings \/ settings' = [settings EXCEPT !.link = c, !.buffer = <<>>]
        /\ UNCHANGED <<loop, pushing, outbox, called>>
    BY <1>15, Zenon DEF Connect, CtlConnect, CtlReads, CtlGivesUp
  <2> QED BY <2>1 DEF LoopOK, IsLoop, IsApplication
<1> QED BY <1>1, <1>2, <1>3, <1>4, <1>5, <1>6, <1>7, <1>8, <1>9, <1>10, <1>11, <1>12,
           <1>13, <1>14, <1>15 DEF IpcNext

LEMMA EventSteps ==
  ASSUME LoopOK, EventsComing, IpcNext
  PROVE  EventsComing'
<1>1. CASE Broadcast \/ Wake
  BY <1>1 DEF Broadcast, Wake, Serving, EventsComing, LoopOK
<1>2. CASE Poll
  BY <1>2 DEF Poll, EventsComing, AtPoll
<1>3. CASE DrainAndDeliver \/ SkipClient \/ ReadClient
  <2>1. IsLoop(loop)
    BY DEF LoopOK
  <2>2. CASE loop' = [loop EXCEPT !.at = "deliver"]
    <3>1. loop'.at = "deliver"
      BY <2>1, <2>2, LoopAt
    <3> QED BY <3>1 DEF EventsComing
  <2>3. CASE outbox' = <<>>
    BY <2>3 DEF EventsComing
  <2>4. CASE SkipClient \/ ReadClient
    <3>1. loop'.at = loop.at /\ UNCHANGED <<wake, outbox, pushing>>
      BY <2>1, <2>4 DEF SkipClient, ReadClient, AtClient, IsLoop
    <3> QED BY <3>1 DEF EventsComing
  <2> QED BY <1>3, <2>2, <2>3, <2>4 DEF DrainAndDeliver
<1>4. CASE Dispatch
  BY <1>4 DEF Dispatch, EventsComing, LoopOK
<1>5. CASE EndOfRound \/ StopServer \/ Restart
  <2>1. CASE EndOfRound
    <3>1. loop.at = "clients" /\ UNCHANGED <<wake, outbox, pushing>> /\ loop' = AtPoll
      BY <2>1 DEF EndOfRound
    <3> QED BY <3>1 DEF EventsComing, AtPoll
  <2>2. CASE StopServer
    <3>1. outbox' = <<>>
      BY <2>2, Zenon DEF StopServer
    <3> QED BY <3>1 DEF EventsComing
  <2>3. CASE Restart
    BY <2>3 DEF Restart, Serving, EventsComing, AtPoll
  <2> QED BY <1>5, <2>1, <2>2, <2>3
<1>6. CASE Call \/ Read \/ TimeOut \/ Disconnected
  BY <1>6 DEF Call, Read, TimeOut, Disconnected, EventsComing
<1>7. ASSUME NEW c \in Links, Connect(c) \/ CtlConnect(c) \/ CtlReads(c) \/ CtlGivesUp(c)
      PROVE  EventsComing'
  BY <1>7 DEF Connect, CtlConnect, CtlReads, CtlGivesUp, EventsComing
<1> QED BY <1>1, <1>2, <1>3, <1>4, <1>5, <1>6, <1>7 DEF IpcNext

-----------------------------------------------------------------------------
(* The calls of the settings application.                                  *)

\* A step that adds whole lines to what is on its way to the client at most, or hangs up.
Grown(l, m) ==
  /\ SameOwner(l, m)
  /\ ~m.shut => /\ ~l.shut /\ m.up = l.up
                /\ m.down = l.down \/ \E more : Whole(more) /\ m.down = l.down \o more

LEMMA GrownNone == ASSUME NEW l, IsLink(l) PROVE Grown(l, l)
BY DEF Grown, SameOwner

LEMMA GrownAt ==
  ASSUME NEW l, IsLink(l), NEW x, x # "none" PROVE Grown(l, [l EXCEPT !.at = x])
BY AtSet DEF Grown

LEMMA GrownOver == ASSUME NEW l, IsLink(l) PROVE Grown(l, Over([l EXCEPT !.shut = TRUE]))
BY ShutOver DEF Grown

LEMMA GrownSent ==
  ASSUME NEW l, IsLink(l), NEW pieces, Whole(pieces) PROVE Grown(l, Sent(l, pieces))
BY SentWhole DEF Grown

LEMMA GrownTwice ==
  ASSUME NEW l, NEW m, NEW n, Grown(l, m), SameOwner(m, n), n.shut PROVE Grown(l, n)
BY OwnerKept DEF Grown

LEMMA GrownKept ==
  ASSUME NEW c, InFlight, c = settings.link, settings.link # NoConnection, Own(link[c]),
         Grown(link[c], link'[c]),
         ~link'[c].shut => \A id : Asked(id, c) => AskedThen(id, c)
  PROVE  Kept(c)
<1>1. Own(link'[c])
  BY DEF Own, Grown, SameOwner
<1>2. CASE link'[c].shut
  BY <1>1, <1>2 DEF Kept
<1>3. CASE ~link'[c].shut
  <2>1. /\ ~link[c].shut /\ link'[c].up = link[c].up
        /\ \/ link'[c].down = link[c].down
           \/ \E more : Whole(more) /\ link'[c].down = link[c].down \o more
    BY <1>3 DEF Grown
  <2>2. link[c].down \in Seq(Pieces)
    BY <2>1 DEF InFlight
  <2>3. link[c].down \o <<>> = link[c].down
    BY <2>2
  <2>4. PICK more : Whole(more) /\ link'[c].down = link[c].down \o more
    BY <2>1, <2>3, NothingIsWhole, Zenon
  <2> QED BY <1>1, <1>3, <2>1, <2>4, Zenon DEF Kept
<1> QED BY <1>2, <1>3

LEMMA KeptGrown ==
  ASSUME NEW c, InFlight, c = settings.link, settings.link # NoConnection, Own(link[c]),
         Grown(link[c], link'[c]),
         link'[c].shut \/ loop.lines = <<>> \/ UNCHANGED <<loop, clients>>
  PROVE  Kept(c)
<1>1. ASSUME ~link'[c].shut, NEW id, Asked(id, c) PROVE AskedThen(id, c)
  <2>1. link'[c].up = link[c].up
    BY <1>1 DEF Grown
  <2>2. CASE id \in Range(link[c].up)
    BY <2>1, <2>2 DEF AskedThen
  <2>3. CASE id \in Range(loop.lines) /\ clients[loop.index] = c
    <3>1. loop.lines # <<>>
      BY <2>3 DEF Range
    <3> QED BY <1>1, <2>3, <3>1 DEF AskedThen
  <2> QED BY <1>1, <2>2, <2>3 DEF Asked
<1> QED BY <1>1, GrownKept

LEMMA AllGrown ==
  ASSUME IpcInv, link' = [c \in Links |-> link'[c]],
         \A c \in Links : Grown(link[c], link'[c]), UNCHANGED settings,
         loop.lines = <<>> \/ UNCHANGED <<loop, clients>>
  PROVE  LinksOK' /\ OwnConnection' /\ InFlight'
<1>1. LinksOK'
  BY DEF LinksOK, Grown, SameOwner
<1>2. settings.link # NoConnection => Kept(settings.link)
  BY KeptGrown DEF IpcInv, OwnConnection
<1>3. OwnConnection' /\ InFlight'
  BY <1>2, Onward DEF IpcInv
<1> QED BY <1>1, <1>3

LEMMA DeliveredGrown ==
  ASSUME LinksOK, outbox \in Seq(Nat)
  PROVE  /\ Delivered(link) = [c \in Links |-> Delivered(link)[c]]
         /\ \A c \in Links : Grown(link[c], Delivered(link)[c])
<1>1. Delivered(link) = [c \in Links |-> Delivered(link)[c]]
  BY DEF Delivered
<1>2. ASSUME NEW c \in Links PROVE Grown(link[c], Delivered(link)[c])
  <2>1. IsLink(link[c])
    BY DEF LinksOK
  <2>2. Len(outbox) \in Nat
    OBVIOUS
  <2>3. Whole(Events(Len(outbox)))
    BY <2>2, EventsAreWhole
  <2>4. Delivered(link)[c] = Sent(link[c], Events(Len(outbox))) \/ Delivered(link)[c] = link[c]
    BY DEF Delivered
  <2> QED BY <2>1, <2>3, <2>4, GrownSent, GrownNone
<1> QED BY <1>1, <1>2

\* The loop's own steps, except reading and answering.
LEMMA LoopFlight ==
  ASSUME IpcInv, Broadcast \/ Wake \/ Poll \/ DrainAndDeliver \/ SkipClient \/ Restart
  PROVE  LinksOK' /\ OwnConnection' /\ InFlight'
<1>1. LinksOK /\ LoopOK
  BY DEF IpcInv
<1>2. \A c \in Links : Grown(link[c], link[c])
  BY <1>1, GrownNone DEF LinksOK
<1>3. loop.lines = <<>> \/ UNCHANGED <<loop, clients>>
  BY <1>1 DEF Broadcast, Wake, Poll, DrainAndDeliver, SkipClient, Restart, AtClient, Serving,
     LoopOK
<1>4. UNCHANGED settings /\ (link' = link \/ link' = Delivered(link))
  BY DEF Broadcast, Wake, Poll, DrainAndDeliver, SkipClient, Restart
<1>5. link = [c \in Links |-> link[c]]
  BY <1>1 DEF LinksOK
<1>6. CASE link' = link
  BY <1>2, <1>3, <1>4, <1>5, <1>6, AllGrown
<1>7. CASE link' = Delivered(link)
  <2>1. /\ Delivered(link) = [c \in Links |-> Delivered(link)[c]]
        /\ \A c \in Links : Grown(link[c], Delivered(link)[c])
    BY <1>1, DeliveredGrown DEF LoopOK
  <2> QED BY <1>3, <1>4, <1>7, <2>1, AllGrown
<1> QED BY <1>4, <1>6, <1>7

LEMMA RoundFlight ==
  ASSUME IpcInv, EndOfRound
  PROVE  LinksOK' /\ OwnConnection' /\ InFlight'
<1> DEFINE accepted(c) == [link EXCEPT ![c].at = "accepted"]
           dropped(l) == Over([l EXCEPT !.shut = TRUE])
<1>1. LinksOK
  BY DEF IpcInv
<1>2. \E links :
        /\ links = link \/ \E c : links = accepted(c)
        /\ link' = [d \in Links |-> link'[d]]
        /\ \A d \in Links : link'[d] = links[d] \/ link'[d] = dropped(links[d])
  BY <1>1 DEF EndOfRound, LinksOK
<1>3. UNCHANGED settings /\ loop.lines = <<>>
  BY DEF EndOfRound
<1>4. ASSUME NEW links, links = link \/ \E c : links = accepted(c), NEW d \in Links
      PROVE  Grown(link[d], links[d]) /\ Grown(link[d], dropped(links[d]))
  <2>1. IsLink(link[d])
    BY <1>1 DEF LinksOK
  <2>2. links[d] = link[d] \/ links[d] = [link[d] EXCEPT !.at = "accepted"]
    BY <1>1, <1>4 DEF LinksOK
  <2>3. Grown(link[d], links[d])
    BY <2>1, <2>2, GrownNone, GrownAt
  <2>4. IsLink(links[d])
    BY <2>3 DEF Grown, SameOwner
  <2>5. SameOwner(links[d], dropped(links[d])) /\ dropped(links[d]).shut
    BY <2>4, ShutOver
  <2> QED BY <2>3, <2>5, GrownTwice
<1> HIDE DEF accepted, dropped
<1>5. link' = [d \in Links |-> link'[d]] /\ \A d \in Links : Grown(link[d], link'[d])
  BY <1>2, <1>4
<1> QED BY <1>3, <1>5, AllGrown

LEMMA EndedGrown ==
  ASSUME NEW l, IsLink(l)
  PROVE  /\ Grown(l, Over([l EXCEPT !.shut = TRUE, !.at = "accepted"]))
         /\ Over([l EXCEPT !.shut = TRUE, !.at = "accepted"]).shut
<1> DEFINE m == [l EXCEPT !.at = "accepted"]
<1>1. Grown(l, m)
  BY GrownAt
<1>2. [l EXCEPT !.shut = TRUE, !.at = "accepted"] = [m EXCEPT !.shut = TRUE]
  BY DEF IsLink
<1> HIDE DEF m
<1>3. SameOwner(m, Over([m EXCEPT !.shut = TRUE])) /\ Over([m EXCEPT !.shut = TRUE]).shut
  BY <1>1, ShutOver DEF Grown, SameOwner
<1>4. Grown(l, Over([m EXCEPT !.shut = TRUE]))
  BY <1>1, <1>3, GrownTwice
<1> QED BY <1>2, <1>3, <1>4, Zenon

LEMMA StopFlight ==
  ASSUME IpcInv, StopServer
  PROVE  LinksOK' /\ OwnConnection' /\ InFlight'
<1> DEFINE ended(l) == Over([l EXCEPT !.shut = TRUE, !.at = "accepted"])
<1>1. LinksOK /\ OwnConnection /\ InFlight
  BY DEF IpcInv
<1>2. /\ link' = [c \in Links |-> IF link[c].at = "none" THEN link[c] ELSE ended(link[c])]
      /\ settings' = settings
  BY Zenon DEF StopServer
<1>3. \A c \in Links : Grown(link[c], ended(link[c])) /\ ended(link[c]).shut
  <2>1. \A c \in Links : IsLink(link[c])
    BY <1>1 DEF LinksOK
  <2>2. ASSUME NEW c \in Links PROVE Grown(link[c], ended(link[c])) /\ ended(link[c]).shut
    <3>1. IsLink(link[c])
      BY <2>1
    <3> QED BY <3>1, EndedGrown, Zenon
  <2> QED BY <2>2, Zenon
<1>4. \A c \in Links : Grown(link[c], link[c])
  BY <1>1, GrownNone DEF LinksOK
<1> HIDE DEF ended
<1>5. /\ link' = [c \in Links |-> link'[c]]
      /\ \A c \in Links : link'[c] = link[c] \/ link'[c] = ended(link[c])
      /\ \A c \in Links : link[c].at # "none" => link'[c] = ended(link[c])
  BY <1>2
<1>6. \A c \in Links : Grown(link[c], link'[c]) /\ (link[c].at # "none" => link'[c].shut)
  BY <1>3, <1>4, <1>5
<1>7. LinksOK'
  BY <1>5, <1>6 DEF LinksOK, Grown, SameOwner
<1>8. settings.link # NoConnection => Kept(settings.link)
  <2>1. SUFFICES ASSUME settings.link # NoConnection PROVE Kept(settings.link)
    OBVIOUS
  <2>2. settings.link \in Links /\ Own(link[settings.link])
    BY <1>1, <2>1 DEF OwnConnection
  <2>3. Grown(link[settings.link], link'[settings.link]) /\ link'[settings.link].shut
    BY <1>6, <2>2 DEF Own
  <2> QED BY <1>1, <2>1, <2>2, <2>3, KeptGrown
<1>9. UNCHANGED settings
  BY <1>2
<1>10. OwnConnection' /\ InFlight'
  BY <1>1, <1>8, <1>9, Onward
<1> QED BY <1>7, <1>10

-----------------------------------------------------------------------------
(* A client is read, a call is answered.                                   *)

LEMMA ReadFlight ==
  ASSUME IpcInv, ReadClient
  PROVE  LinksOK' /\ OwnConnection' /\ InFlight'
<1>1. LinksOK /\ LoopOK /\ OwnConnection /\ InFlight
  BY DEF IpcInv
<1>2. PICK c \in Links :
        /\ c = clients[loop.index]
        /\ IF ToDrop(c)
           THEN link' = link
           ELSE /\ loop' = [loop EXCEPT !.lines = link[c].up]
                /\ link' = [link EXCEPT ![c].up = <<>>]
  BY DEF ReadClient
<1>3. loop.lines = <<>> /\ UNCHANGED <<settings, clients>>
  BY DEF ReadClient, AtClient
<1>4. \A d \in Links : IsLink(link[d])
  BY <1>1 DEF LinksOK
<1>5. link = [d \in Links |-> link[d]]
  BY <1>1 DEF LinksOK
<1>6. CASE link' = link
  <2>1. \A d \in Links : Grown(link[d], link'[d])
    BY <1>4, <1>6, GrownNone
  <2> QED BY <1>3, <1>5, <1>6, <2>1, AllGrown
<1>7. CASE loop' = [loop EXCEPT !.lines = link[c].up] /\ link' = [link EXCEPT ![c].up = <<>>]
  <2> DEFINE l == link[c]
             m == [l EXCEPT !.up = <<>>]
  <2>1. /\ link' = [d \in Links |-> link'[d]] /\ link'[c] = m
        /\ \A d \in Links : d # c => link'[d] = link[d]
    BY <1>5, <1>7
  <2>2. <<>> \in Seq(Nat)
    OBVIOUS
  <2>3. IsLink(l)
    BY <1>4
  <2>4. SameOwner(l, m) /\ m.down = l.down /\ m.shut = l.shut
    BY <2>2, <2>3, UpSet
  <2>5. loop'.lines = l.up /\ loop'.index = loop.index
    BY <1>1, <1>7, LoopLines DEF LoopOK
  <2> HIDE DEF m
  <2>6. \A d \in Links : SameOwner(link[d], link'[d])
    BY <1>4, <2>1, <2>4 DEF SameOwner
  <2>7. LinksOK'
    BY <2>1, <2>6 DEF LinksOK, SameOwner
  <2>8. ASSUME settings.link # NoConnection PROVE Kept(settings.link)
    <3> DEFINE d == settings.link
    <3>1. d \in Links /\ Own(link[d])
      BY <1>1, <2>8 DEF OwnConnection
    <3>2. CASE d # c
      <4>1. Grown(link[d], link'[d])
        BY <1>4, <2>1, <3>1, <3>2, GrownNone
      <4> QED BY <1>1, <1>3, <2>8, <3>1, <4>1, KeptGrown
    <3>3. CASE d = c
      <4>1. Own(link'[d])
        BY <2>6, <3>1 DEF Own, SameOwner
      <4>2. link'[d].down = link[d].down /\ link'[d].shut = link[d].shut
        BY <2>1, <2>4, <3>3
      <4>3. CASE link[d].shut
        BY <4>1, <4>2, <4>3 DEF Kept
      <4>4. CASE ~link[d].shut
        <5>1. link[d].down \in Seq(Pieces)
          BY <1>1, <2>8, <4>4 DEF InFlight
        <5>2. link'[d].down = link[d].down \o <<>>
          BY <4>2, <5>1
        <5>3. ASSUME NEW id, Asked(id, d) PROVE AskedThen(id, d)
          <6>1. ~(id \in Range(loop.lines))
            BY <1>3 DEF Range
          <6>2. id \in Range(link[d].up)
            BY <5>3, <6>1 DEF Asked
          <6> QED BY <1>2, <1>3, <2>5, <3>3, <6>2 DEF AskedThen
        <5> QED BY <4>1, <4>4, <5>2, <5>3, NothingIsWhole, Zenon DEF Kept
      <4> QED BY <4>3, <4>4
    <3> QED BY <3>2, <3>3
  <2>9. OwnConnection' /\ InFlight'
    BY <1>1, <1>3, <2>8, Onward
  <2> QED BY <2>7, <2>9
<1> QED BY <1>2, <1>6, <1>7

LEMMA AnswerIsThere ==
  ASSUME NEW id \in Nat
  PROVE  Whole(Line("answer", id)) /\ Answered(Line("answer", id), id)
<1>1. /\ Whole(Line("answer", id))
      /\ Line("answer", id) = <<Piece("answer", id, "head"), Piece("answer", id, "tail")>>
  BY LineIsWhole
<1>2. LineAt(Line("answer", id), 1, "answer", id) /\ 2 * 1 =< Len(Line("answer", id))
  BY <1>1 DEF LineAt
<1>3. 1 \in Nat /\ 1 =< 1
  OBVIOUS
<1> QED BY <1>1, <1>2, <1>3, Zenon DEF Answered

LEMMA HeadOrTail ==
  ASSUME NEW s \in Seq(Nat), s # <<>>, NEW id \in Range(s)
  PROVE  id = Head(s) \/ (id \in Range(Tail(s)) /\ Len(s) # 1)
<1>1. PICK i \in 1..Len(s) : s[i] = id
  BY DEF Range
<1>2. CASE i = 1
  BY <1>1, <1>2
<1>3. CASE i # 1
  <2>1. Len(Tail(s)) = Len(s) - 1 /\ \A j \in 1..Len(s) - 1 : Tail(s)[j] = s[j + 1]
    OBVIOUS
  <2>0. Len(s) \in Nat /\ i \in 1..Len(s)
    OBVIOUS
  <2>2. i - 1 \in 1..Len(s) - 1 /\ Len(s) # 1
    BY <1>3, <2>0, SMT
  <2>3. Tail(s)[i - 1] = id /\ i - 1 \in DOMAIN Tail(s)
    BY <1>1, <2>1, <2>2
  <2> QED BY <2>2, <2>3 DEF Range
<1> QED BY <1>2, <1>3

LEMMA DispatchFlight ==
  ASSUME IpcInv, Dispatch
  PROVE  LinksOK' /\ OwnConnection' /\ InFlight'
<1> DEFINE call == Head(loop.lines)
           answer == Line("answer", call)
<1>1. LinksOK /\ LoopOK /\ OwnConnection /\ InFlight
  BY DEF IpcInv
<1>2. PICK c \in Links :
        /\ c = clients[loop.index]
        /\ \/ link' = [link EXCEPT ![c] = Sent(link[c], answer)]
           \/ link' = [Delivered(link) EXCEPT ![c] = Sent(Delivered(link)[c], answer)]
  BY DEF Dispatch
<1>3. /\ loop.lines # <<>> /\ UNCHANGED <<settings, clients>>
      /\ loop' = [loop EXCEPT !.lines = Tail(loop.lines),
                    !.index = IF Len(loop.lines) = 1 THEN loop.index + 1 ELSE loop.index]
  BY Zenon DEF Dispatch
<1>4. PICK links :
        /\ links = link \/ links = Delivered(link)
        /\ link' = [links EXCEPT ![c] = Sent(links[c], answer)]
  BY <1>2, Zenon
<1>5. call \in Nat
  <2>1. loop.lines \in Seq(Nat)
    BY <1>1 DEF LoopOK
  <2> QED BY <1>3, <2>1
<1>6. Whole(answer) /\ Answered(answer, call)
  BY <1>5, AnswerIsThere
<1> HIDE DEF answer
<1>7. links = [d \in Links |-> links[d]] /\ \A d \in Links : Grown(link[d], links[d])
  <2>1. CASE links = link
    <3>1. link = [d \in Links |-> link[d]] /\ \A d \in Links : IsLink(link[d])
      BY <1>1 DEF LinksOK
    <3> QED BY <2>1, <3>1, GrownNone
  <2>2. CASE links = Delivered(link)
    BY <1>1, <2>2, DeliveredGrown DEF LoopOK
  <2> QED BY <1>4, <2>1, <2>2
<1> DEFINE sent == Sent(links[c], answer)
<1>8. /\ SameOwner(links[c], sent)
      /\ ~sent.shut => /\ ~links[c].shut /\ sent.up = links[c].up
                       /\ sent.down = links[c].down \o answer
  <2>1. IsLink(links[c])
    BY <1>7 DEF Grown, SameOwner
  <2> QED BY <2>1, SentWhole
<1>9. link' = [links EXCEPT ![c] = sent]
  BY <1>4
<1> HIDE DEF sent
<1>10. /\ link' = [d \in Links |-> link'[d]] /\ link'[c] = sent
       /\ \A d \in Links : d # c => link'[d] = links[d]
  BY <1>7, <1>9
<1>11. \A d \in Links : SameOwner(link[d], link'[d])
  <2>1. ASSUME NEW d \in Links PROVE SameOwner(link[d], link'[d])
    <3>1. SameOwner(link[d], links[d])
      BY <1>7 DEF Grown
    <3>2. CASE d = c
      BY <1>8, <1>10, <3>1, <3>2, OwnerKept
    <3> QED BY <1>10, <3>1, <3>2
  <2> QED BY <2>1
<1>12. LinksOK'
  BY <1>10, <1>11 DEF LinksOK, SameOwner
<1>13. loop'.lines = Tail(loop.lines) /\ (Len(loop.lines) # 1 => loop'.index = loop.index)
  <2> DEFINE l == [loop EXCEPT !.lines = Tail(loop.lines)]
             index == IF Len(loop.lines) = 1 THEN loop.index + 1 ELSE loop.index
  <2>1. IsLoop(l) /\ l.lines = Tail(loop.lines)
    BY <1>1, LoopLines DEF LoopOK
  <2>2. loop' = [l EXCEPT !.index = index]
    BY <1>3
  <2>3. Len(loop.lines) # 1 => index = loop.index
    OBVIOUS
  <2> HIDE DEF l, index
  <2> QED BY <2>1, <2>2, <2>3, LoopIndex
<1>14. ASSUME settings.link # NoConnection PROVE Kept(settings.link)
  <2> DEFINE d == settings.link
  <2>1. d \in Links /\ Own(link[d])
    BY <1>1, <1>14 DEF OwnConnection
  <2>2. Own(link'[d])
    BY <1>11, <2>1 DEF Own, SameOwner
  <2>3. CASE d # c
    <3>1. Grown(link[d], link'[d])
      BY <1>7, <1>10, <2>1, <2>3
    <3>2. ASSUME ~link'[d].shut, NEW id, Asked(id, d) PROVE AskedThen(id, d)
      <4>1. id \in Range(link[d].up)
        BY <1>2, <2>3, <3>2 DEF Asked
      <4>2. link'[d].up = link[d].up
        BY <3>1, <3>2 DEF Grown
      <4> QED BY <4>1, <4>2 DEF AskedThen
    <3> QED BY <1>1, <1>14, <2>1, <3>1, <3>2, GrownKept
  <2>4. CASE d = c
    <3>1. CASE link'[d].shut
      BY <2>2, <3>1 DEF Kept
    <3>2. CASE ~link'[d].shut
      <4>1. /\ ~links[d].shut /\ link'[d].up = links[d].up
            /\ link'[d].down = links[d].down \o answer
        BY <1>8, <1>10, <2>4, <3>2
      <4>2. /\ ~link[d].shut /\ links[d].up = link[d].up
            /\ \/ links[d].down = link[d].down
               \/ \E more : Whole(more) /\ links[d].down = link[d].down \o more
        BY <1>7, <2>1, <4>1 DEF Grown
      <4>3. link[d].down \in Seq(Pieces)
        BY <1>1, <1>14, <4>2 DEF InFlight
      <4>4. link[d].down \o <<>> = link[d].down
        BY <4>3
      <4>5. PICK events0 : Whole(events0) /\ links[d].down = link[d].down \o events0
        BY <4>2, <4>4, NothingIsWhole, Zenon
      <4>6. events0 \in Seq(Pieces) /\ answer \in Seq(Pieces)
        BY <1>6, <4>5 DEF Whole
      <4>7. link'[d].down = link[d].down \o (events0 \o answer)
        <5>1. (link[d].down \o events0) \o answer = link[d].down \o (events0 \o answer)
          BY <4>3, <4>6, JoinedAgain
        <5> QED BY <4>1, <4>5, <5>1, Zenon
      <4>8. Whole(events0 \o answer) /\ Answered(events0 \o answer, call)
        BY <1>6, <4>5, <4>6, WholeJoined, AnsweredThen
      <4>9. ASSUME NEW id, Asked(id, d)
            PROVE  AskedThen(id, d) \/ Answered(events0 \o answer, id)
        <5>1. CASE id \in Range(link[d].up)
          BY <4>1, <4>2, <5>1 DEF AskedThen
        <5>2. CASE id \in Range(loop.lines) /\ clients[loop.index] = d
          <6>1. id = call \/ (id \in Range(Tail(loop.lines)) /\ Len(loop.lines) # 1)
            <7>1. loop.lines \in Seq(Nat)
              BY <1>1 DEF LoopOK
            <7> QED BY <1>3, <5>2, <7>1, HeadOrTail
          <6> QED BY <1>3, <1>13, <4>8, <5>2, <6>1 DEF AskedThen
        <5> QED BY <4>9, <5>1, <5>2 DEF Asked
      <4> DEFINE more == events0 \o answer
      <4> HIDE DEF more
      <4>10. Whole(more) /\ link'[d].down = link[d].down \o more
             /\ \A id : Asked(id, d) => AskedThen(id, d) \/ Answered(more, id)
        BY <4>7, <4>8, <4>9, Zenon DEF more
      <4> QED BY <2>2, <4>2, <4>10, Zenon DEF Kept
    <3> QED BY <3>1, <3>2
  <2> QED BY <2>3, <2>4
<1>15. OwnConnection' /\ InFlight'
  BY <1>1, <1>3, <1>14, Onward
<1> QED BY <1>12, <1>15

-----------------------------------------------------------------------------
(* What clients do.                                                        *)

\* A connection just made, and what its owner sent at once.
NewLink(owner, up) == [at |-> "backlog", owner |-> owner, up |-> up, down |-> <<>>,
                       shut |-> FALSE, gone |-> FALSE]

LEMMA NewLinkIsLink ==
  ASSUME NEW owner, NEW up \in Seq(Nat)
  PROVE  /\ IsLink(NewLink(owner, up)) /\ NewLink(owner, up).down = <<>>
         /\ NewLink(owner, up).owner = owner /\ NewLink(owner, up).at = "backlog"
BY DEF NewLink, IsLink

LEMMA Appended ==
  ASSUME NEW s \in Seq(Nat), NEW x \in Nat
  PROVE  Range(s) \subseteq Range(Append(s, x)) /\ x \in Range(Append(s, x))
<1>1. /\ Len(Append(s, x)) = Len(s) + 1 /\ Append(s, x)[Len(s) + 1] = x
      /\ \A i \in 1..Len(s) : Append(s, x)[i] = s[i]
  OBVIOUS
<1>2. /\ DOMAIN s = 1..Len(s) /\ Len(s) \in Nat
      /\ DOMAIN Append(s, x) = 1..Len(s) + 1
  OBVIOUS
<1> QED BY <1>1, <1>2 DEF Range

LEMMA CtlFlight ==
  ASSUME IpcInv, NEW c \in Links, CtlConnect(c) \/ CtlReads(c) \/ CtlGivesUp(c)
  PROVE  LinksOK' /\ OwnConnection' /\ InFlight'
<1>1. LinksOK /\ OwnConnection /\ InFlight
  BY DEF IpcInv
<1>2. UNCHANGED <<settings, loop, clients>>
  BY DEF CtlConnect, CtlReads, CtlGivesUp
<1>3. \A d \in Links : IsLink(link[d])
  BY <1>1 DEF LinksOK
<1>4. \E m : IsLink(m) /\ link' = [link EXCEPT ![c] = m]
  <2>1. CASE CtlConnect(c)
    <3>1. PICK line \in {CtlCall, TooLong} : link' = [link EXCEPT ![c] = NewLink("ctl", <<line>>)]
      BY <2>1, Zenon DEF CtlConnect, Opened, NewLink
    <3>2. <<line>> \in Seq(Nat)
      BY DEF CtlCall, TooLong
    <3> QED BY <3>1, <3>2, NewLinkIsLink
  <2>2. CASE CtlReads(c)
    <3> DEFINE l == link[c]
               x == Last(link[c].down) = Line("answer", CtlCall)[2] \/ link[c].shut
               n == [l EXCEPT !.down = <<>>]
               m == [n EXCEPT !.gone = x]
    <3>1. link' = [link EXCEPT ![c].down = <<>>, ![c].gone = x]
      BY <2>2 DEF CtlReads
    <3>2. link' = [link EXCEPT ![c] = m]
      <4> HIDE DEF x
      <4> QED BY <1>1, <3>1 DEF LinksOK, IsLink
    <3> HIDE DEF x
    <3>3. IsLink(n)
      BY <1>3, DownSet DEF SameOwner
    <3> HIDE DEF n
    <3>4. IsLink(m)
      BY <3>3, GoneSet DEF SameOwner
    <3> QED BY <3>2, <3>4
  <2>3. CASE CtlGivesUp(c)
    <3> DEFINE l == link[c]
               n == [l EXCEPT !.gone = TRUE]
               m == [n EXCEPT !.down = <<>>]
    <3>1. link' = [link EXCEPT ![c].gone = TRUE, ![c].down = <<>>]
      BY <2>3 DEF CtlGivesUp
    <3>2. link' = [link EXCEPT ![c] = m]
      BY <1>1, <3>1 DEF LinksOK, IsLink
    <3>3. IsLink(n)
      BY <1>3, GoneSet DEF SameOwner
    <3> HIDE DEF n
    <3>4. IsLink(m)
      BY <3>3, DownSet DEF SameOwner
    <3> QED BY <3>2, <3>4
  <2> QED BY <2>1, <2>2, <2>3
<1>5. LinksOK'
  BY <1>1, <1>4 DEF LinksOK
<1>6. ASSUME settings.link # NoConnection PROVE Kept(settings.link)
  <2> DEFINE d == settings.link
  <2>1. d \in Links /\ Own(link[d])
    BY <1>1, <1>6 DEF OwnConnection
  <2>2. d # c
    <3>1. link[c].at = "none" \/ link[c].owner = "ctl"
      BY DEF CtlConnect, CtlReads, CtlGivesUp, Next
    <3> QED BY <2>1, <3>1 DEF Own
  <2>3. link'[d] = link[d]
    BY <1>1, <1>4, <2>1, <2>2 DEF LinksOK
  <2>4. Grown(link[d], link'[d])
    BY <1>3, <2>1, <2>3, GrownNone
  <2> QED BY <1>1, <1>2, <1>6, <2>1, <2>4, KeptGrown
<1>7. OwnConnection' /\ InFlight'
  BY <1>1, <1>2, <1>6, Onward
<1> QED BY <1>5, <1>7

LEMMA ConnectFlight ==
  ASSUME IpcInv, NEW c \in Links, Connect(c)
  PROVE  LinksOK' /\ OwnConnection' /\ InFlight'
<1>1. LinksOK /\ LoopOK /\ OwnConnection
  BY DEF IpcInv
<1> DEFINE m == NewLink("settings", <<>>)
<1>3. /\ link' = [link EXCEPT ![c] = m] /\ settings.link = NoConnection
      /\ settings' = [settings EXCEPT !.link = c, !.buffer = <<>>]
  BY Zenon DEF Connect, Opened, NewLink
<1>4. Own(m) /\ m.down = <<>>
  <2>1. <<>> \in Seq(Nat)
    OBVIOUS
  <2> QED BY <2>1, NewLinkIsLink DEF Own
<1> HIDE DEF m
<1>5. LinksOK'
  BY <1>1, <1>3, <1>4 DEF LinksOK, Own
<1>6. link'[c] = m
  BY <1>1, <1>3 DEF LinksOK
<1>7. settings'.link = c /\ settings'.buffer = <<>> /\ settings'.pending = settings.pending
  BY <1>1, <1>3 DEF LoopOK, IsApplication
<1>8. settings'.pending = {}
  BY <1>1, <1>3, <1>7 DEF OwnConnection
<1>9. OwnConnection'
  BY <1>4, <1>6, <1>7, <1>8 DEF OwnConnection
<1>10. <<>> \in Seq(Pieces) /\ Len(<<>>) =< 1 /\ <<>> \o <<>> = <<>>
  OBVIOUS
<1>11. Whole(settings'.buffer \o link'[c].down)
  BY <1>4, <1>6, <1>7, <1>10, NothingIsWhole
<1>12. InFlight'
  BY <1>4, <1>6, <1>7, <1>8, <1>10, <1>11 DEF InFlight
<1> QED BY <1>5, <1>9, <1>12

LEMMA TimeOutFlight ==
  ASSUME IpcInv, TimeOut
  PROVE  LinksOK' /\ OwnConnection' /\ InFlight'
<1>1. LinksOK /\ LoopOK /\ OwnConnection /\ InFlight
  BY DEF IpcInv
<1>2. PICK left : settings' = [settings EXCEPT !.pending = left] /\ left \subseteq settings.pending
  BY DEF TimeOut
<1>3. UNCHANGED <<link, loop, clients>> /\ settings.link # NoConnection
  BY DEF TimeOut
<1>4. /\ settings'.link = settings.link /\ settings'.buffer = settings.buffer
      /\ settings'.pending \subseteq settings.pending
  BY <1>1, <1>2, ApplicationSet DEF LoopOK
<1>5. LinksOK'
  BY <1>1, <1>3 DEF LinksOK
<1>6. OwnConnection'
  BY <1>1, <1>3, <1>4 DEF OwnConnection
<1>7. InFlight'
  BY <1>1, <1>3, <1>4 DEF InFlight, Asked
<1> QED BY <1>5, <1>6, <1>7

LEMMA DisconnectedFlight ==
  ASSUME IpcInv, Disconnected
  PROVE  LinksOK' /\ OwnConnection' /\ InFlight'
<1>1. LinksOK /\ LoopOK /\ OwnConnection
  BY DEF IpcInv
<1> DEFINE c == settings.link
           m == Over(link[c])
<1>2. /\ link' = [link EXCEPT ![c] = m] /\ c # NoConnection
      /\ settings' = [settings EXCEPT !.link = NoConnection, !.pending = {}]
  BY DEF Disconnected
<1>3. IsLink(m)
  <2>1. IsLink(link[c])
    BY <1>1, <1>2 DEF OwnConnection, Own
  <2> QED BY <2>1, OverKeeps DEF SameOwner
<1> HIDE DEF m
<1>4. LinksOK'
  BY <1>1, <1>2, <1>3 DEF LinksOK
<1>5. settings'.link = NoConnection /\ settings'.pending = {}
  BY <1>1, <1>2 DEF LoopOK, IsApplication
<1> QED BY <1>4, <1>5 DEF OwnConnection, InFlight

LEMMA CallFlight ==
  ASSUME IpcInv, Call
  PROVE  LinksOK' /\ OwnConnection' /\ InFlight'
<1>1. LinksOK /\ LoopOK /\ OwnConnection /\ InFlight
  BY DEF IpcInv
<1> DEFINE c == settings.link
           l == link[c]
           up == IF l.shut THEN l.up ELSE Append(l.up, called + 1)
           m == [l EXCEPT !.up = up]
           all == settings.pending \cup {called + 1}
<1>2. /\ link' = [link EXCEPT ![c].up = up] /\ c # NoConnection
      /\ settings' = [settings EXCEPT !.pending = all]
      /\ UNCHANGED <<loop, clients>>
  BY DEF Call
<1>3. c \in Links /\ Own(l)
  BY <1>1, <1>2 DEF OwnConnection
<1>4. called + 1 \in Nat /\ l.up \in Seq(Nat)
  BY <1>1, <1>3 DEF LoopOK, Own, IsLink
<1>5. up \in Seq(Nat)
  BY <1>4
<1>6. ~l.shut => Range(l.up) \subseteq Range(up) /\ called + 1 \in Range(up)
  BY <1>4, Appended
<1> HIDE DEF up
<1>7. link' = [link EXCEPT ![c] = m]
  BY <1>2
<1>8. SameOwner(l, m) /\ m.up = up /\ m.down = l.down /\ m.shut = l.shut
  BY <1>3, <1>5, UpSet DEF Own
<1> HIDE DEF m
<1>9. LinksOK'
  BY <1>1, <1>7, <1>8 DEF LinksOK, SameOwner
<1>10. link'[c] = m
  BY <1>1, <1>3, <1>7 DEF LinksOK
<1>11. /\ settings'.link = c /\ settings'.buffer = settings.buffer
       /\ settings'.pending = all
  <2> HIDE DEF all
  <2> QED BY <1>1, <1>2, ApplicationSet DEF LoopOK
<1>12. OwnConnection'
  BY <1>2, <1>3, <1>8, <1>10, <1>11 DEF OwnConnection, Own, SameOwner
<1>13. InFlight'
  <2>1. SUFFICES ASSUME ~l.shut PROVE InFlight'
    <3>1. ASSUME l.shut PROVE InFlight'
      BY <1>8, <1>10, <1>11, <3>1, Zenon DEF InFlight
    <3> QED BY <3>1
  <2>2. /\ l.down \in Seq(Pieces) /\ settings.buffer \in Seq(Pieces)
        /\ Len(settings.buffer) =< 1 /\ Whole(settings.buffer \o l.down)
        /\ \A id \in settings.pending : Asked(id, c) \/ Answered(settings.buffer \o l.down, id)
    BY <1>1, <1>2, <2>1 DEF InFlight
  <2>3. \A id : Asked(id, c) => AskedThen(id, c)
    BY <1>2, <1>6, <1>8, <1>10, <2>1 DEF Asked, AskedThen
  <2>4. AskedThen(called + 1, c)
    BY <1>6, <1>8, <1>10, <2>1 DEF AskedThen
  <2>5. \A id \in all : AskedThen(id, c) \/ Answered(settings.buffer \o l.down, id)
    BY <2>2, <2>3, <2>4
  <2>6. link'[settings'.link].down = l.down
    BY <1>8, <1>10, <1>11
  <2>7. ASSUME NEW id \in settings'.pending
        PROVE  \/ Asked(id, settings.link)'
               \/ Answered(settings'.buffer \o link'[settings'.link].down, id)
    BY <1>11, <2>5, <2>6 DEF Asked, AskedThen
  <2> QED BY <1>11, <2>2, <2>6, <2>7, Zenon DEF InFlight
<1> QED BY <1>9, <1>12, <1>13

\* One piece is read: a head is kept, a tail completes the line that was kept.
LEMMA HeadKept ==
  ASSUME NEW down \in Seq(Pieces), down # <<>>
  PROVE  /\ Append(<<>>, Head(down)) \o Tail(down) = <<>> \o down
         /\ Append(<<>>, Head(down)) \in Seq(Pieces) /\ Len(Append(<<>>, Head(down))) =< 1
<1>1. Head(down) \in Pieces /\ Tail(down) \in Seq(Pieces) /\ <<Head(down)>> \o Tail(down) = down
  BY HeadRead
<1>2. Append(<<>>, Head(down)) = <<Head(down)>>
  OBVIOUS
<1>3. <<Head(down)>> \in Seq(Pieces) /\ Len(<<Head(down)>>) =< 1
  BY <1>1
<1>4. <<>> \o down = down
  OBVIOUS
<1> QED BY <1>1, <1>2, <1>3, <1>4

LEMMA PieceOf ==
  ASSUME NEW s \in Seq(Pieces), NEW i \in 1..Len(s)
  PROVE  s[i] \in Pieces
OBVIOUS

LEMMA PieceAppended ==
  ASSUME NEW s \in Seq(Pieces), NEW x \in Pieces
  PROVE  /\ Append(s, x) \in Seq(Pieces) /\ Len(Append(s, x)) = Len(s) + 1
         /\ Append(s, x)[Len(s) + 1] = x /\ \A i \in 1..Len(s) : Append(s, x)[i] = s[i]
OBVIOUS

LEMMA TwoPieces ==
  ASSUME NEW s \in Seq(Pieces), Len(s) = 1, NEW x \in Pieces
  PROVE  Append(s, x) = <<s[1], x>>
<1>1. s[1] \in Pieces
  <2>1. 1 \in 1..Len(s)
    OBVIOUS
  <2> QED BY <2>1, PieceOf, Zenon
<1> DEFINE t == <<s[1], x>>
           u == Append(s, x)
<1>2. t \in Seq(Pieces) /\ Len(t) = 2 /\ t[1] = s[1] /\ t[2] = x
  BY <1>1
<1>3. u \in Seq(Pieces) /\ Len(u) = 2 /\ u[1] = s[1] /\ u[2] = x
  <2>1. /\ u \in Seq(Pieces) /\ Len(u) = Len(s) + 1 /\ u[Len(s) + 1] = x
        /\ \A i \in 1..Len(s) : u[i] = s[i]
    BY PieceAppended, Zenon
  <2> HIDE DEF u
  <2>2. 1 \in 1..Len(s) /\ Len(s) + 1 = 2
    OBVIOUS
  <2> QED BY <2>1, <2>2
<1> HIDE DEF t, u
<1>4. \A i \in 1..Len(u) : u[i] = t[i]
  BY <1>2, <1>3
<1> QED BY <1>2, <1>3, <1>4, SeqEqual DEF t, u

LEMMA TailRest ==
  ASSUME NEW buffer \in Seq(Pieces), Len(buffer) = 1, NEW down \in Seq(Pieces), down # <<>>
  PROVE  /\ Tail(down) \in Seq(Pieces) /\ Len(Tail(down)) = Len(buffer \o down) - 2
         /\ \A i \in 1..Len(Tail(down)) : Tail(down)[i] = (buffer \o down)[i + 2]
         /\ (buffer \o down)[1] = buffer[1] /\ (buffer \o down)[2] = Head(down)
         /\ Append(buffer, Head(down)) = <<buffer[1], Head(down)>>
<1>1. /\ Len(buffer \o down) = 1 + Len(down) /\ Len(down) \in Nat /\ Len(down) >= 1
      /\ \A i \in 1..1 + Len(down) : i > 1 => (buffer \o down)[i] = down[i - 1]
      /\ (buffer \o down)[1] = buffer[1]
  <2>1. Len(down) \in Nat /\ Len(down) >= 1
    OBVIOUS
  <2>2. /\ Len(buffer \o down) = Len(buffer) + Len(down)
        /\ \A i \in 1..Len(buffer) + Len(down) :
             (buffer \o down)[i] = IF i =< Len(buffer) THEN buffer[i] ELSE down[i - Len(buffer)]
    BY ConcatProperties
  <2> QED BY <2>1, <2>2
<1>2. /\ Tail(down) \in Seq(Pieces) /\ Len(Tail(down)) = Len(down) - 1
      /\ \A i \in 1..Len(Tail(down)) : Tail(down)[i] = down[i + 1]
      /\ Head(down) = down[1]
  OBVIOUS
<1>3. \A i \in 1..Len(Tail(down)) :
        i + 2 \in 1..1 + Len(down) /\ i + 2 > 1 /\ i + 2 - 1 = i + 1
  BY <1>1, <1>2
<1>4. \A i \in 1..Len(Tail(down)) : Tail(down)[i] = (buffer \o down)[i + 2]
  BY <1>1, <1>2, <1>3
<1>5. 2 \in 1..1 + Len(down) /\ 2 > 1 /\ 2 - 1 = 1
  BY <1>1
<1>6. (buffer \o down)[2] = Head(down)
  BY <1>1, <1>2, <1>5
<1>7. Append(buffer, Head(down)) = <<buffer[1], Head(down)>>
  BY TwoPieces, HeadRead
<1> QED BY <1>1, <1>2, <1>4, <1>6, <1>7

LEMMA PieceRead ==
  ASSUME NEW buffer \in Seq(Pieces), Len(buffer) =< 1, NEW down \in Seq(Pieces), down # <<>>,
         Whole(buffer \o down)
  PROVE  IF Head(down).piece = "head"
         THEN /\ Append(buffer, Head(down)) \o Tail(down) = buffer \o down
              /\ Append(buffer, Head(down)) \in Seq(Pieces)
              /\ Len(Append(buffer, Head(down))) =< 1
         ELSE /\ Whole(Tail(down))
              /\ \A id \in Nat : Answered(buffer \o down, id) =>
                   \/ Append(buffer, Head(down)) = Line("answer", id) /\ Head(down).id = id
                   \/ Answered(Tail(down), id)
<1> DEFINE s == buffer \o down
<1>1. s # <<>> /\ Head(down) = down[1] /\ Len(buffer) \in {0, 1}
  <2>1. Head(down) = down[1] /\ Len(buffer) \in Nat /\ Len(down) \in Nat /\ Len(down) # 0
    OBVIOUS
  <2>2. Len(buffer) \in {0, 1}
    <3>1. \A n \in Nat : n =< 1 => n \in {0, 1}
      OBVIOUS
    <3> QED BY <2>1, <3>1, Zenon
  <2>3. Len(s) = Len(buffer) + Len(down)
    BY ConcatProperties
  <2>4. Len(s) # 0
    BY <2>1, <2>3
  <2> QED BY <2>1, <2>2, <2>4
<1>2. PICK kind \in {"answer", "event"}, id1 \in Nat : LineAt(s, 1, kind, id1)
  <2>1. Whole(s) /\ s # <<>>
    BY <1>1
  <2> HIDE DEF s
  <2> QED BY <2>1, FirstLine
<1>3. 2 * 1 - 1 = 1 /\ 2 * 1 = 2
  OBVIOUS
<1>4. s[1] = Piece(kind, id1, "head") /\ s[2] = Piece(kind, id1, "tail")
  <2> HIDE DEF s
  <2> QED BY <1>2, <1>3, Zenon DEF LineAt
<1>5. /\ Piece(kind, id1, "head").piece = "head" /\ Piece(kind, id1, "tail").piece = "tail"
      /\ Piece(kind, id1, "tail").id = id1
  BY DEF Piece
<1>6. CASE Len(buffer) = 0
  <2>1. buffer = <<>>
    BY <1>6
  <2>2. s = down
    BY <2>1
  <2>3. Head(down).piece = "head"
    BY <1>1, <1>4, <1>5, <2>2
  <2> QED BY <2>1, <2>3, HeadKept
<1>7. CASE Len(buffer) = 1
  <2> DEFINE rest == Tail(down)
  <2>1. /\ rest \in Seq(Pieces) /\ Len(rest) = Len(s) - 2
        /\ \A i \in 1..Len(rest) : rest[i] = s[i + 2]
        /\ s[1] = buffer[1] /\ s[2] = Head(down)
        /\ Append(buffer, Head(down)) = <<buffer[1], Head(down)>>
    BY <1>7, TailRest
  <2>2. Head(down).piece = "tail" /\ Head(down).id = id1
    <3> HIDE DEF s, rest
    <3> QED BY <1>4, <1>5, <2>1
  <2>5. Append(buffer, Head(down)) = <<s[1], s[2]>>
    <3> HIDE DEF s, rest
    <3> QED BY <2>1, Zenon
  <2>6. Whole(s)
    OBVIOUS
  <2> HIDE DEF s, rest
  <2>7. /\ Whole(rest)
        /\ \A id : Answered(s, id) => LineAt(s, 1, "answer", id) \/ Answered(rest, id)
    BY <1>1, <2>1, <2>6, LineRead
  <2>8. ASSUME NEW id \in Nat, LineAt(s, 1, "answer", id)
        PROVE  Append(buffer, Head(down)) = Line("answer", id) /\ Head(down).id = id
    <3>1. s[1] = Piece("answer", id, "head") /\ s[2] = Piece("answer", id, "tail")
      BY <1>3, <2>8, Zenon DEF LineAt
    <3>2. Line("answer", id) = <<Piece("answer", id, "head"), Piece("answer", id, "tail")>>
      BY LineIsWhole
    <3>3. Piece("answer", id, "tail").id = id
      BY DEF Piece
    <3> QED BY <2>1, <2>5, <3>1, <3>2, <3>3
  <2>9. Head(down).piece # "head"
    BY <2>2
  <2> QED BY <2>7, <2>8, <2>9, Zenon DEF s, rest
<1> QED BY <1>1, <1>6, <1>7

LEMMA PieceFlight ==
  ASSUME IpcInv, Read
  PROVE  LinksOK' /\ OwnConnection' /\ InFlight'
<1>1. LinksOK /\ LoopOK /\ OwnConnection /\ InFlight
  BY DEF IpcInv
<1> DEFINE c == settings.link
           l == link[c]
           piece == Head(l.down)
           line == Append(settings.buffer, piece)
           m == [l EXCEPT !.down = Tail(l.down)]
           answered == settings.pending \ {piece.id}
<1>2. /\ link' = [link EXCEPT ![c].down = Tail(l.down)] /\ c # NoConnection /\ l.down # <<>>
      /\ settings' = IF piece.piece = "head" THEN [settings EXCEPT !.buffer = line]
                     ELSE IF line = Line("answer", piece.id)
                     THEN [settings EXCEPT !.buffer = <<>>, !.pending = answered]
                     ELSE [settings EXCEPT !.buffer = <<>>]
      /\ UNCHANGED <<loop, clients>>
  BY DEF Read
<1>3. c \in Links /\ Own(l)
  BY <1>1, <1>2 DEF OwnConnection
<1>4. link' = [link EXCEPT ![c] = m]
  BY <1>2
<1>5. SameOwner(l, m) /\ m.up = l.up /\ m.down = Tail(l.down) /\ m.shut = l.shut
  <2> DEFINE x == Tail(l.down)
  <2> HIDE DEF x
  <2>1. /\ SameOwner(l, [l EXCEPT !.down = x]) /\ [l EXCEPT !.down = x].up = l.up
        /\ [l EXCEPT !.down = x].down = x /\ [l EXCEPT !.down = x].shut = l.shut
    BY <1>3, DownSet DEF Own
  <2> QED BY <2>1 DEF x
<1> HIDE DEF m
<1>6. LinksOK'
  BY <1>1, <1>4, <1>5 DEF LinksOK, SameOwner
<1>7. link'[c] = m
  BY <1>1, <1>3, <1>4 DEF LinksOK
<1>8. IsApplication(settings)
  BY <1>1 DEF LoopOK
<1>9. /\ settings'.link = c
      /\ piece.piece = "head" => settings'.buffer = line /\ settings'.pending = settings.pending
      /\ piece.piece # "head" =>
           /\ settings'.buffer = <<>>
           /\ \/ settings'.pending = settings.pending /\ line # Line("answer", piece.id)
              \/ settings'.pending = answered /\ line = Line("answer", piece.id)
  <2> HIDE DEF piece, line, answered
  <2>1. CASE piece.piece = "head"
    <3>1. settings' = [settings EXCEPT !.buffer = line]
      BY <1>2, <2>1
    <3> QED BY <1>8, <2>1, <3>1, ApplicationSet
  <2>2. CASE piece.piece # "head" /\ line = Line("answer", piece.id)
    <3>1. settings' = [settings EXCEPT !.buffer = <<>>, !.pending = answered]
      BY <1>2, <2>2
    <3>2. settings'.link = c /\ settings'.buffer = <<>> /\ settings'.pending = answered
      BY <1>8, <3>1, ApplicationRead
    <3> QED BY <2>2, <3>2
  <2>3. CASE piece.piece # "head" /\ line # Line("answer", piece.id)
    <3>1. settings' = [settings EXCEPT !.buffer = <<>>]
      BY <1>2, <2>3
    <3>2. settings'.link = c /\ settings'.buffer = <<>> /\ settings'.pending = settings.pending
      BY <1>8, <3>1, ApplicationSet
    <3> QED BY <2>3, <3>2
  <2> QED BY <2>1, <2>2, <2>3
<1>10. OwnConnection'
  <2>1. Own(m)
    BY <1>3, <1>5 DEF Own, SameOwner
  <2>2. settings'.link = c /\ link'[settings'.link] = m
    BY <1>7, <1>9
  <2> QED BY <1>2, <1>3, <2>1, <2>2 DEF OwnConnection
<1>11. ASSUME l.shut PROVE InFlight'
  BY <1>5, <1>7, <1>9, <1>11, Zenon DEF InFlight
<1>12. ASSUME ~l.shut PROVE InFlight'
  <2>1. /\ l.down \in Seq(Pieces) /\ settings.buffer \in Seq(Pieces)
        /\ Len(settings.buffer) =< 1 /\ Whole(settings.buffer \o l.down)
        /\ \A id \in settings.pending : Asked(id, c) \/ Answered(settings.buffer \o l.down, id)
    BY <1>1, <1>2, <1>12 DEF InFlight
  <2>2. IF piece.piece = "head"
        THEN /\ line \o Tail(l.down) = settings.buffer \o l.down
             /\ line \in Seq(Pieces) /\ Len(line) =< 1
        ELSE /\ Whole(Tail(l.down))
             /\ \A id \in Nat : Answered(settings.buffer \o l.down, id) =>
                  (line = Line("answer", id) /\ piece.id = id) \/ Answered(Tail(l.down), id)
    BY <1>2, <2>1, PieceRead
  <2>3. \A id : Asked(id, c) => AskedThen(id, c)
    BY <1>2, <1>5, <1>7 DEF Asked, AskedThen
  <2>4. Tail(l.down) \in Seq(Pieces)
    BY <1>2, <2>1
  <2>5. link'[settings'.link].down = Tail(l.down)
    BY <1>5, <1>7, <1>9
  <2> DEFINE rest == Tail(l.down)
  <2>6. /\ settings'.buffer \in Seq(Pieces) /\ Len(settings'.buffer) =< 1
        /\ Whole(settings'.buffer \o rest)
        /\ \A id \in settings'.pending : AskedThen(id, c) \/ Answered(settings'.buffer \o rest, id)
    <3> HIDE DEF line, rest, piece
    <3>1. CASE piece.piece = "head"
      <4>1. line \o rest = settings.buffer \o l.down /\ line \in Seq(Pieces) /\ Len(line) =< 1
        BY <2>2, <3>1 DEF rest
      <4> QED BY <1>9, <2>1, <2>3, <3>1, <4>1
    <3>2. CASE piece.piece # "head"
      <4>1. <<>> \in Seq(Pieces) /\ Len(<<>>) =< 1
        OBVIOUS
      <4>2. <<>> \o rest = rest
        BY <2>4 DEF rest
      <4>3. Whole(rest)
        BY <2>2, <3>2 DEF rest
      <4>4. ASSUME NEW id \in settings'.pending
            PROVE  AskedThen(id, c) \/ Answered(rest, id)
        <5>1. id \in settings.pending
          BY <1>9, <3>2, <4>4
        <5>2. CASE Asked(id, c)
          BY <2>3, <5>2
        <5>3. CASE Answered(settings.buffer \o l.down, id)
          <6>1. id \in Nat
            <7>1. PICK k \in Nat : LineAt(settings.buffer \o l.down, k, "answer", id)
                                   /\ 1 =< k /\ 2 * k =< Len(settings.buffer \o l.down)
              BY <5>3 DEF Answered
            <7> DEFINE s == settings.buffer \o l.down
            <7>2. s \in Seq(Pieces)
              BY <2>1
            <7>5. 1 =< k /\ 2 * k =< Len(s)
              BY <7>1
            <7> HIDE DEF s
            <7>3. s[2 * k] \in Pieces
              <8>1. Len(s) \in Nat
                BY <7>2
              <8>2. 2 * k \in 1..Len(s)
                BY <7>5, <8>1
              <8> QED BY <7>2, <8>2, PieceOf
            <7>4. s[2 * k] = Piece("answer", id, "tail")
              BY <7>1 DEF LineAt, s
            <7> QED BY <7>3, <7>4 DEF Piece, Pieces
          <6>2. (line = Line("answer", id) /\ piece.id = id) \/ Answered(rest, id)
            BY <2>2, <3>2, <5>3, <6>1 DEF rest
          <6>3. CASE line = Line("answer", id) /\ piece.id = id
            <7>1. settings'.pending = settings.pending \ {id}
              BY <1>9, <3>2, <6>3
            <7> QED BY <4>4, <7>1
          <6> QED BY <6>2, <6>3
        <5> QED BY <2>1, <5>1, <5>2, <5>3
      <4> QED BY <1>9, <3>2, <4>1, <4>2, <4>3, <4>4
    <3> QED BY <3>1, <3>2
  <2>7. ASSUME NEW id \in settings'.pending
        PROVE  \/ Asked(id, settings.link)'
               \/ Answered(settings'.buffer \o link'[settings'.link].down, id)
    BY <1>9, <2>5, <2>6 DEF Asked, AskedThen
  <2>8. /\ link'[settings'.link].down \in Seq(Pieces)
        /\ settings'.buffer \in Seq(Pieces) /\ Len(settings'.buffer) =< 1
        /\ Whole(settings'.buffer \o link'[settings'.link].down)
    BY <2>4, <2>5, <2>6
  <2> QED BY <2>7, <2>8, Zenon DEF InFlight
<1> QED BY <1>6, <1>10, <1>11, <1>12

LEMMA IpcInvKept ==
  ASSUME IpcInv, [IpcNext]_ipcVars
  PROVE  IpcInv'
<1>1. CASE IpcNext
  <2>1. LoopOK' /\ EventsComing'
    BY <1>1, LoopSteps, EventSteps DEF IpcInv
  <2>2. LinksOK' /\ OwnConnection' /\ InFlight'
    <3>1. CASE Broadcast \/ Wake \/ Poll \/ DrainAndDeliver \/ SkipClient \/ Restart
      BY <3>1, LoopFlight
    <3>2. CASE ReadClient \/ Dispatch \/ EndOfRound \/ StopServer
      BY <3>2, ReadFlight, DispatchFlight, RoundFlight, StopFlight
    <3>3. CASE Call \/ Read \/ TimeOut \/ Disconnected
      BY <3>3, CallFlight, PieceFlight, TimeOutFlight, DisconnectedFlight
    <3>4. ASSUME NEW c \in Links, Connect(c) \/ CtlConnect(c) \/ CtlReads(c) \/ CtlGivesUp(c)
          PROVE  LinksOK' /\ OwnConnection' /\ InFlight'
      BY <3>4, ConnectFlight, CtlFlight
    <3> QED BY <1>1, <3>1, <3>2, <3>3, <3>4 DEF IpcNext
  <2> QED BY <2>1, <2>2 DEF IpcInv
<1>2. CASE UNCHANGED ipcVars
  BY <1>2 DEF ipcVars, IpcInv, LinksOK, LoopOK, EventsComing, OwnConnection, InFlight, Asked
<1> QED BY <1>1, <1>2

\* The invariant of the connections, from which the theorems follow: the lines of each are whole,
\* events that wait have a wake-up coming, and each call waited for is on its way.
THEOREM IpcInvariant == IpcSpec => []IpcInv
<1>1. IpcInit => IpcInv
  BY IpcInvInit
<1>2. IpcInv /\ [IpcNext]_ipcVars => IpcInv'
  BY IpcInvKept
<1> QED BY <1>1, <1>2, PTL DEF IpcSpec

-----------------------------------------------------------------------------
\* No event is left in the queue while the loop of the IPC thread sleeps in poll(): broadcast()
\* wakes it after it queued one, and deliver() empties the queue after the wake-up was taken
\* note of.
THEOREM EventsAreTold == IpcSpec => []NoEventForgotten
<1>1. IpcInv => NoEventForgotten
  BY DEF IpcInv, EventsComing, NoEventForgotten
<1> QED BY <1>1, IpcInvariant, PTL

\* A call DaemonClient::call() made and that still waits is on its way to the daemon, being
\* handled, or its answer is on its way back whole, whatever other clients and events there are
\* and however slowly the settings application reads; or the connection is over.
THEOREM AnswersArrive == IpcSpec => []NoAnswerLost
<1>1. ASSUME IpcInv PROVE NoAnswerLost
  <2> SUFFICES ASSUME NEW id \in settings.pending, ~link[settings.link].shut
               PROVE  \/ Asked(id, settings.link)
                      \/ \E k \in DOMAIN (settings.buffer \o link[settings.link].down) :
                           LET ahead == settings.buffer \o link[settings.link].down
                           IN  2 * k =< Len(ahead)
                               /\ <<ahead[2 * k - 1], ahead[2 * k]>> = Line("answer", id)
    BY Zenon DEF NoAnswerLost, Asked
  <2>1. settings.link # NoConnection
    BY <1>1 DEF IpcInv, OwnConnection
  <2> DEFINE ahead == settings.buffer \o link[settings.link].down
  <2>2. ahead \in Seq(Pieces) /\ (Asked(id, settings.link) \/ Answered(ahead, id))
    BY <1>1, <2>1 DEF IpcInv, InFlight, Whole
  <2> HIDE DEF ahead
  <2>3. ASSUME Answered(ahead, id)
        PROVE  \E k \in DOMAIN ahead :
                 2 * k =< Len(ahead) /\ <<ahead[2 * k - 1], ahead[2 * k]>> = Line("answer", id)
    <3>1. PICK k \in Nat : 1 =< k /\ 2 * k =< Len(ahead) /\ LineAt(ahead, k, "answer", id)
      BY <2>3 DEF Answered
    <3>2. k \in DOMAIN ahead
      BY <2>2, <3>1
    <3>3. <<ahead[2 * k - 1], ahead[2 * k]>> = Line("answer", id)
      BY <3>1, Zenon DEF LineAt, Line, Piece
    <3> QED BY <3>1, <3>2, <3>3
  <2> QED BY <2>2, <2>3 DEF ahead
<1> QED BY <1>1, IpcInvariant, PTL
=============================================================================
