-------------------------- MODULE GroupmeBotProofs --------------------------
(***************************************************************************)
(* Theorems about GroupmeBot, for every set of members, nicknames,         *)
(* messages and webhook calls.                                             *)
(***************************************************************************)
EXTENDS GroupmeBot, SequenceTheorems, FiniteSetTheorems, WellFoundedInduction, TLAPS

(* A non-empty set of indices has a last one.                              *)
LEMMA LastExists ==
  ASSUME NEW n \in Nat, NEW S \in SUBSET (1..n), S # {}
  PROVE  \E i \in S : \A j \in S : j <= i
<1> DEFINE T == {n - i : i \in S}
           R == OpToRel(<, Nat)
<1>1. T \subseteq Nat /\ T # {}
  <2>1. \A i \in S : n - i \in Nat
    OBVIOUS
  <2> QED BY <2>1
<1>2. IsWellFoundedOn(R, Nat)
  BY NatLessThanWellFounded
<1>3. \E x \in T : \A y \in T : ~(<<y, x>> \in R)
  <2> HIDE DEF R, T
  <2> QED BY <1>1, <1>2, WFMin
<1>4. PICK x \in T : \A y \in T : ~(<<y, x>> \in R)
  BY <1>3
<1>5. \A y \in T : ~(y < x)
  BY <1>1, <1>4 DEF OpToRel
<1>6. PICK i \in S : x = n - i
  BY <1>4
<1>7. \A j \in S : ~(n - j < n - i)
  BY <1>5, <1>6
<1> QED
  BY <1>7

(* The rows a query sees: one value per row of the table.                  *)
LEMMA QueriedType ==
  ASSUME Typed, NEW d \in Delivery, NEW f \in [Delivery -> Seq(Int)]
  PROVE  Queried(d, f) \in [1..Len(rows) -> Int]
<1>1. rows \in Seq(Row)
  BY DEF Typed
<1>2. \A i \in 1..Len(rows) : rows[i].pts \in Int
  <2>1. \A i \in 1..Len(rows) : rows[i] \in Row
    BY <1>1, ElementOfSeq
  <2> QED BY <2>1 DEF Row
<1>3. f[d] \in Seq(Int)
  OBVIOUS
<1>4. \A i \in 1..Len(rows) : i <= Len(f[d]) => f[d][i] \in Int
  BY <1>1, <1>3
<1> QED
  BY <1>2, <1>4 DEF Queried

LEMMA TotalType ==
  ASSUME Typed, NEW m \in Member, NEW p \in [1..Len(rows) -> Int]
  PROVE  TotalOf(m, p) \in Int \cup {NotFound}
<1>1. CASE RowsOf(m) = {}
  BY <1>1 DEF TotalOf
<1>2. CASE RowsOf(m) # {}
  <2>1. TotalOf(m, p) =
          p[CHOOSE i \in RowsOf(m) : \A j \in RowsOf(m) : j <= i]
    BY <1>2 DEF TotalOf
  <2>2. Len(rows) \in Nat /\ RowsOf(m) \subseteq 1..Len(rows)
    BY DEF Typed, RowsOf
  <2>3. \E i \in RowsOf(m) : \A j \in RowsOf(m) : j <= i
    BY <1>2, <2>2, LastExists
  <2>4. (CHOOSE i \in RowsOf(m) : \A j \in RowsOf(m) : j <= i) \in 1..Len(rows)
    BY <2>2, <2>3
  <2> QED
    BY <2>1, <2>4
<1> QED
  BY <1>1, <1>2

-----------------------------------------------------------------------------
(* The initial state has the type of the state.                            *)
LEMMA InitType == Init => Typed
<1> SUFFICES ASSUME Init PROVE Typed
  OBVIOUS
<1> USE BotAssumption
<1>1. rows \in Seq(Row)
  <2>1. Len(Seed) \in Nat /\ \A i \in 1..Len(Seed) : Seed[i] \in Member
    BY ElementOfSeq
  <2>2. \A i \in 1..Len(Seed) :
          [who |-> Seed[i], pts |-> 0, by |-> NotFound] \in Row
    BY <2>1 DEF Row
  <2> QED
    BY <2>1, <2>2, IsASeq DEF Init
<1>2. pc \in [Delivery -> {"waiting"} \cup Running \cup Ended]
  BY DEF Init
<1>3. msg \in [Delivery -> Incoming]
  BY EmptySeq DEF Init, Incoming, NoMessage
<1>4. line \in [Delivery -> Nat \ {0}] /\ size \in [Delivery -> Nat]
  BY DEF Init
<1>5. /\ seen \in [Delivery -> Seq(Int)] /\ cur \in [Delivery -> Seq(Int)]
      /\ added \in [Delivery -> Seq(Member)] /\ lines \in [Delivery -> Seq(Line)]
  BY EmptySeq DEF Init
<1>6. chat \subseteq Answer /\ echoed \subseteq chat /\ log \in Nat
  BY DEF Init
<1> QED
  BY <1>1, <1>2, <1>3, <1>4, <1>5, <1>6 DEF Typed

LEMMA GotoType ==
  ASSUME Typed, NEW d \in Delivery,
         NEW label \in {"waiting"} \cup Running \cup Ended, Goto(d, label)
  PROVE  pc' \in [Delivery -> {"waiting"} \cup Running \cup Ended]
BY DEF Typed, Goto

(* Reception: the message is one the members type or a reply echoed.       *)
LEMMA ReceiveType ==
  ASSUME Typed, NEW d \in Delivery, NEW m \in Incoming, Receive(d, m),
         echoed' \subseteq chat
  PROVE  Typed'
<1>1. pc' \in [Delivery -> {"waiting"} \cup Running \cup Ended]
  BY GotoType DEF Receive, Running
<1>2. msg' \in [Delivery -> Incoming]
  BY DEF Typed, Receive
<1> QED
  BY <1>1, <1>2 DEF Typed, Receive

LEMMA DeliverType ==
  ASSUME Typed, NEW d \in Delivery, Deliver(d)
  PROVE  Typed'
<1>1. PICK m \in Message :
        Receive(d, [hasText |-> m.hasText, words |-> m.words,
                    mentions |-> m.mentions, blank |-> m.blank, gen |-> 0])
  BY DEF Deliver
<1>2. m \in [hasText : BOOLEAN, words : Text, mentions : Seq(Member),
            blank : BOOLEAN]
  BY BotAssumption
<1>3. [hasText |-> m.hasText, words |-> m.words,
       mentions |-> m.mentions, blank |-> m.blank, gen |-> 0] \in Incoming
  BY <1>2 DEF Incoming, Text
<1>4. echoed' \subseteq chat
  BY DEF Deliver, Typed
<1> QED
  BY <1>1, <1>3, <1>4, ReceiveType

LEMMA EchoType ==
  ASSUME Typed, NEW d \in Delivery, Echo(d)
  PROVE  Typed'
<1>1. PICK p \in chat \ echoed :
        /\ Receive(d, [hasText |-> TRUE, words |-> p.words,
                       mentions |-> <<>>, blank |-> FALSE, gen |-> p.gen])
        /\ echoed' = echoed \cup {p}
  BY DEF Echo
<1>2. p \in Answer
  BY DEF Typed
<1>3. [hasText |-> TRUE, words |-> p.words, mentions |-> <<>>, blank |-> FALSE,
       gen |-> p.gen] \in Incoming
  BY <1>2, EmptySeq DEF Incoming, Answer
<1>4. echoed' \subseteq chat
  BY <1>1 DEF Typed
<1> QED
  BY <1>1, <1>3, <1>4, ReceiveType

(* The static log: its size stays a natural number, whatever is lost.      *)
LEMMA LogType ==
  ASSUME Typed, NEW d \in Delivery, LogLoad(d) \/ LogStore(d) \/ LogThrows(d)
  PROVE  Typed'
<1>1. CASE LogLoad(d)
  <2>1. pc' \in [Delivery -> {"waiting"} \cup Running \cup Ended]
    BY <1>1, GotoType DEF LogLoad, Running
  <2>2. size' \in [Delivery -> Nat]
    BY <1>1 DEF Typed, LogLoad
  <2> QED BY <1>1, <2>1, <2>2 DEF Typed, LogLoad, table
<1>2. CASE LogStore(d)
  <2>1. pc' \in [Delivery -> {"waiting"} \cup Running \cup Ended]
    BY <1>2, GotoType DEF LogStore, Running, Ended
  <2>2. log' \in Nat
    BY <1>2 DEF Typed, LogStore
  <2> QED BY <1>2, <2>1, <2>2 DEF Typed, LogStore, table, locals
<1>3. CASE LogThrows(d)
  <2>1. pc' \in [Delivery -> {"waiting"} \cup Running \cup Ended]
    BY <1>3, GotoType DEF LogThrows, Ended
  <2> QED BY <1>3, <2>1 DEF Typed, LogThrows, table, locals
<1> QED
  BY <1>1, <1>2, <1>3

LEMMA MentionType ==
  ASSUME Typed, LineOK, NEW d \in Delivery, Named(d)
  PROVE  Mentions(d)[line[d]] \in Member
<1>1. Mentions(d) \in Seq(Member)
  BY DEF Typed, Mentions, Incoming
<1>2. Len(Mentions(d)) \in Nat \ {0}
  BY <1>1, EmptySeq DEF Named
<1>3. line[d] \in 1..Len(Mentions(d))
  BY <1>2 DEF Typed, LineOK
<1> QED
  BY <1>1, <1>3, ElementOfSeq

LEMMA TurnType ==
  ASSUME Typed, NEW d \in Delivery,
         NEW again \in Running, NEW after \in Running, Turn(d, again, after)
  PROVE  /\ line' \in [Delivery -> Nat \ {0}]
         /\ pc' \in [Delivery -> {"waiting"} \cup Running \cup Ended]
<1>1. line' \in [Delivery -> Nat \ {0}]
  BY DEF Typed, Turn
<1>2. pc' \in [Delivery -> {"waiting"} \cup Running \cup Ended]
  BY GotoType DEF Turn
<1> QED BY <1>1, <1>2

LEMMA RegisterType ==
  ASSUME Typed, LineOK, NEW d \in Delivery, Register(d)
  PROVE  Typed'
<1>1. /\ line' \in [Delivery -> Nat \ {0}]
      /\ pc' \in [Delivery -> {"waiting"} \cup Running \cup Ended]
  BY TurnType DEF Register, Running, Posting
<1>2. added' \in [Delivery -> Seq(Member)]
  <2>1. Mentions(d)[line[d]] \in Member
    BY MentionType DEF Register
  <2> QED
    BY <2>1 DEF Typed, Register
<1> QED
  BY <1>1, <1>2 DEF Typed, Register, table

(* The actions that only move on.                                          *)
Skip(d) == \/ RegisterSkip(d) \/ RegisterReminder(d) \/ RegisterNobody(d)
           \/ MeritSkip(d) \/ MeritNobody(d)
           \/ ScoreSkip(d) \/ SaveFails(d) \/ Andre(d)

LEMMA SkipType ==
  ASSUME Typed, NEW d \in Delivery, Skip(d)
  PROVE  Typed'
<1>1. PICK label \in {"waiting"} \cup Running \cup Ended : Goto(d, label)
  BY DEF Skip, RegisterSkip, RegisterReminder, RegisterNobody, MeritSkip,
         MeritNobody, ScoreSkip, SaveFails, Andre, Running, Posting, Ended
<1>2. UNCHANGED <<table, log, locals>>
  BY DEF Skip, RegisterSkip, RegisterReminder, RegisterNobody, MeritSkip,
         MeritNobody, ScoreSkip, SaveFails, Andre
<1>3. pc' \in [Delivery -> {"waiting"} \cup Running \cup Ended]
  BY <1>1, GotoType
<1> QED
  BY <1>2, <1>3 DEF Typed, table, locals

LEMMA AwardedType ==
  ASSUME Typed, NEW m, NEW ws, NEW p \in [1..Len(rows) -> Int]
  PROVE  Awarded(m, ws, p) \in [1..Len(rows) -> Int]
<1>1. Diff(ws) \in Int
  BY DEF Diff
<1> QED
  BY <1>1 DEF Awarded

(* A function over the rows is a sequence.                                 *)
LEMMA RowValues ==
  ASSUME Typed, NEW S, NEW p \in [1..Len(rows) -> S]
  PROVE  p \in Seq(S) /\ Len(p) = Len(rows)
<1>1. rows \in Seq(Row)
  BY DEF Typed
<1>2. Len(rows) \in Nat
  BY <1>1
<1> QED
  BY <1>2

LEMMA MeritType ==
  ASSUME Typed, LineOK, NEW d \in Delivery, Merit(d)
  PROVE  Typed'
<1> DEFINE m == Mentions(d)[line[d]]
           points == Awarded(m, msg[d].words, Queried(d, cur))
<1>1. /\ line' \in [Delivery -> Nat \ {0}]
      /\ pc' \in [Delivery -> {"waiting"} \cup Running \cup Ended]
  BY TurnType DEF Merit, Running, Posting
<1>2. Queried(d, cur) \in [1..Len(rows) -> Int]
      /\ Queried(d, seen) \in [1..Len(rows) -> Int]
  BY QueriedType DEF Typed
<1>3. points \in [1..Len(rows) -> Int]
  BY <1>2, AwardedType
<1>4. cur' \in [Delivery -> Seq(Int)]
  BY <1>3, RowValues DEF Typed, Merit
<1>5. seen' \in [Delivery -> Seq(Int)]
  BY <1>2, RowValues DEF Typed, Merit
<1>6. lines' \in [Delivery -> Seq(Line)]
  <2>1. m \in Member
    BY MentionType DEF Merit
  <2>2. [who |-> m, total |-> TotalOf(m, points)] \in Line
    BY <1>3, <2>1, TotalType DEF Line
  <2>3. Append(lines[d], [who |-> m, total |-> TotalOf(m, points)]) \in Seq(Line)
    BY <2>2 DEF Typed
  <2> QED
    BY <2>3 DEF Typed, Merit
<1> QED
  BY <1>1, <1>4, <1>5, <1>6 DEF Typed, Merit, table

LEMMA ScoreType ==
  ASSUME Typed, NEW d \in Delivery, Score(d)
  PROVE  Typed'
<1>1. pc' \in [Delivery -> {"waiting"} \cup Running \cup Ended]
  BY GotoType DEF Score, Running, Posting
<1>2. Queried(d, cur) \in [1..Len(rows) -> Int]
      /\ Queried(d, seen) \in [1..Len(rows) -> Int]
  BY QueriedType DEF Typed
<1>3. Queried(d, cur) \in Seq(Int) /\ Queried(d, seen) \in Seq(Int)
  BY <1>2, RowValues
<1>4. cur' \in [Delivery -> Seq(Int)] /\ seen' \in [Delivery -> Seq(Int)]
  BY <1>3 DEF Typed, Score
<1>5. lines' \in [Delivery -> Seq(Line)]
  <2> DEFINE listing == [i \in 1..Len(rows) |->
                           [who |-> rows[i].who, total |-> Queried(d, cur)[i]]]
  <2>1. \A i \in 1..Len(rows) : rows[i] \in Row
    BY ElementOfSeq DEF Typed
  <2>2. listing \in [1..Len(rows) -> Line]
    BY <1>2, <2>1 DEF Line, Row
  <2>3. listing \in Seq(Line)
    BY <2>2, RowValues
  <2> QED
    BY <2>3 DEF Typed, Score
<1> QED
  BY <1>1, <1>4, <1>5 DEF Typed, Score, table

(* Every name a reply lists is a member's.                                 *)
LEMMA NamesType ==
  ASSUME Typed, NEW d \in Delivery
  PROVE  Mentioned(d) \subseteq Member /\ Listed(d) \subseteq Member
<1>1. Mentions(d) \in Seq(Member) /\ lines[d] \in Seq(Line)
  BY DEF Typed, Mentions, Incoming
<1>2. Mentioned(d) \subseteq Member
  BY <1>1, ElementOfSeq DEF Mentioned
<1>3. \A k \in 1..Len(lines[d]) : lines[d][k] \in Line
  BY <1>1, ElementOfSeq
<1> QED
  BY <1>2, <1>3 DEF Listed, Line

LEMMA ReplyWordsType ==
  ASSUME Typed, NEW d \in Delivery
  PROVE  ReplyWords(d) \in SUBSET Word
<1>1. \A m \in Member : NickWords[m] \in SUBSET Word
  BY BotAssumption DEF Text
<1>2. \A m \in Member : /\ RegisteredText(m) \in SUBSET Word
                        /\ MeritText(m) \in SUBSET Word
                        /\ NickText(m) \in SUBSET Word
  BY <1>1 DEF RegisteredText, MeritText, NickText, Word
<1> QED
  BY <1>2, NamesType DEF ReplyWords

LEMMA ReplyType ==
  ASSUME Typed, NEW d \in Delivery, pc[d] \in Posting
  PROVE  Reply(d) \in Answer
<1>1. lines[d] \in Seq(Line) /\ msg[d].gen + 1 \in Nat
  BY DEF Typed, Incoming
<1> QED
  BY <1>1, ReplyWordsType DEF Reply, Answer

LEMMA PostType ==
  ASSUME Typed, NEW d \in Delivery, Post(d) \/ PostFails(d)
  PROVE  Typed'
<1>1. pc[d] \in Posting
  BY DEF Post, PostFails
<1>2. chat' \subseteq Answer /\ chat \subseteq chat'
  BY <1>1, ReplyType DEF Typed, Post, PostFails
<1>3. CASE Post(d)
  <2>2. AfterPost[pc[d]] \in {"waiting"} \cup Running \cup Ended
    BY <1>1 DEF AfterPost, Posting, Running, Ended
  <2>3. pc' \in [Delivery -> {"waiting"} \cup Running \cup Ended]
    BY <1>3, <2>2, GotoType DEF Post
  <2>4. lines' \in [Delivery -> Seq(Line)]
    BY <1>3, EmptySeq DEF Typed, Post
  <2> QED
    BY <1>2, <1>3, <2>3, <2>4 DEF Typed, Post
<1>4. CASE PostFails(d)
  <2>1. pc' \in [Delivery -> {"waiting"} \cup Running \cup Ended]
    BY <1>4, GotoType DEF PostFails, Ended
  <2> QED
    BY <1>2, <1>4, <2>1 DEF Typed, PostFails, locals
<1> QED
  BY <1>3, <1>4

(* The rows after SaveChanges: the old ones, some with new points, and the *)
(* inserted ones.                                                          *)
Updated(d) ==
  [i \in 1..Len(rows) |->
     IF i \in Changed(d) THEN [rows[i] EXCEPT !.pts = cur[d][i]] ELSE rows[i]]
Inserted(d) ==
  [k \in 1..Len(added[d]) |-> [who |-> added[d][k], pts |-> 0, by |-> d]]

LEMMA SaveRows ==
  ASSUME Typed, NEW d \in Delivery, Save(d)
  PROVE  /\ rows' \in Seq(Row)
         /\ Len(rows') = Len(rows) + Len(added[d])
         /\ Len(rows) \in Nat /\ Len(added[d]) \in Nat
         /\ \A i \in 1..Len(rows) : rows'[i] = Updated(d)[i]
         /\ \A i \in (Len(rows) + 1)..Len(rows') :
               rows'[i] = Inserted(d)[i - Len(rows)]
<1>1. Len(rows) \in Nat /\ Len(added[d]) \in Nat
  BY DEF Typed
<1>2. \A i \in 1..Len(rows) : rows[i] \in Row
  BY ElementOfSeq DEF Typed
<1>3. \A i \in 1..Len(cur[d]) : cur[d][i] \in Int
  BY ElementOfSeq DEF Typed
<1>4. Updated(d) \in [1..Len(rows) -> Row]
  BY <1>2, <1>3 DEF Updated, Changed, Row
<1>5. Updated(d) \in Seq(Row) /\ Len(Updated(d)) = Len(rows)
  BY <1>4, RowValues
<1>6. \A k \in 1..Len(added[d]) : added[d][k] \in Member
  BY ElementOfSeq DEF Typed
<1>7. Inserted(d) \in [1..Len(added[d]) -> Row]
  BY <1>6 DEF Inserted, Row
<1>8. Inserted(d) \in Seq(Row) /\ Len(Inserted(d)) = Len(added[d])
  BY <1>1, <1>7
<1>9. rows' = Updated(d) \o Inserted(d)
  BY DEF Save, Updated, Inserted
<1>10. /\ rows' \in Seq(Row)
       /\ Len(rows') = Len(rows) + Len(added[d])
       /\ \A i \in 1..(Len(rows) + Len(added[d])) :
            rows'[i] = IF i <= Len(rows) THEN Updated(d)[i]
                                         ELSE Inserted(d)[i - Len(rows)]
  BY <1>5, <1>8, <1>9, ConcatProperties
<1>11. ASSUME NEW i \in 1..Len(rows)
       PROVE  rows'[i] = Updated(d)[i]
  <2>1. i \in 1..(Len(rows) + Len(added[d])) /\ i <= Len(rows)
    BY <1>1
  <2> QED
    BY <1>10, <2>1
<1>12. ASSUME NEW i \in (Len(rows) + 1)..Len(rows')
       PROVE  rows'[i] = Inserted(d)[i - Len(rows)]
  <2>1. i \in 1..(Len(rows) + Len(added[d])) /\ ~(i <= Len(rows))
    BY <1>1, <1>10
  <2> QED
    BY <1>10, <2>1
<1> QED
  BY <1>1, <1>10, <1>11, <1>12

LEMMA SaveType ==
  ASSUME Typed, NEW d \in Delivery, Save(d)
  PROVE  Typed'
<1>1. pc' \in [Delivery -> {"waiting"} \cup Running \cup Ended]
  BY GotoType DEF Save, Running
<1> QED
  BY <1>1, SaveRows DEF Typed, Save, locals

LEMMA RestartType == Typed /\ Restart => Typed'
<1> SUFFICES ASSUME Typed, Restart PROVE Typed'
  OBVIOUS
<1>1. pc' \in [Delivery -> {"waiting"} \cup Running \cup Ended]
  BY DEF Typed, Restart, Ended
<1> QED
  BY <1>1 DEF Typed, Restart, table, locals

-----------------------------------------------------------------------------
LEMMA TurnLine ==
  ASSUME Typed, LineOK, NEW d \in Delivery, Named(d), msg' = msg,
         NEW again \in Running, NEW after \in Running, Turn(d, again, after)
  PROVE  LineOK'
<1> SUFFICES ASSUME NEW e \in Delivery
             PROVE  /\ pc'[e] = "waiting" => line'[e] = 1
                    /\ line'[e] = 1 \/ line'[e] <= Len(Mentions(e)')
  BY DEF LineOK
<1>1. Mentions(e)' = Mentions(e)
  BY DEF Mentions
<1>2. CASE e = d
  <2>1. pc'[d] # "waiting"
    BY DEF Typed, Turn, Goto, Running, Posting
  <2>2. Len(Mentions(d)) \in Nat \ {0}
    BY EmptySeq DEF Typed, Mentions, Incoming, Named
  <2>3. line'[d] = IF line[d] = Len(Mentions(d)) THEN 1 ELSE line[d] + 1
    BY DEF Typed, Turn
  <2>4. line[d] \in Nat \ {0} /\ (line[d] = 1 \/ line[d] <= Len(Mentions(d)))
    BY DEF Typed, LineOK
  <2>5. line'[d] = 1 \/ line'[d] <= Len(Mentions(d))
    BY <2>2, <2>3, <2>4
  <2> QED
    BY <1>1, <1>2, <2>1, <2>5
<1>3. CASE e # d
  BY <1>1, <1>3 DEF Typed, LineOK, Turn, Goto
<1> QED
  BY <1>2, <1>3

LEMMA ReceiveLine ==
  ASSUME Typed, LineOK, NEW d \in Delivery, NEW m, Receive(d, m)
  PROVE  LineOK'
<1> SUFFICES ASSUME NEW e \in Delivery
             PROVE  /\ pc'[e] = "waiting" => line'[e] = 1
                    /\ line'[e] = 1 \/ line'[e] <= Len(Mentions(e)')
  BY DEF LineOK
<1>1. CASE e = d
  BY <1>1 DEF Typed, LineOK, Receive, Goto
<1>2. CASE e # d
  BY <1>2 DEF Typed, LineOK, Receive, Goto, Mentions
<1> QED
  BY <1>1, <1>2

(* The steps that leave the loops alone.                                   *)
LEMMA OtherLine ==
  ASSUME Typed, LineOK, UNCHANGED <<msg, line>>,
         \A e \in Delivery : pc'[e] = "waiting" => pc[e] = "waiting"
  PROVE  LineOK'
BY DEF LineOK, Mentions

LEMMA GotoStarted ==
  ASSUME Typed, NEW d \in Delivery, NEW label, label # "waiting", Goto(d, label)
  PROVE  \A e \in Delivery : pc'[e] = "waiting" => pc[e] = "waiting"
BY DEF Typed, Goto

Straight(d) == \/ LogLoad(d) \/ LogStore(d) \/ LogThrows(d) \/ Skip(d)
               \/ Score(d) \/ Post(d) \/ PostFails(d) \/ Save(d)

LEMMA StraightLine ==
  ASSUME Typed, LineOK, NEW d \in Delivery, Straight(d)
  PROVE  LineOK'
<1>1. UNCHANGED <<msg, line>>
  BY DEF Straight, LogLoad, LogStore, LogThrows, Skip, RegisterSkip,
         RegisterReminder, RegisterNobody, MeritSkip, MeritNobody, ScoreSkip,
         SaveFails, Andre, Score, Post, PostFails, Save, locals
<1>2. PICK label : label # "waiting" /\ Goto(d, label)
  <2>1. CASE Post(d)
    <3>1. AfterPost[pc[d]] # "waiting"
      BY <2>1 DEF Post, AfterPost, Posting
    <3> QED BY <2>1, <3>1 DEF Post
  <2>2. CASE Skip(d)
    BY <2>2 DEF Skip, RegisterSkip, RegisterReminder, RegisterNobody, MeritSkip,
       MeritNobody, ScoreSkip, SaveFails, Andre
  <2>3. CASE LogLoad(d) \/ LogStore(d) \/ LogThrows(d)
    BY <2>3 DEF LogLoad, LogStore, LogThrows
  <2>4. CASE Score(d) \/ PostFails(d) \/ Save(d)
    BY <2>4 DEF Score, PostFails, Save
  <2> QED BY <2>1, <2>2, <2>3, <2>4 DEF Straight
<1> QED
  BY <1>1, <1>2, GotoStarted, OtherLine

LEMMA StepCases ==
  ASSUME NEW d \in Delivery, Step(d)
  PROVE  Straight(d) \/ Register(d) \/ Merit(d)
BY DEF Step, Straight, Skip

(* A step keeps the type of the state and the loops inside the mentions.   *)
LEMMA NextType == Typed /\ LineOK /\ [Next]_vars => (Typed /\ LineOK)'
<1> SUFFICES ASSUME Typed, LineOK, [Next]_vars PROVE Typed' /\ LineOK'
  OBVIOUS
<1>1. ASSUME NEW d \in Delivery, Deliver(d) PROVE Typed' /\ LineOK'
  BY <1>1, DeliverType, ReceiveLine DEF Deliver
<1>2. ASSUME NEW d \in Delivery, Echo(d) PROVE Typed' /\ LineOK'
  BY <1>2, EchoType, ReceiveLine DEF Echo
<1>3. ASSUME NEW d \in Delivery, Step(d) PROVE Typed' /\ LineOK'
  <2>1. CASE Straight(d)
    <3>1. Typed'
      BY <2>1, LogType, SkipType, ScoreType, PostType, SaveType DEF Straight
    <3> QED BY <2>1, <3>1, StraightLine
  <2>2. CASE Register(d)
    <3>1. LineOK'
      BY <2>2, TurnLine DEF Register, Running, Posting
    <3> QED BY <2>2, <3>1, RegisterType
  <2>3. CASE Merit(d)
    <3>1. LineOK'
      BY <2>3, TurnLine DEF Merit, Running, Posting
    <3> QED BY <2>3, <3>1, MeritType
  <2> QED BY <1>3, <2>1, <2>2, <2>3, StepCases
<1>4. CASE Restart
  <2>1. \A e \in Delivery : pc'[e] = "waiting" => pc[e] = "waiting"
    BY <1>4 DEF Typed, Restart
  <2>2. UNCHANGED <<msg, line>>
    BY <1>4 DEF Restart, locals
  <2> QED BY <1>4, <2>1, <2>2, OtherLine, RestartType
<1>5. CASE UNCHANGED vars
  BY <1>5 DEF Typed, LineOK, Mentions, vars
<1> QED
  BY <1>1, <1>2, <1>3, <1>4, <1>5 DEF Next

LEMMA TypesKept == Spec => [](Typed /\ LineOK)
<1>1. Init => Typed /\ LineOK
  <2>1. Init => LineOK
    BY DEF Init, LineOK
  <2> QED BY <2>1, InitType
<1> QED
  BY <1>1, NextType, PTL DEF Spec

(* The state of the webhook always has its type.                           *)
THEOREM TypeCorrect == Spec => []TypeOK
BY TypesKept DEF TypeOK

-----------------------------------------------------------------------------
(* A context of the database holds a prefix of the table, and the rows it  *)
(* has changed belong to members its message mentions.                     *)
ContextInv ==
  \A d \in Delivery :
    /\ pc[d] = "waiting" => cur[d] = <<>>
    /\ Len(seen[d]) = Len(cur[d]) /\ Len(cur[d]) <= Len(rows)
    /\ \A i \in 1..Len(rows) :
         i <= Len(cur[d]) /\ cur[d][i] # seen[d][i] =>
           Says(d, "merit") /\ rows[i].who \in Mentioned(d)

(* The table only grows, and a row keeps its member.                       *)
Grows ==
  /\ Len(rows) <= Len(rows')
  /\ \A i \in 1..Len(rows) : rows'[i].who = rows[i].who /\ rows'[i].by = rows[i].by

LEMMA ContextFrame ==
  ASSUME Typed, ContextInv, rows' \in Seq(Row), Grows, UNCHANGED <<cur, seen, msg>>,
         \A e \in Delivery : pc'[e] = "waiting" => pc[e] = "waiting"
  PROVE  ContextInv'
<1> SUFFICES ASSUME NEW d \in Delivery
             PROVE  /\ pc'[d] = "waiting" => cur'[d] = <<>>
                    /\ Len(seen'[d]) = Len(cur'[d]) /\ Len(cur'[d]) <= Len(rows')
                    /\ \A i \in 1..Len(rows') :
                         i <= Len(cur'[d]) /\ cur'[d][i] # seen'[d][i] =>
                           Says(d, "merit")' /\ rows'[i].who \in Mentioned(d)'
  BY DEF ContextInv
<1>1. Len(rows) \in Nat /\ Len(rows') \in Nat /\ Len(cur[d]) \in Nat
  BY DEF Typed
<1>2. Says(d, "merit")' = Says(d, "merit") /\ Mentioned(d)' = Mentioned(d)
  BY DEF Says, Mentioned, Mentions
<1>3. pc'[d] = "waiting" => cur'[d] = <<>>
  BY DEF ContextInv
<1>4. Len(seen'[d]) = Len(cur'[d]) /\ Len(cur'[d]) <= Len(rows')
  BY <1>1 DEF ContextInv, Grows
<1>5. ASSUME NEW i \in 1..Len(rows'), i <= Len(cur'[d]), cur'[d][i] # seen'[d][i]
      PROVE  Says(d, "merit")' /\ rows'[i].who \in Mentioned(d)'
  <2>1. i \in 1..Len(rows) /\ i <= Len(cur[d]) /\ cur[d][i] # seen[d][i]
    BY <1>1, <1>5 DEF ContextInv
  <2> QED BY <1>2, <2>1 DEF ContextInv, Grows
<1> QED
  BY <1>3, <1>4, <1>5

(* What a query puts into a context, changed or as loaded.                 *)
LEMMA QueryAgrees ==
  ASSUME Typed, ContextInv, NEW d \in Delivery, NEW i \in 1..Len(rows),
         Queried(d, cur)[i] # Queried(d, seen)[i]
  PROVE  Says(d, "merit") /\ rows[i].who \in Mentioned(d)
<1>1. i <= Len(cur[d])
  BY DEF Queried, ContextInv
<1>2. cur[d][i] # seen[d][i]
  BY <1>1 DEF Queried, ContextInv
<1> QED
  BY <1>1, <1>2 DEF ContextInv

LEMMA QueryContext ==
  ASSUME Typed, ContextInv, NEW d \in Delivery, Merit(d) \/ Score(d), LineOK
  PROVE  ContextInv'
<1> DEFINE m == Mentions(d)[line[d]]
           points == Awarded(m, msg[d].words, Queried(d, cur))
<1>1. rows' = rows /\ msg' = msg
  BY DEF Merit, Score, table
<1>2. PICK label : label # "waiting" /\ Goto(d, label)
  BY DEF Merit, Turn, Score
<1>3. \A e \in Delivery : pc'[e] = "waiting" => pc[e] = "waiting"
  BY <1>2, GotoStarted
<1>4. pc'[d] # "waiting"
  BY <1>2 DEF Typed, Goto
<1>5. /\ Queried(d, cur) \in [1..Len(rows) -> Int]
      /\ Queried(d, seen) \in [1..Len(rows) -> Int]
  BY QueriedType DEF Typed
<1>6. seen'[d] = Queried(d, seen) /\ \A e \in Delivery \ {d} : seen'[e] = seen[e]
  BY DEF Typed, Merit, Score
<1>7. /\ cur'[d] \in [1..Len(rows) -> Int]
      /\ \A e \in Delivery \ {d} : cur'[e] = cur[e]
      /\ \A i \in 1..Len(rows) :
           \/ cur'[d][i] = Queried(d, cur)[i]
           \/ Says(d, "merit") /\ rows[i].who \in Mentioned(d)
  <2>1. CASE Merit(d)
    <3>1. cur'[d] = points /\ \A e \in Delivery \ {d} : cur'[e] = cur[e]
      BY <2>1 DEF Typed, Merit
    <3>2. points \in [1..Len(rows) -> Int]
      BY <1>5, AwardedType
    <3>3. m \in Mentioned(d) /\ Says(d, "merit")
      <4>1. Mentions(d) \in Seq(Member) /\ Mentions(d) # <<>>
        BY <2>1 DEF Typed, Mentions, Incoming, Merit, Named
      <4>2. line[d] \in 1..Len(Mentions(d))
        BY <4>1, EmptySeq DEF Typed, LineOK
      <4> QED BY <2>1, <4>2 DEF Mentioned, Merit
    <3>4. \A i \in 1..Len(rows) :
            points[i] = Queried(d, cur)[i] \/ rows[i].who = m
      BY DEF Awarded
    <3> QED BY <3>1, <3>2, <3>3, <3>4
  <2>2. CASE Score(d)
    BY <1>5, <2>2 DEF Typed, Score
  <2> QED BY <2>1, <2>2
<1>8. Len(seen'[d]) = Len(rows) /\ Len(cur'[d]) = Len(rows)
  BY <1>5, <1>6, <1>7, RowValues
<1> SUFFICES ASSUME NEW e \in Delivery
             PROVE  /\ pc'[e] = "waiting" => cur'[e] = <<>>
                    /\ Len(seen'[e]) = Len(cur'[e]) /\ Len(cur'[e]) <= Len(rows)
                    /\ \A i \in 1..Len(rows) :
                         i <= Len(cur'[e]) /\ cur'[e][i] # seen'[e][i] =>
                           Says(e, "merit") /\ rows[i].who \in Mentioned(e)
  BY <1>1 DEF ContextInv, Says, Mentioned, Mentions
<1>9. CASE e = d
  <2>1. \A i \in 1..Len(rows) : cur'[d][i] # seen'[d][i] =>
          Says(d, "merit") /\ rows[i].who \in Mentioned(d)
    BY <1>6, <1>7, QueryAgrees
  <2>2. Len(rows) \in Nat
    BY DEF Typed
  <2> QED BY <1>4, <1>8, <1>9, <2>1, <2>2
<1>10. CASE e # d
  BY <1>3, <1>6, <1>7, <1>10 DEF ContextInv
<1> QED
  BY <1>9, <1>10

LEMMA ReceiveContext ==
  ASSUME Typed, ContextInv, NEW d \in Delivery, NEW m, Receive(d, m)
  PROVE  ContextInv'
<1> SUFFICES ASSUME NEW e \in Delivery
             PROVE  /\ pc'[e] = "waiting" => cur[e] = <<>>
                    /\ Len(seen[e]) = Len(cur[e]) /\ Len(cur[e]) <= Len(rows)
                    /\ \A i \in 1..Len(rows) :
                         i <= Len(cur[e]) /\ cur[e][i] # seen[e][i] =>
                           Says(e, "merit")' /\ rows[i].who \in Mentioned(e)'
  BY DEF ContextInv, Receive
<1>1. CASE e = d
  <2>1. pc[d] = "waiting" /\ pc'[d] = "log"
    BY DEF Typed, Receive, Goto
  <2>2. cur[d] = <<>>
    BY <2>1 DEF ContextInv
  <2> QED BY <1>1, <2>1, <2>2, EmptySeq DEF ContextInv
<1>2. CASE e # d
  <2>1. pc'[e] = pc[e] /\ msg'[e] = msg[e]
    BY <1>2 DEF Typed, Receive, Goto
  <2> QED BY <2>1 DEF ContextInv, Says, Mentioned, Mentions
<1> QED
  BY <1>1, <1>2

LEMMA SaveGrows ==
  ASSUME Typed, NEW d \in Delivery, Save(d)
  PROVE  Grows
<1>1. \A i \in 1..Len(rows) : rows[i] \in Row
  BY ElementOfSeq DEF Typed
<1>2. \A i \in 1..Len(rows) : Updated(d)[i].who = rows[i].who
                              /\ Updated(d)[i].by = rows[i].by
  BY <1>1 DEF Updated, Row
<1> QED
  BY <1>2, SaveRows DEF Grows

(* A step other than a query or SaveChanges changes no context, no row.    *)
LEMMA StepFrame ==
  ASSUME Typed, NEW d \in Delivery, Step(d), ~Merit(d), ~Score(d)
  PROVE  /\ UNCHANGED <<cur, seen, msg>>
         /\ ~Save(d) => rows' = rows
         /\ \A e \in Delivery : pc'[e] = "waiting" => pc[e] = "waiting"
<1>1. UNCHANGED <<cur, seen, msg>> /\ (~Save(d) => rows' = rows)
  BY DEF Step, LogLoad, LogStore, LogThrows, RegisterSkip, RegisterReminder,
         RegisterNobody, Register, MeritSkip, MeritNobody, ScoreSkip, Post,
         PostFails, Save, SaveFails, Andre, table, locals
<1>2. PICK label : label # "waiting" /\ Goto(d, label)
  <2>1. CASE Post(d)
    <3>1. AfterPost[pc[d]] # "waiting"
      BY <2>1 DEF Post, AfterPost, Posting
    <3> QED BY <2>1, <3>1 DEF Post
  <2>2. CASE ~Post(d)
    BY <2>2 DEF Step, LogLoad, LogStore, LogThrows, RegisterSkip, RegisterReminder,
       RegisterNobody, Register, Turn, MeritSkip, MeritNobody, ScoreSkip, PostFails,
       Save, SaveFails, Andre
  <2> QED BY <2>1, <2>2
<1> QED
  BY <1>1, <1>2, GotoStarted

(* A step of one call touches nothing of another but the table and chat.   *)
LEMMA StepAlone ==
  ASSUME Typed, NEW d \in Delivery, Step(d)
  PROVE  /\ Grows /\ chat \subseteq chat' /\ msg' = msg
         /\ \A e \in Delivery \ {d} :
              /\ pc'[e] = pc[e] /\ cur'[e] = cur[e] /\ seen'[e] = seen[e]
              /\ added'[e] = added[e] /\ lines'[e] = lines[e]
<1>1. chat \subseteq chat' /\ msg' = msg
  BY DEF Step, LogLoad, LogStore, LogThrows, RegisterSkip, RegisterReminder,
         RegisterNobody, Register, MeritSkip, MeritNobody, Merit, Score, ScoreSkip,
         Post, PostFails, Save, SaveFails, Andre, table, locals
<1>2. Grows
  <2>1. CASE Save(d)
    BY <2>1, SaveGrows
  <2>2. CASE ~Save(d)
    <3>1. rows' = rows
      BY <2>2 DEF Step, LogLoad, LogStore, LogThrows, RegisterSkip,
         RegisterReminder, RegisterNobody, Register, MeritSkip, MeritNobody, Merit,
         Score, ScoreSkip, Post, PostFails, SaveFails, Andre, table
    <3> QED
      BY <3>1 DEF Grows, Typed
  <2> QED
    BY <2>1, <2>2
<1>3. ASSUME NEW e \in Delivery \ {d}
      PROVE  pc'[e] = pc[e]
  BY <1>3 DEF Step, LogLoad, LogStore, LogThrows, RegisterSkip, RegisterReminder,
     RegisterNobody, Register, Turn, MeritSkip, MeritNobody, Merit, Score,
     ScoreSkip, Post, PostFails, Save, SaveFails, Andre, Goto, Typed
<1>4. ASSUME NEW e \in Delivery \ {d}
      PROVE  /\ cur'[e] = cur[e] /\ seen'[e] = seen[e]
             /\ added'[e] = added[e] /\ lines'[e] = lines[e]
  BY <1>4 DEF Step, LogLoad, LogStore, LogThrows, RegisterSkip, RegisterReminder,
     RegisterNobody, Register, MeritSkip, MeritNobody, Merit, Score, ScoreSkip,
     Post, PostFails, Save, SaveFails, Andre, Typed, locals
<1> QED
  BY <1>1, <1>2, <1>3, <1>4

LEMMA NextContext ==
  ASSUME Typed, LineOK, ContextInv, [Next]_vars
  PROVE  ContextInv'
<1>1. ASSUME NEW d \in Delivery, Deliver(d) \/ Echo(d) PROVE ContextInv'
  BY <1>1, ReceiveContext DEF Deliver, Echo
<1>2. ASSUME NEW d \in Delivery, Step(d) PROVE ContextInv'
  <2>1. CASE Merit(d) \/ Score(d)
    BY <2>1, QueryContext
  <2>2. CASE ~(Merit(d) \/ Score(d))
    <3>1. Grows /\ rows' \in Seq(Row)
      <4>1. CASE Save(d)
        BY <4>1, SaveGrows, SaveRows
      <4>2. CASE ~Save(d)
        BY <1>2, <2>2, <4>2, StepFrame DEF Grows, Typed
      <4> QED BY <4>1, <4>2
    <3> QED BY <1>2, <2>2, <3>1, StepFrame, ContextFrame
  <2> QED BY <2>1, <2>2
<1>3. CASE Restart
  <2>1. Grows /\ rows' \in Seq(Row) /\ UNCHANGED <<cur, seen, msg>>
    BY <1>3 DEF Restart, table, locals, Grows, Typed
  <2>2. \A e \in Delivery : pc'[e] = "waiting" => pc[e] = "waiting"
    BY <1>3 DEF Restart, Typed
  <2> QED BY <2>1, <2>2, ContextFrame
<1>4. CASE UNCHANGED vars
  BY <1>4, ContextFrame DEF vars, Grows, Typed
<1> QED
  BY <1>1, <1>2, <1>3, <1>4 DEF Next

LEMMA InitContext == Init => ContextInv
<1> SUFFICES ASSUME Init PROVE ContextInv
  OBVIOUS
<1>1. \A d \in Delivery : cur[d] = <<>> /\ seen[d] = <<>>
  BY DEF Init
<1>2. Len(rows) \in Nat
  BY InitType DEF Typed
<1> QED
  BY <1>1, <1>2, EmptySeq DEF ContextInv

(* SaveChanges leaves the rows of the members not mentioned as they are.   *)
LEMMA StepBystanders ==
  ASSUME Typed, ContextInv, [Next]_vars,
         NEW i \in 1..Len(rows), rows'[i] # rows[i]
  PROVE  \E d \in Delivery : /\ pc[d] = "save"
                             /\ Says(d, "merit")
                             /\ rows[i].who \in Mentioned(d)
<1>1. PICK d \in Delivery : Save(d)
  <2>1. ~Restart /\ ~UNCHANGED vars
    BY DEF Restart, table, vars
  <2>2. PICK d \in Delivery : Deliver(d) \/ Echo(d) \/ Step(d)
    BY <2>1 DEF Next
  <2>3. ~Deliver(d) /\ ~Echo(d)
    BY DEF Deliver, Echo, Receive
  <2>4. ~Merit(d) /\ ~Score(d)
    BY DEF Merit, Score, table
  <2> QED BY <2>2, <2>3, <2>4, StepFrame
<1>2. rows'[i] = Updated(d)[i]
  BY <1>1, SaveRows
<1>3. i \in Changed(d)
  BY <1>2 DEF Updated
<1>4. i <= Len(cur[d]) /\ cur[d][i] # seen[d][i]
  BY <1>3 DEF Changed, Typed
<1> QED
  BY <1>1, <1>4 DEF ContextInv, Save

(* Overlapping calls do not overwrite each other's members.                *)
THEOREM BystandersKept == Spec => BystandersKeepPoints
<1>1. Typed /\ ContextInv /\ [Next]_vars =>
        [\A i \in 1..Len(rows) :
           rows'[i] # rows[i] =>
             \E d \in Delivery : /\ pc[d] = "save"
                                 /\ Says(d, "merit")
                                 /\ rows[i].who \in Mentioned(d)]_rows
  BY StepBystanders
<1>2. Typed /\ LineOK /\ ContextInv /\ [Next]_vars => ContextInv'
  BY NextContext
<1> QED
  BY <1>1, <1>2, InitContext, TypesKept, PTL DEF Spec, BystandersKeepPoints

-----------------------------------------------------------------------------
(* Rows of one member inserted together are loaded, awarded and written    *)
(* together.                                                               *)
Twins(i, j) == rows[i].who = rows[j].who /\ rows[i].by = rows[j].by

TwinInv ==
  /\ \A i, j \in 1..Len(rows) : Twins(i, j) => rows[i].pts = rows[j].pts
  /\ \A i \in 1..Len(rows), d \in Delivery :
       rows[i].by = d => pc[d] \in {"andre", "postAndre"} \cup Ended
  /\ \A d \in Delivery : \A i, j \in 1..Len(rows) :
       Twins(i, j) /\ i <= Len(cur[d]) =>
         /\ j <= Len(cur[d])
         /\ cur[d][i] = cur[d][j] /\ seen[d][i] = seen[d][j]

(* A call that has saved does not save again.                              *)
LEMMA SavedStays ==
  ASSUME Typed, [Next]_vars, NEW d \in Delivery,
         pc[d] \in {"andre", "postAndre"} \cup Ended
  PROVE  pc'[d] \in {"andre", "postAndre"} \cup Ended
<1>1. ASSUME NEW e \in Delivery, Deliver(e) \/ Echo(e)
      PROVE  pc'[d] \in {"andre", "postAndre"} \cup Ended
  BY <1>1 DEF Deliver, Echo, Receive, Goto, Typed, Ended
<1>2. ASSUME NEW e \in Delivery, Step(e)
      PROVE  pc'[d] \in {"andre", "postAndre"} \cup Ended
  <2>1. CASE e # d
    BY <1>2, <2>1 DEF Step, LogLoad, LogStore, LogThrows, RegisterSkip,
       RegisterReminder, RegisterNobody, Register, Turn, MeritSkip, MeritNobody,
       Merit, Score, ScoreSkip, Post, PostFails, Save, SaveFails, Andre, Goto, Typed
  <2>2. CASE e = d
    <3>1. Andre(d) \/ Post(d) \/ PostFails(d)
      BY <1>2, <2>2 DEF Step, LogLoad, LogStore, LogThrows, RegisterSkip,
         RegisterReminder, RegisterNobody, Register, MeritSkip, MeritNobody, Merit,
         Score, ScoreSkip, Save, SaveFails, Ended
    <3>2. CASE Andre(d)
      BY <3>2 DEF Andre, Goto, Typed, Ended
    <3>3. CASE Post(d)
      <4>1. AfterPost[pc[d]] = "done"
        BY <3>3 DEF Post, AfterPost, Posting, Ended
      <4> QED BY <3>3, <4>1 DEF Post, Goto, Typed, Ended
    <3>4. CASE PostFails(d)
      BY <3>4 DEF PostFails, Goto, Typed, Ended
    <3> QED BY <3>1, <3>2, <3>3, <3>4
  <2> QED BY <2>1, <2>2
<1>3. CASE Restart
  BY <1>3 DEF Restart, Typed, Ended
<1>4. CASE UNCHANGED vars
  BY <1>4 DEF vars
<1> QED
  BY <1>1, <1>2, <1>3, <1>4 DEF Next

(* A query loads twins alike.                                              *)
LEMMA QueryTwins ==
  ASSUME Typed, ContextInv, TwinInv, NEW d \in Delivery,
         NEW i \in 1..Len(rows), NEW j \in 1..Len(rows), Twins(i, j)
  PROVE  /\ Queried(d, cur)[i] = Queried(d, cur)[j]
         /\ Queried(d, seen)[i] = Queried(d, seen)[j]
<1>1. Twins(j, i)
  BY DEF Twins
<1>2. (i <= Len(cur[d])) <=> (j <= Len(cur[d]))
  BY <1>1 DEF TwinInv
<1>3. Len(seen[d]) = Len(cur[d])
  BY DEF ContextInv
<1>4. rows[i].pts = rows[j].pts
  BY DEF TwinInv
<1>5. i <= Len(cur[d]) => cur[d][i] = cur[d][j] /\ seen[d][i] = seen[d][j]
  BY DEF TwinInv
<1> QED
  BY <1>2, <1>3, <1>4, <1>5 DEF Queried

LEMMA TwinFrame ==
  ASSUME Typed, TwinInv, [Next]_vars, rows' = rows, UNCHANGED <<cur, seen>>
  PROVE  TwinInv'
<1>1. \A i, j \in 1..Len(rows) : Twins(i, j)' = Twins(i, j)
  BY DEF Twins
<1>2. \A i \in 1..Len(rows), d \in Delivery :
        rows'[i].by = d => pc'[d] \in {"andre", "postAndre"} \cup Ended
  BY SavedStays DEF TwinInv
<1> QED
  BY <1>1, <1>2 DEF TwinInv

LEMMA LoadTwins ==
  ASSUME Typed, ContextInv, TwinInv, [Next]_vars, NEW d \in Delivery,
         Merit(d) \/ Score(d)
  PROVE  TwinInv'
<1>1. rows' = rows
  BY DEF Merit, Score, table
<1>2. \A i, j \in 1..Len(rows) : Twins(i, j)' = Twins(i, j)
  BY <1>1 DEF Twins
<1>3. /\ Queried(d, cur) \in [1..Len(rows) -> Int]
      /\ Queried(d, seen) \in [1..Len(rows) -> Int]
  BY QueriedType DEF Typed
<1>4. seen'[d] = Queried(d, seen) /\ \A e \in Delivery \ {d} : seen'[e] = seen[e]
  BY DEF Typed, Merit, Score
<1>5. /\ cur'[d] \in [1..Len(rows) -> Int]
      /\ \A e \in Delivery \ {d} : cur'[e] = cur[e]
      /\ \A i, j \in 1..Len(rows) : Twins(i, j) => cur'[d][i] = cur'[d][j]
  <2>1. CASE Merit(d)
    <3> DEFINE m == Mentions(d)[line[d]]
               points == Awarded(m, msg[d].words, Queried(d, cur))
    <3>1. cur'[d] = points /\ \A e \in Delivery \ {d} : cur'[e] = cur[e]
      BY <2>1 DEF Typed, Merit
    <3>2. points \in [1..Len(rows) -> Int]
      BY <1>3, AwardedType
    <3>3. \A i, j \in 1..Len(rows) : Twins(i, j) => points[i] = points[j]
      BY QueryTwins DEF Awarded, Twins
    <3> QED BY <3>1, <3>2, <3>3
  <2>2. CASE Score(d)
    <3>1. cur'[d] = Queried(d, cur) /\ \A e \in Delivery \ {d} : cur'[e] = cur[e]
      BY <2>2 DEF Typed, Score
    <3> QED BY <1>3, <3>1, QueryTwins
  <2> QED BY <2>1, <2>2
<1>6. Len(cur'[d]) = Len(rows) /\ Len(rows) \in Nat
  BY <1>5, RowValues DEF Typed
<1>7. \A i \in 1..Len(rows), e \in Delivery :
        rows'[i].by = e => pc'[e] \in {"andre", "postAndre"} \cup Ended
  BY <1>1, SavedStays DEF TwinInv
<1>8. ASSUME NEW e \in Delivery, NEW i \in 1..Len(rows), NEW j \in 1..Len(rows),
             Twins(i, j), i <= Len(cur'[e])
      PROVE  j <= Len(cur'[e]) /\ cur'[e][i] = cur'[e][j] /\ seen'[e][i] = seen'[e][j]
  <2>1. CASE e = d
    BY <1>4, <1>5, <1>6, <1>8, <2>1, QueryTwins
  <2>2. CASE e # d
    BY <1>4, <1>5, <1>8, <2>2 DEF TwinInv
  <2> QED BY <2>1, <2>2
<1> QED
  BY <1>1, <1>2, <1>7, <1>8 DEF TwinInv

LEMMA SaveTwins ==
  ASSUME Typed, ContextInv, TwinInv, [Next]_vars, NEW d \in Delivery, Save(d)
  PROVE  TwinInv'
<1> DEFINE Old == 1..Len(rows)
<1>1. /\ Len(rows') = Len(rows) + Len(added[d])
      /\ Len(rows) \in Nat /\ Len(added[d]) \in Nat
      /\ \A i \in Old : rows'[i] = Updated(d)[i]
      /\ \A i \in (Len(rows) + 1)..Len(rows') :
            rows'[i] = Inserted(d)[i - Len(rows)]
  BY SaveRows
<1>2. \A i \in Old : rows'[i].who = rows[i].who /\ rows'[i].by = rows[i].by
  BY SaveGrows DEF Grows
<1>3. ASSUME NEW i \in (1..Len(rows')) \ Old
      PROVE  rows'[i].by = d /\ rows'[i].pts = 0
  <2>1. i \in (Len(rows) + 1)..Len(rows') /\ i - Len(rows) \in 1..Len(added[d])
    BY <1>1
  <2>2. rows'[i] = Inserted(d)[i - Len(rows)]
    BY <1>1, <2>1
  <2>3. \A k \in 1..Len(added[d]) : Inserted(d)[k].by = d /\ Inserted(d)[k].pts = 0
    BY DEF Inserted
  <2> QED BY <2>1, <2>2, <2>3
<1>4. \A i \in Old : rows'[i].by # d
  <2>1. pc[d] = "save"
    BY DEF Save
  <2> QED BY <1>2, <2>1 DEF TwinInv, Ended
<1>5. UNCHANGED <<cur, seen>>
  BY DEF Save, locals
<1>6. \A i, j \in Old : Twins(i, j)' = Twins(i, j)
  BY <1>2 DEF Twins
<1>7. \A i, j \in 1..Len(rows') : Twins(i, j)' => (i \in Old <=> j \in Old)
  BY <1>3, <1>4 DEF Twins
<1>8. ASSUME NEW i \in Old, NEW j \in Old, Twins(i, j)
      PROVE  rows'[i].pts = rows'[j].pts
  <2>1. rows[i] \in Row /\ rows[j] \in Row
    BY ElementOfSeq DEF Typed
  <2>2. Twins(j, i) /\ rows[i].pts = rows[j].pts
    BY <1>8 DEF Twins, TwinInv
  <2>3. (i <= Len(cur[d])) <=> (j <= Len(cur[d]))
    BY <1>8, <2>2 DEF TwinInv
  <2>4. i <= Len(cur[d]) => cur[d][i] = cur[d][j] /\ seen[d][i] = seen[d][j]
    BY <1>8 DEF TwinInv
  <2>5. (i \in Changed(d)) <=> (j \in Changed(d))
    BY <2>3, <2>4 DEF Changed, Typed
  <2>6. \A k \in {i, j} :
          Updated(d)[k].pts = IF k \in Changed(d) THEN cur[d][k] ELSE rows[k].pts
    BY <2>1 DEF Updated, Row
  <2>7. i \in Changed(d) => i <= Len(cur[d])
    BY DEF Changed, Typed
  <2> QED BY <1>1, <2>2, <2>4, <2>5, <2>6, <2>7
<1>9. \A i, j \in 1..Len(rows') : Twins(i, j)' => rows'[i].pts = rows'[j].pts
  BY <1>3, <1>6, <1>7, <1>8
<1>10. ASSUME NEW i \in 1..Len(rows'), NEW e \in Delivery, rows'[i].by = e
       PROVE  pc'[e] \in {"andre", "postAndre"} \cup Ended
  <2>1. CASE i \in Old
    BY <1>2, <1>10, <2>1, SavedStays DEF TwinInv
  <2>2. CASE i \notin Old
    <3>1. e = d
      BY <1>3, <1>10, <2>2
    <3> QED BY <3>1 DEF Save, Goto, Typed
  <2> QED BY <2>1, <2>2
<1>11. ASSUME NEW e \in Delivery, NEW i \in 1..Len(rows'), NEW j \in 1..Len(rows'),
              Twins(i, j)', i <= Len(cur'[e])
       PROVE  j <= Len(cur'[e]) /\ cur'[e][i] = cur'[e][j] /\ seen'[e][i] = seen'[e][j]
  <2>1. Len(cur[e]) \in Nat /\ Len(cur[e]) <= Len(rows)
    BY DEF Typed, ContextInv
  <2>2. i \in Old
    BY <1>1, <1>5, <1>11, <2>1
  <2>3. j \in Old /\ Twins(i, j)
    BY <1>6, <1>7, <1>11, <2>2
  <2> QED BY <1>5, <1>11, <2>2, <2>3 DEF TwinInv
<1> QED
  BY <1>9, <1>10, <1>11 DEF TwinInv

LEMMA NextTwins ==
  ASSUME Typed, ContextInv, TwinInv, [Next]_vars
  PROVE  TwinInv'
<1>1. ASSUME NEW d \in Delivery, Deliver(d) \/ Echo(d) PROVE TwinInv'
  BY <1>1, TwinFrame DEF Deliver, Echo, Receive
<1>2. ASSUME NEW d \in Delivery, Step(d) PROVE TwinInv'
  <2>1. CASE Merit(d) \/ Score(d)
    BY <2>1, LoadTwins
  <2>2. CASE Save(d)
    BY <2>2, SaveTwins
  <2>3. CASE ~(Merit(d) \/ Score(d) \/ Save(d))
    BY <1>2, <2>3, StepFrame, TwinFrame
  <2> QED BY <2>1, <2>2, <2>3
<1>3. CASE Restart
  BY <1>3, TwinFrame DEF Restart, table, locals
<1>4. CASE UNCHANGED vars
  BY <1>4, TwinFrame DEF vars
<1> QED
  BY <1>1, <1>2, <1>3, <1>4 DEF Next

(* Two rows of one member inserted together always have the same points.   *)
THEOREM TwinsAgree == Spec => []TwinRowsAgree
<1>1. Init => TwinInv
  <2> SUFFICES ASSUME Init PROVE TwinInv
    OBVIOUS
  <2>1. Len(Seed) \in Nat /\ Len(rows) = Len(Seed)
    BY BotAssumption DEF Init
  <2>2. \A i \in 1..Len(rows) : rows[i].pts = 0 /\ rows[i].by = NotFound
    BY <2>1 DEF Init
  <2>3. \A d \in Delivery : Len(cur[d]) = 0 /\ d # NotFound
    BY EmptySeq, BotAssumption DEF Init
  <2> QED BY <2>1, <2>2, <2>3 DEF TwinInv
<1>2. TwinInv => TwinRowsAgree
  BY DEF TwinInv, TwinRowsAgree, Twins
<1>3. Typed /\ LineOK /\ ContextInv /\ [Next]_vars => ContextInv'
  BY NextContext
<1>4. Typed /\ ContextInv /\ TwinInv /\ [Next]_vars => TwinInv'
  BY NextTwins
<1> QED
  BY <1>1, <1>2, <1>3, <1>4, InitContext, TypesKept, PTL DEF Spec

-----------------------------------------------------------------------------
(* A chain of replies ends, or the names in the table spell "@bot score".  *)
(* The reply a member's message draws may say anything a nickname says;    *)
(* the one that one draws does not ask for the scores, unless two names in *)
(* the table do; the next one has nothing msg() looks for.                 *)
Tame(words, gen) ==
  /\ gen <= 3
  /\ gen = 2 => ~("bot" \in words /\ "score" \in words)
  /\ gen = 3 => words = {}

Registered == {rows[i].who : i \in 1..Len(rows)}

(* An echo mentions nobody, and what a reply in preparation is about.      *)
Chained(d) ==
  /\ msg[d].gen >= 1 => ~Tagged(d)
  /\ pc[d] \in {"postRegister", "postMerit"} => Tagged(d)
  /\ pc[d] = "postReminder" => Says(d, "register")
  /\ pc[d] = "postScore" => /\ Says(d, "bot") /\ Says(d, "score")
                            /\ Listed(d) \subseteq Registered
  /\ pc[d] = "postAndre" => Says(d, "andre")

ChainInv ==
  /\ \A p \in chat : p.gen >= 1
  /\ \A d \in Delivery : Chained(d)
  /\ ~SelfAsking =>
       /\ \A p \in chat : Tame(p.words, p.gen)
       /\ \A d \in Delivery : msg[d].gen >= 1 => Tame(msg[d].words, msg[d].gen)

LEMMA ReplyTame ==
  ASSUME Typed, ChainInv, NEW d \in Delivery, pc[d] \in Posting
  PROVE  Reply(d).gen >= 1 /\ (~SelfAsking => Tame(Reply(d).words, Reply(d).gen))
<1> DEFINE g == msg[d].gen
<1>1. g \in Nat /\ Reply(d).gen = g + 1 /\ Reply(d).words = ReplyWords(d)
  BY DEF Typed, Incoming, Reply
<1> SUFFICES ASSUME ~SelfAsking
             PROVE  Tame(ReplyWords(d), g + 1)
  BY <1>1
<1>2. /\ Chained(d)
      /\ g = 0 \/ (Tame(msg[d].words, g) /\ ~Tagged(d))
  BY <1>1 DEF ChainInv, Chained
<1>3. CASE g = 0
  BY <1>3 DEF Tame
<1>4. CASE g = 1
  <2>1. pc[d] \in {"postReminder", "postScore", "postAndre"}
    BY <1>2, <1>4 DEF Chained, Posting
  <2>2. CASE pc[d] = "postScore"
    <3>1. ReplyWords(d) = UNION {NickText(m) : m \in Listed(d)}
      BY <2>2 DEF ReplyWords
    <3>2. \A m \in Listed(d) : \E i \in 1..Len(rows) : rows[i].who = m
      BY <1>2, <2>2 DEF Chained, Registered
    <3>3. \A w \in ReplyWords(d) : \E i \in 1..Len(rows) : w \in NickWords[rows[i].who]
      BY <3>1, <3>2 DEF NickText
    <3>4. ~("bot" \in ReplyWords(d) /\ "score" \in ReplyWords(d))
      BY <3>3 DEF SelfAsking
    <3> QED
      BY <1>4, <3>4 DEF Tame
  <2>3. CASE pc[d] # "postScore"
    <3>1. ReplyWords(d) = {}
      BY <2>1, <2>3 DEF ReplyWords
    <3> QED
      BY <1>4, <3>1 DEF Tame
  <2> QED
    BY <2>2, <2>3
<1>5. CASE g = 2
  <2>1. pc[d] \in {"postReminder", "postAndre"}
    BY <1>2, <1>5 DEF Chained, Posting, Tame, Says
  <2>2. ReplyWords(d) = {}
    BY <2>1 DEF ReplyWords
  <2> QED BY <1>5, <2>2 DEF Tame
<1>6. g \notin {0, 1, 2} => g = 3
  BY <1>1, <1>2 DEF Tame
<1>7. g # 3
  <2> SUFFICES ASSUME g = 3 PROVE FALSE
    OBVIOUS
  <2>1. msg[d].words = {} /\ ~Tagged(d)
    BY <1>2 DEF Tame
  <2> QED BY <1>2, <2>1 DEF Chained, Posting, Says
<1> QED
  BY <1>1, <1>3, <1>4, <1>5, <1>6, <1>7

(* A table that grows keeps the names it has.                              *)
LEMMA NamesGrow ==
  ASSUME Typed, Typed', Grows
  PROVE  Registered \subseteq Registered' /\ (SelfAsking => SelfAsking')
<1>1. Len(rows) \in Nat /\ Len(rows') \in Nat
  BY DEF Typed
<1>2. \A i \in 1..Len(rows) : i \in 1..Len(rows') /\ rows'[i].who = rows[i].who
  BY <1>1 DEF Grows
<1>3. Registered \subseteq Registered'
  BY <1>2 DEF Registered
<1>4. ASSUME SelfAsking
      PROVE  SelfAsking'
  <2>1. PICK i \in 1..Len(rows), j \in 1..Len(rows) :
          "bot" \in NickWords[rows[i].who] /\ "score" \in NickWords[rows[j].who]
    BY <1>4 DEF SelfAsking
  <2>2. /\ i \in 1..Len(rows') /\ "bot" \in NickWords[rows'[i].who]
        /\ j \in 1..Len(rows') /\ "score" \in NickWords[rows'[j].who]
    BY <1>2, <2>1
  <2> QED
    BY <2>2 DEF SelfAsking
<1> QED
  BY <1>3, <1>4

(* Reception: the message of a member starts a chain, an echo continues it.*)
LEMMA ReceiveChain ==
  ASSUME Typed, ChainInv, NEW d \in Delivery, NEW m, Receive(d, m),
         m.gen >= 1 => /\ m.mentions = <<>> /\ m.blank = FALSE
                       /\ ~SelfAsking => Tame(m.words, m.gen)
  PROVE  ChainInv'
<1>1. /\ UNCHANGED <<rows, chat, lines>> /\ pc'[d] = "log" /\ msg'[d] = m
      /\ \A e \in Delivery \ {d} : pc'[e] = pc[e] /\ msg'[e] = msg[e]
  BY DEF Typed, Receive, Goto
<1>2. SelfAsking' = SelfAsking /\ Registered' = Registered
  BY <1>1 DEF SelfAsking, Registered
<1>3. Chained(d)'
  BY <1>1 DEF Chained, Tagged, Named, Mentions
<1>4. ASSUME NEW e \in Delivery \ {d}
      PROVE  Chained(e)'
  <2>1. Chained(e)
    BY DEF ChainInv
  <2> QED
    BY <1>1, <1>2, <2>1 DEF Chained, Tagged, Named, Mentions, Says, Listed
<1>5. \A e \in Delivery :
        ~SelfAsking /\ msg'[e].gen >= 1 => Tame(msg'[e].words, msg'[e].gen)
  BY <1>1 DEF ChainInv
<1> QED
  BY <1>1, <1>2, <1>3, <1>4, <1>5 DEF ChainInv

(* Where a step of msg() goes next.                                        *)
Leads(d, label) ==
  /\ label \in {"postRegister", "postMerit"} => Tagged(d)
  /\ label = "postReminder" => Says(d, "register")
  /\ label = "postScore" => Score(d)
  /\ label = "postAndre" => Says(d, "andre")

LEMMA StepLeads ==
  ASSUME Typed, NEW d \in Delivery, Step(d)
  PROVE  \E label : Goto(d, label) /\ Leads(d, label)
<1>1. CASE LogLoad(d) \/ LogStore(d) \/ LogThrows(d)
  BY <1>1 DEF LogLoad, LogStore, LogThrows, Leads
<1>2. CASE Skip(d)
  BY <1>2 DEF Skip, RegisterSkip, RegisterReminder, RegisterNobody, MeritSkip,
              MeritNobody, ScoreSkip, SaveFails, Andre, Leads
<1>3. CASE Register(d)
  BY <1>3 DEF Register, Turn, Leads, Tagged
<1>4. CASE Merit(d)
  BY <1>4 DEF Merit, Turn, Leads, Tagged
<1>5. CASE PostFails(d) \/ Save(d)
  BY <1>5 DEF PostFails, Save, Leads
<1>6. CASE Score(d)
  <2>1. Goto(d, "postScore")
    BY <1>6 DEF Score
  <2> QED
    BY <1>6, <2>1 DEF Leads
<1>7. CASE Post(d)
  <2>1. AfterPost[pc[d]] \notin Posting
    BY <1>7 DEF Post, AfterPost, Posting
  <2> QED BY <1>7, <2>1 DEF Post, Leads, Posting
<1> QED
  BY <1>1, <1>2, <1>3, <1>4, <1>5, <1>6, <1>7 DEF Step, Skip

LEMMA StepChain ==
  ASSUME Typed, Typed', ChainInv, NEW d \in Delivery, Step(d)
  PROVE  ChainInv'
<1>1. /\ Grows /\ msg' = msg
      /\ \A e \in Delivery \ {d} : pc'[e] = pc[e] /\ lines'[e] = lines[e]
  BY StepAlone
<1>2. Registered \subseteq Registered' /\ (SelfAsking => SelfAsking')
  BY <1>1, NamesGrow
<1>3. PICK label : Goto(d, label) /\ Leads(d, label)
  BY StepLeads
<1>4. Chained(d)'
  <2>1. pc'[d] = label
    BY <1>3 DEF Goto, Typed
  <2>2. msg[d].gen >= 1 => ~Tagged(d)
    BY DEF ChainInv, Chained
  <2>3. ASSUME Score(d)
        PROVE  Says(d, "bot") /\ Says(d, "score") /\ Listed(d)' \subseteq Registered'
    <3> DEFINE listing == [i \in 1..Len(rows) |->
                             [who |-> rows[i].who, total |-> Queried(d, cur)[i]]]
    <3>1. lines'[d] = listing /\ rows' = rows
      BY <2>3 DEF Score, Typed, table
    <3>2. Len(rows) \in Nat
      BY DEF Typed
    <3>3. Len(listing) = Len(rows)
      BY <3>2
    <3>4. Listed(d)' \subseteq Registered'
      BY <3>1, <3>3 DEF Listed, Registered
    <3> QED
      BY <2>3, <3>4 DEF Score
  <2> QED
    BY <1>1, <1>3, <2>1, <2>2, <2>3 DEF Chained, Leads, Tagged, Named, Mentions, Says
<1>5. ASSUME NEW e \in Delivery \ {d}
      PROVE  Chained(e)'
  <2>1. Chained(e)
    BY DEF ChainInv
  <2> QED
    BY <1>1, <1>2, <2>1 DEF Chained, Tagged, Named, Mentions, Says, Listed
<1>6. chat' \in {chat, chat \cup {Reply(d)}} /\ (chat' # chat => pc[d] \in Posting)
  BY DEF Step, LogLoad, LogStore, LogThrows, RegisterSkip, RegisterReminder,
         RegisterNobody, Register, MeritSkip, MeritNobody, Merit, Score, ScoreSkip,
         Post, PostFails, Save, SaveFails, Andre, table
<1>7. \A p \in chat' : p.gen >= 1 /\ (~SelfAsking => Tame(p.words, p.gen))
  BY <1>6, ReplyTame DEF ChainInv
<1>8. ~SelfAsking =>
        \A e \in Delivery : msg'[e].gen >= 1 => Tame(msg'[e].words, msg'[e].gen)
  BY <1>1 DEF ChainInv
<1> QED
  BY <1>2, <1>4, <1>5, <1>7, <1>8 DEF ChainInv

LEMMA NextChain ==
  ASSUME Typed, Typed', ChainInv, [Next]_vars
  PROVE  ChainInv'
<1>1. ASSUME NEW d \in Delivery, Deliver(d) PROVE ChainInv'
  <2>1. PICK r : Receive(d, r) /\ r.gen = 0
    BY <1>1 DEF Deliver
  <2>2. ~(r.gen >= 1)
    BY <2>1
  <2> QED BY <2>1, <2>2, ReceiveChain
<1>2. ASSUME NEW d \in Delivery, Echo(d) PROVE ChainInv'
  <2>1. PICK p \in chat :
          Receive(d, [hasText |-> TRUE, words |-> p.words,
                      mentions |-> <<>>, blank |-> FALSE, gen |-> p.gen])
    BY <1>2 DEF Echo
  <2>2. ~SelfAsking => Tame(p.words, p.gen)
    BY DEF ChainInv
  <2> QED BY <2>1, <2>2, ReceiveChain
<1>3. ASSUME NEW d \in Delivery, Step(d) PROVE ChainInv'
  BY <1>3, StepChain
<1>4. CASE Restart \/ UNCHANGED vars
  <2>1. /\ UNCHANGED <<rows, chat, msg, lines>>
        /\ \A d \in Delivery : pc'[d] = pc[d] \/ pc'[d] = "failed"
    BY <1>4 DEF Restart, vars, table, locals, Typed
  <2>2. SelfAsking' = SelfAsking /\ Registered' = Registered
    BY <2>1 DEF SelfAsking, Registered
  <2>3. ASSUME NEW d \in Delivery
        PROVE  Chained(d)'
    <3>1. Chained(d)
      BY DEF ChainInv
    <3> QED
      BY <2>1, <2>2, <3>1 DEF Chained, Tagged, Named, Mentions, Says, Listed
  <2> QED
    BY <2>1, <2>2, <2>3 DEF ChainInv
<1> QED
  BY <1>1, <1>2, <1>3, <1>4 DEF Next

(* However the members are named, the bot answers itself at most twice, as *)
(* long as the names in the table do not spell both "@bot" and "score".    *)
THEOREM ChainsEnd == Spec => []ReplyChainEnds
<1>1. Init => ChainInv
  <2> SUFFICES ASSUME Init PROVE ChainInv
    OBVIOUS
  <2>1. \A d \in Delivery : pc[d] = "waiting" /\ msg[d].gen = 0
    BY DEF Init, NoMessage
  <2>2. \A d \in Delivery : Chained(d)
    BY <2>1 DEF Chained
  <2> QED
    BY <2>1, <2>2 DEF ChainInv, Init
<1>2. ChainInv => ReplyChainEnds
  BY DEF ChainInv, ReplyChainEnds, Tame
<1>3. Typed /\ Typed' /\ ChainInv /\ [Next]_vars => ChainInv'
  BY NextChain
<1> QED
  BY <1>1, <1>2, <1>3, TypesKept, PTL DEF Spec

-----------------------------------------------------------------------------
(* No interleaving makes up a point.  What a call has in memory is within  *)
(* what the chat has announced and what the call is about to announce.     *)
Early == {"waiting", "log", "logging", "register", "postRegister", "postReminder"}
Meriting == {"merit", "postMerit"}
Loading == Meriting \cup {"score", "postScore", "save"}

Given(m, s) == Cardinality(AwardLines(m, s))

(* The lines a call has written and not posted.                            *)
Own(d, m) == {k \in 1..Len(lines[d]) : /\ lines[d][k].who = m
                                       /\ lines[d][k].total # NotFound}
Due(d, m, s) ==
  IF pc[d] \in Meriting /\ Diff(msg[d].words) = s THEN Cardinality(Own(d, m)) ELSE 0

Bounded(x, d, m) == /\ x <= Given(m, 1) + Due(d, m, 1)
                    /\ x >= -(Given(m, -1) + Due(d, m, -1))

CallAward(d) ==
  /\ pc[d] \in Early => lines[d] = <<>> /\ cur[d] = <<>>
  /\ pc[d] \in Meriting /\ ~(Says(d, "merit") /\ Named(d)) =>
       lines[d] = <<>> /\ cur[d] = <<>>
  /\ pc[d] \in Loading =>
       \A m \in Member, i \in 1..Len(rows) :
         rows[i].who = m /\ i <= Len(cur[d]) => Bounded(cur[d][i], d, m)

PostedOnce == \A p \in MeritPosts : pc[p.by] \notin Early \cup Meriting

RowsAwarded ==
  \A m \in Member, i \in 1..Len(rows) :
    rows[i].who = m => /\ rows[i].pts <= Given(m, 1)
                      /\ rows[i].pts >= -Given(m, -1)

AwardInv ==
  /\ \A m \in Member, s \in {1, -1} : IsFiniteSet(AwardLines(m, s))
  /\ PostedOnce
  /\ RowsAwarded
  /\ \A d \in Delivery : CallAward(d)

(* The announced lines only become more.                                   *)
GivenGrows ==
  \A m \in Member, s \in {1, -1} :
    IsFiniteSet(AwardLines(m, s))' /\ Given(m, s) <= Given(m, s)'

LEMMA DueType ==
  ASSUME Typed, NEW d \in Delivery, NEW m, NEW s
  PROVE  /\ IsFiniteSet(Own(d, m)) /\ Cardinality(Own(d, m)) \in Nat
         /\ Due(d, m, s) \in Nat
<1>1. Len(lines[d]) \in Nat
  BY DEF Typed
<1>2. IsFiniteSet(1..Len(lines[d]))
  BY <1>1, FS_Interval
<1>3. IsFiniteSet(Own(d, m))
  BY <1>2, FS_Subset DEF Own
<1>4. Cardinality(Own(d, m)) \in Nat
  BY <1>3, FS_CardinalityType
<1> QED
  BY <1>3, <1>4 DEF Due

LEMMA RowPoints ==
  ASSUME Typed, NEW i \in 1..Len(rows)
  PROVE  rows[i].pts \in Int
<1>1. rows[i] \in Row
  BY ElementOfSeq DEF Typed
<1> QED
  BY <1>1 DEF Row

LEMMA GivenType ==
  ASSUME AwardInv, NEW m \in Member, NEW s \in {1, -1}
  PROVE  Given(m, s) \in Nat
BY FS_CardinalityType DEF AwardInv, Given

(* The same merit replies about the same messages announce the same.       *)
LEMMA SameGiven ==
  ASSUME Typed, AwardInv, MeritPosts' = MeritPosts,
         \A p \in MeritPosts : msg'[p.by].words = msg[p.by].words
  PROVE  GivenGrows
<1> SUFFICES ASSUME NEW m \in Member, NEW s \in {1, -1}
             PROVE  IsFiniteSet(AwardLines(m, s))' /\ Given(m, s) <= Given(m, s)'
  BY DEF GivenGrows
<1>1. AwardLines(m, s)' = AwardLines(m, s)
  BY DEF AwardLines
<1>2. Given(m, s) \in Nat /\ IsFiniteSet(AwardLines(m, s))
  BY GivenType DEF AwardInv
<1> QED
  BY <1>1, <1>2 DEF Given

(* A call that is left alone keeps to what was announced.                  *)
LEMMA AwardFrame ==
  ASSUME Typed, Typed', ContextInv, AwardInv, Grows, GivenGrows, NEW e \in Delivery,
         pc'[e] = pc[e], msg'[e] = msg[e], lines'[e] = lines[e], cur'[e] = cur[e]
  PROVE  CallAward(e)'
<1>1. CallAward(e)
  BY DEF AwardInv
<1>2. pc'[e] \in Early => lines'[e] = <<>> /\ cur'[e] = <<>>
  BY <1>1 DEF CallAward
<1>3. pc'[e] \in Meriting /\ ~(Says(e, "merit") /\ Named(e))' =>
        lines'[e] = <<>> /\ cur'[e] = <<>>
  BY <1>1 DEF CallAward, Says, Named, Mentions
<1>4. ASSUME pc'[e] \in Loading, NEW m \in Member, NEW i \in 1..Len(rows'),
             rows'[i].who = m, i <= Len(cur'[e])
      PROVE  Bounded(cur[e][i], e, m)'
  <2>1. Len(cur[e]) \in Nat /\ Len(rows) \in Nat /\ Len(cur[e]) <= Len(rows)
    BY DEF Typed, ContextInv
  <2>2. i \in 1..Len(rows) /\ rows[i].who = m /\ i <= Len(cur[e])
    BY <1>4, <2>1 DEF Grows
  <2>3. Bounded(cur[e][i], e, m)
    BY <1>1, <1>4, <2>2 DEF CallAward
  <2>4. Due(e, m, 1)' = Due(e, m, 1) /\ Due(e, m, -1)' = Due(e, m, -1)
    BY DEF Due, Own
  <2>5. /\ Due(e, m, 1) \in Nat /\ Due(e, m, -1) \in Nat
        /\ Given(m, 1) \in Nat /\ Given(m, -1) \in Nat
    BY DueType, GivenType
  <2>6. /\ Given(m, 1) <= Given(m, 1)' /\ Given(m, -1) <= Given(m, -1)'
        /\ Given(m, 1)' \in Nat /\ Given(m, -1)' \in Nat
    BY FS_CardinalityType DEF GivenGrows, Given
  <2>7. cur[e][i] \in Int
    <3>1. cur[e] \in Seq(Int) /\ i \in 1..Len(cur[e])
      BY <2>1, <2>2 DEF Typed
    <3> QED
      BY ONLY <3>1, ElementOfSeq
  <2> DEFINE x == cur[e][i]
             a == Given(m, 1)
             b == Given(m, -1)
             aa == Given(m, 1)'
             bb == Given(m, -1)'
             p == Due(e, m, 1)
             q == Due(e, m, -1)
  <2>8. x <= a + p /\ x >= -(b + q)
    BY <2>3 DEF Bounded
  <2>9. x <= aa + p /\ x >= -(bb + q)
    <3>1. x \in Int /\ a \in Nat /\ b \in Nat /\ p \in Nat /\ q \in Nat
      BY <2>5, <2>7
    <3>2. aa \in Nat /\ bb \in Nat /\ a <= aa /\ b <= bb
      BY <2>6
    <3> HIDE DEF x, a, b, aa, bb, p, q
    <3> QED
      BY ONLY <2>8, <3>1, <3>2
  <2>10. cur[e][i] <= Given(m, 1)' + Due(e, m, 1)'
    BY <2>4, <2>9
  <2>11. cur[e][i] >= -(Given(m, -1)' + Due(e, m, -1)')
    BY <2>4, <2>9
  <2> QED
    BY <2>10, <2>11 DEF Bounded
<1> QED
  BY <1>2, <1>3, <1>4 DEF CallAward

(* A step of d alone that saves nothing.                                   *)
LEMMA AwardStep ==
  ASSUME Typed, Typed', ContextInv, AwardInv, GivenGrows, PostedOnce',
         rows' = rows, NEW d \in Delivery, CallAward(d)',
         \A e \in Delivery \ {d} : /\ pc'[e] = pc[e] /\ msg'[e] = msg[e]
                                   /\ lines'[e] = lines[e] /\ cur'[e] = cur[e]
  PROVE  AwardInv'
<1>1. Grows
  BY DEF Grows, Typed
<1>2. ASSUME NEW e \in Delivery
      PROVE  CallAward(e)'
  BY <1>1, <1>2, AwardFrame
<1>3. RowsAwarded'
  <2> SUFFICES ASSUME NEW m \in Member, NEW i \in 1..Len(rows), rows[i].who = m
               PROVE  rows[i].pts <= Given(m, 1)' /\ rows[i].pts >= -(Given(m, -1)')
    BY DEF RowsAwarded
  <2>1. rows[i].pts <= Given(m, 1) /\ rows[i].pts >= -Given(m, -1)
    BY DEF AwardInv, RowsAwarded
  <2>2. /\ Given(m, 1) \in Nat /\ Given(m, -1) \in Nat
        /\ Given(m, 1) <= Given(m, 1)' /\ Given(m, -1) <= Given(m, -1)'
        /\ Given(m, 1)' \in Nat /\ Given(m, -1)' \in Nat
    BY GivenType, FS_CardinalityType DEF GivenGrows, Given
  <2>3. rows[i].pts \in Int
    BY RowPoints
  <2> QED
    BY <2>1, <2>2, <2>3
<1> QED
  BY <1>2, <1>3 DEF AwardInv, GivenGrows

(* A step of d that posts and receives nothing.                            *)
LEMMA PostedOnceKept ==
  ASSUME Typed, AwardInv, MeritPosts' = MeritPosts, NEW d \in Delivery,
         \A e \in Delivery \ {d} : pc'[e] = pc[e],
         pc'[d] \in Early \cup Meriting => pc[d] \in Early \cup Meriting
  PROVE  PostedOnce'
<1>1. ASSUME NEW p \in MeritPosts
      PROVE  pc'[p.by] \notin Early \cup Meriting
  <2>1. p.by \in Delivery
    BY DEF MeritPosts, Typed, Answer
  <2> QED
    BY <2>1 DEF AwardInv, PostedOnce
<1> QED
  BY <1>1 DEF PostedOnce

LEMMA ReceiveAward ==
  ASSUME Typed, Typed', ContextInv, AwardInv, NEW d \in Delivery, NEW m, Receive(d, m)
  PROVE  AwardInv'
<1>1. /\ UNCHANGED <<rows, chat, lines, cur>>
      /\ pc[d] = "waiting" /\ pc'[d] = "log"
      /\ \A e \in Delivery \ {d} : pc'[e] = pc[e] /\ msg'[e] = msg[e]
  BY DEF Typed, Receive, Goto
<1>2. MeritPosts' = MeritPosts
  BY <1>1 DEF MeritPosts
<1>3. \A p \in MeritPosts : p.by \in Delivery \ {d}
  BY <1>1 DEF AwardInv, PostedOnce, MeritPosts, Typed, Answer, Early
<1>4. GivenGrows
  BY <1>1, <1>2, <1>3, SameGiven
<1>5. PostedOnce'
  BY <1>1, <1>2, PostedOnceKept DEF Early
<1>6. CallAward(d)'
  BY <1>1 DEF AwardInv, CallAward, Early, Loading, Meriting
<1> QED
  BY <1>1, <1>4, <1>5, <1>6, AwardStep

(* The steps that neither query, post nor save.                            *)
LEMMA OtherAward ==
  ASSUME Typed, Typed', ContextInv, AwardInv, NEW d \in Delivery,
         LogLoad(d) \/ LogStore(d) \/ LogThrows(d) \/ Skip(d) \/ Register(d)
  PROVE  AwardInv'
<1>1. UNCHANGED <<rows, chat, msg, lines, cur>>
  BY DEF LogLoad, LogStore, LogThrows, Skip, RegisterSkip, RegisterReminder,
         RegisterNobody, MeritSkip, MeritNobody, ScoreSkip, SaveFails, Andre,
         Register, table, locals
<1>2. /\ pc'[d] \in Early => pc[d] \in Early
      /\ pc'[d] \in Loading =>
           \/ pc[d] \in Early
           \/ pc[d] = "merit" /\ ~(Says(d, "merit") /\ Named(d))
           \/ pc[d] \in Loading \ Meriting /\ pc'[d] \notin Meriting
      /\ \A e \in Delivery \ {d} : pc'[e] = pc[e]
  BY DEF LogLoad, LogStore, LogThrows, Skip, RegisterSkip, RegisterReminder,
         RegisterNobody, MeritSkip, MeritNobody, ScoreSkip, SaveFails, Andre,
         Register, Tagged, Turn, Goto, Typed, Early, Loading, Meriting
<1>3. MeritPosts' = MeritPosts
  BY <1>1 DEF MeritPosts
<1>4. GivenGrows
  BY <1>1, <1>3, SameGiven
<1>5. PostedOnce'
  BY <1>2, <1>3, PostedOnceKept DEF Loading, Meriting
<1>6. CallAward(d)'
  <2>1. CallAward(d)
    BY DEF AwardInv
  <2>2. pc'[d] \in Early \cup Meriting => lines[d] = <<>> /\ cur[d] = <<>>
    BY <1>2, <2>1 DEF CallAward, Loading, Meriting
  <2>3. ASSUME pc'[d] \in Loading, NEW m \in Member, NEW i \in 1..Len(rows),
               rows[i].who = m, i <= Len(cur[d])
        PROVE  Bounded(cur[d][i], d, m)'
    <3>1. cur[d] # <<>>
      BY <2>3, EmptySeq
    <3>2. pc[d] \in Loading \ Meriting /\ pc'[d] \notin Meriting
      BY <1>2, <2>1, <2>3, <3>1 DEF CallAward, Meriting
    <3>3. Bounded(cur[d][i], d, m)
      BY <2>1, <2>3, <3>2 DEF CallAward
    <3>4. /\ Due(d, m, 1) = 0 /\ Due(d, m, -1) = 0
          /\ Due(d, m, 1)' = 0 /\ Due(d, m, -1)' = 0
      BY <3>2 DEF Due
    <3>5. /\ Given(m, 1) \in Nat /\ Given(m, -1) \in Nat
          /\ Given(m, 1) <= Given(m, 1)' /\ Given(m, -1) <= Given(m, -1)'
          /\ Given(m, 1)' \in Nat /\ Given(m, -1)' \in Nat
      BY <1>4, GivenType, FS_CardinalityType DEF GivenGrows, Given
    <3>6. cur[d][i] \in Int
      BY <2>3, ElementOfSeq DEF Typed
    <3>7. cur[d][i] <= Given(m, 1)' + Due(d, m, 1)'
      BY <3>3, <3>4, <3>5, <3>6 DEF Bounded
    <3>8. cur[d][i] >= -(Given(m, -1)' + Due(d, m, -1)')
      BY <3>3, <3>4, <3>5, <3>6 DEF Bounded
    <3> QED
      BY <1>1, <3>7, <3>8 DEF Bounded
  <2> QED
    BY <1>1, <2>2, <2>3 DEF CallAward
<1> QED
  BY <1>1, <1>2, <1>4, <1>5, <1>6, AwardStep

(* What a query finds is within what was announced.                        *)
LEMMA QueriedBounded ==
  ASSUME Typed, ContextInv, AwardInv, NEW d \in Delivery, pc[d] \in Loading,
         NEW m \in Member, NEW i \in 1..Len(rows), rows[i].who = m
  PROVE  Bounded(Queried(d, cur)[i], d, m)
<1>1. CASE i <= Len(cur[d])
  BY <1>1 DEF Queried, AwardInv, CallAward
<1>2. CASE ~(i <= Len(cur[d]))
  <2>1. Queried(d, cur)[i] = rows[i].pts
    BY <1>2 DEF Queried
  <2>2. rows[i].pts <= Given(m, 1) /\ rows[i].pts >= -Given(m, -1)
    BY DEF AwardInv, RowsAwarded
  <2>3. rows[i].pts \in Int
    BY RowPoints
  <2>4. /\ Due(d, m, 1) \in Nat /\ Due(d, m, -1) \in Nat
        /\ Given(m, 1) \in Nat /\ Given(m, -1) \in Nat
    BY DueType, GivenType
  <2> QED
    BY <2>1, <2>2, <2>3, <2>4 DEF Bounded
<1> QED
  BY <1>1, <1>2

LEMMA ScoreAward ==
  ASSUME Typed, Typed', ContextInv, AwardInv, NEW d \in Delivery, Score(d)
  PROVE  AwardInv'
<1>1. /\ UNCHANGED <<rows, chat, msg>>
      /\ pc[d] = "score" /\ pc'[d] = "postScore" /\ cur'[d] = Queried(d, cur)
      /\ \A e \in Delivery \ {d} : /\ pc'[e] = pc[e] /\ lines'[e] = lines[e]
                                    /\ cur'[e] = cur[e]
  BY DEF Typed, Score, Goto, table
<1>2. MeritPosts' = MeritPosts
  BY <1>1 DEF MeritPosts
<1>3. GivenGrows
  BY <1>1, <1>2, SameGiven
<1>4. PostedOnce'
  BY <1>1, <1>2, PostedOnceKept DEF Early, Meriting
<1>5. CallAward(d)'
  <2>1. ASSUME NEW m \in Member, NEW i \in 1..Len(rows), rows[i].who = m
        PROVE  Bounded(cur[d][i], d, m)'
    <3>1. Bounded(Queried(d, cur)[i], d, m)
      BY <1>1, <2>1, QueriedBounded DEF Loading
    <3>2. /\ Due(d, m, 1) = 0 /\ Due(d, m, -1) = 0
          /\ Due(d, m, 1)' = 0 /\ Due(d, m, -1)' = 0
      BY <1>1 DEF Due, Meriting
    <3>3. Given(m, 1)' = Given(m, 1) /\ Given(m, -1)' = Given(m, -1)
      BY <1>1, <1>2 DEF Given, AwardLines
    <3> QED
      BY <1>1, <3>1, <3>2, <3>3 DEF Bounded
  <2> QED
    BY <1>1, <2>1 DEF CallAward, Early, Loading, Meriting
<1> QED
  BY <1>1, <1>3, <1>4, <1>5, AwardStep

(* The line a mention adds is one more if the member has a row.            *)
LEMMA MeritDue ==
  ASSUME Typed, Typed', LineOK, NEW d \in Delivery, Merit(d), NEW n \in Member,
         NEW s \in {1, -1},
         NEW i \in 1..Len(rows), rows[i].who = n
  PROVE  Due(d, n, s)' =
           Due(d, n, s) + IF n = Mentions(d)[line[d]] /\ Diff(msg[d].words) = s
                          THEN 1 ELSE 0
<1> DEFINE m == Mentions(d)[line[d]]
           points == Awarded(m, msg[d].words, Queried(d, cur))
           L == lines[d]
           t == [who |-> m, total |-> TotalOf(m, points)]
<1>1. pc[d] \in Meriting /\ pc'[d] \in Meriting /\ msg'[d] = msg[d]
  BY DEF Merit, Turn, Goto, Typed, Meriting
<1>2. L \in Seq(Line) /\ m \in Member /\ lines'[d] = Append(L, t)
  BY MentionType DEF Typed, Merit
<1>3. /\ Len(L) \in Nat /\ Len(lines'[d]) = Len(L) + 1
      /\ \A k \in 1..Len(L) : lines'[d][k] = L[k]
      /\ lines'[d][Len(L) + 1] = t
  <2>1. t \in Line
    <3>1. Queried(d, cur) \in [1..Len(rows) -> Int]
      BY QueriedType DEF Typed
    <3>2. points \in [1..Len(rows) -> Int]
      BY <3>1, AwardedType
    <3> QED
      BY <1>2, <3>2, TotalType DEF Line
  <2> HIDE DEF t, L
  <2> QED
    BY <1>2, <2>1, AppendProperties
<1> HIDE DEF m, points, L
<1>6. /\ Own(d, n) = {k \in 1..Len(L) : L[k].who = n /\ L[k].total # NotFound}
      /\ Own(d, n)' = {k \in 1..(Len(L) + 1) : /\ lines'[d][k].who = n
                                              /\ lines'[d][k].total # NotFound}
  BY <1>3 DEF Own, L
<1>7. \A k \in 1..Len(L) : k \in Own(d, n)' <=> k \in Own(d, n)
  BY <1>3, <1>6
<1>8. /\ Len(L) + 1 \in Own(d, n)' <=> m = n /\ TotalOf(m, points) # NotFound
      /\ Len(L) + 1 \notin Own(d, n)
  BY <1>3, <1>6
<1>9. \A k \in 1..(Len(L) + 1) : k \in 1..Len(L) \/ k = Len(L) + 1
  BY <1>3
<1>4. CASE n # m
  <2>1. Own(d, n)' = Own(d, n)
    BY <1>3, <1>4, <1>6, <1>7, <1>8, <1>9
  <2> QED
    <3>1. Cardinality(Own(d, n)) \in Nat
      BY DueType
    <3> QED
      BY <1>1, <1>4, <2>1, <3>1 DEF Due, m
<1>5. CASE n = m
  <2>1. TotalOf(m, points) # NotFound
    <3>1. RowsOf(m) # {}
      BY <1>5 DEF RowsOf
    <3>2. /\ TotalOf(m, points) \in Int
      <4>1. Queried(d, cur) \in [1..Len(rows) -> Int]
        BY QueriedType DEF Typed
      <4>2. points \in [1..Len(rows) -> Int]
        BY <4>1, AwardedType DEF points
      <4>3. Len(rows) \in Nat /\ RowsOf(m) \subseteq 1..Len(rows)
        <5>1. Len(rows) \in Nat
          BY DEF Typed
        <5> QED
          BY <5>1 DEF RowsOf
      <4>4. \E k \in RowsOf(m) : \A j \in RowsOf(m) : j <= k
        BY <3>1, <4>3, LastExists
      <4>5. (CHOOSE k \in RowsOf(m) : \A j \in RowsOf(m) : j <= k) \in 1..Len(rows)
        BY <4>3, <4>4
      <4> QED
        BY <3>1, <4>2, <4>5 DEF TotalOf
    <3> QED
      BY <3>2, BotAssumption
  <2>2. Own(d, n)' = Own(d, n) \cup {Len(L) + 1}
    BY <1>3, <1>5, <1>6, <1>7, <1>8, <1>9, <2>1
  <2>3. Len(L) + 1 \notin Own(d, n)
    BY <1>8
  <2>4. IsFiniteSet(Own(d, n)) /\ Cardinality(Own(d, n)) \in Nat
    BY DueType
  <2>5. Cardinality(Own(d, n)') = Cardinality(Own(d, n)) + 1
    BY <2>2, <2>3, <2>4, FS_AddElement
  <2> QED
    BY <1>1, <1>5, <2>4, <2>5 DEF Due, m
<1> QED
  BY <1>4, <1>5

LEMMA MeritAward ==
  ASSUME Typed, Typed', LineOK, ContextInv, AwardInv, NEW d \in Delivery, Merit(d)
  PROVE  AwardInv'
<1> DEFINE m == Mentions(d)[line[d]]
           points == Awarded(m, msg[d].words, Queried(d, cur))
<1>1. /\ UNCHANGED <<rows, chat, msg>>
      /\ pc[d] = "merit" /\ pc'[d] \in Meriting /\ cur'[d] = points
      /\ Says(d, "merit") /\ Named(d)
      /\ \A e \in Delivery \ {d} : /\ pc'[e] = pc[e] /\ lines'[e] = lines[e]
                                    /\ cur'[e] = cur[e]
  BY DEF Typed, Merit, Turn, Goto, table, Meriting
<1>2. MeritPosts' = MeritPosts
  BY <1>1 DEF MeritPosts
<1>3. GivenGrows
  BY <1>1, <1>2, SameGiven
<1>4. PostedOnce'
  BY <1>1, <1>2, PostedOnceKept DEF Early, Meriting
<1>5. CallAward(d)'
  <2>1. ASSUME NEW n \in Member, NEW i \in 1..Len(rows), rows[i].who = n
        PROVE  Bounded(cur[d][i], d, n)'
    <3> DEFINE q == Queried(d, cur)[i]
    <3>1. Bounded(q, d, n)
      BY <1>1, <2>1, QueriedBounded DEF Loading, Meriting
    <3> DEFINE diff == Diff(msg[d].words)
    <3>2. /\ Due(d, n, 1)' = Due(d, n, 1) + (IF n = m /\ diff = 1 THEN 1 ELSE 0)
          /\ Due(d, n, -1)' = Due(d, n, -1) + (IF n = m /\ diff = -1 THEN 1 ELSE 0)
      BY <2>1, MeritDue
    <3>3. Given(n, 1)' = Given(n, 1) /\ Given(n, -1)' = Given(n, -1)
      BY <1>1, <1>2 DEF Given, AwardLines
    <3>4. /\ Due(d, n, 1) \in Nat /\ Due(d, n, -1) \in Nat
          /\ Given(n, 1) \in Nat /\ Given(n, -1) \in Nat
      BY DueType, GivenType
    <3>5. q \in Int
      <4>1. Queried(d, cur) \in [1..Len(rows) -> Int]
        BY QueriedType DEF Typed
      <4> QED
        BY <4>1
    <3>6. cur'[d][i] = IF n = m THEN q + diff ELSE q
      BY <1>1, <2>1 DEF Awarded
    <3>7. diff = 1 \/ diff = -1
      BY DEF Diff
    <3> HIDE DEF q, m, diff
    <3>8. q <= Given(n, 1) + Due(d, n, 1) /\ q >= -(Given(n, -1) + Due(d, n, -1))
      BY <3>1 DEF Bounded
    <3>9. cur'[d][i] <= Given(n, 1)' + Due(d, n, 1)'
      BY <3>2, <3>3, <3>4, <3>5, <3>6, <3>7, <3>8
    <3>10. cur'[d][i] >= -(Given(n, -1)' + Due(d, n, -1)')
      BY <3>2, <3>3, <3>4, <3>5, <3>6, <3>7, <3>8
    <3> QED
      BY <3>9, <3>10 DEF Bounded
  <2> QED
    BY <1>1, <2>1 DEF CallAward, Early, Loading, Meriting, Says, Named, Mentions
<1> QED
  BY <1>1, <1>3, <1>4, <1>5, AwardStep

-----------------------------------------------------------------------------
(* The lines that a reply adds to those in the chat.                       *)
Fresh(d, m, s) ==
  IF pc[d] = "postMerit" /\ Diff(msg[d].words) = s THEN {d} \X Own(d, m) ELSE {}

LEMMA NewLines ==
  ASSUME NEW d \in Delivery, msg' = msg, pc[d] \in Posting,
         chat' = chat \cup {Reply(d)}, NEW m, NEW s
  PROVE  AwardLines(m, s)' = AwardLines(m, s) \cup Fresh(d, m, s)
<1> DEFINE Ours == pc[d] = "postMerit" /\ Diff(msg[d].words) = s
<1>1. MeritPosts' = MeritPosts \cup (IF pc[d] = "postMerit" THEN {Reply(d)} ELSE {})
  BY DEF MeritPosts, Reply
<1>2. Reply(d).by = d /\ Reply(d).lines = lines[d]
  BY DEF Reply
<1>3. CASE Ours
  <2>1. {q \in MeritPosts' : Diff(msg[q.by].words) = s} =
          {q \in MeritPosts : Diff(msg[q.by].words) = s} \cup {Reply(d)}
    BY <1>1, <1>2, <1>3
  <2>2. Fresh(d, m, s) = {d} \X Own(d, m)
    BY <1>3 DEF Fresh
  <2> HIDE DEF Ours
  <2> QED
    BY <1>2, <2>1, <2>2 DEF AwardLines, Own
<1>4. CASE ~Ours
  <2>1. {q \in MeritPosts' : Diff(msg[q.by].words) = s} =
          {q \in MeritPosts : Diff(msg[q.by].words) = s}
    BY <1>1, <1>2, <1>4
  <2>2. Fresh(d, m, s) = {}
    BY <1>4 DEF Fresh
  <2> QED
    BY <2>1, <2>2 DEF AwardLines
<1> QED
  BY <1>3, <1>4

(* A reply has as many fresh lines as the call has written.                *)
LEMMA FreshSize ==
  ASSUME Typed, NEW d \in Delivery, pc[d] \in Posting, NEW m, NEW s
  PROVE  /\ IsFiniteSet(Fresh(d, m, s)) /\ Cardinality(Fresh(d, m, s)) \in Nat
         /\ Cardinality(Fresh(d, m, s)) = Due(d, m, s)
<1> DEFINE Ours == pc[d] = "postMerit" /\ Diff(msg[d].words) = s
<1>1. IsFiniteSet(Own(d, m)) /\ Cardinality(Own(d, m)) \in Nat
  BY DueType
<1>2. IsFiniteSet({d}) /\ Cardinality({d}) = 1
  BY FS_Singleton
<1>3. /\ IsFiniteSet({d} \X Own(d, m))
      /\ Cardinality({d} \X Own(d, m)) = Cardinality(Own(d, m))
  BY <1>1, <1>2, FS_Product
<1>4. CASE Ours
  BY <1>1, <1>3, <1>4 DEF Fresh, Due, Meriting
<1>5. CASE ~Ours
  BY <1>5, FS_EmptySet DEF Fresh, Due, Meriting, Posting
<1> QED
  BY <1>4, <1>5

(* The reply of a merit loop is what announces its lines.                  *)
LEMMA PostLines ==
  ASSUME Typed, AwardInv, NEW d \in Delivery, msg' = msg, pc[d] \in Posting,
         chat' = chat \cup {Reply(d)}, NEW m \in Member, NEW s \in {1, -1}
  PROVE  /\ IsFiniteSet(AwardLines(m, s))'
         /\ Given(m, s)' = Given(m, s) + Due(d, m, s)
<1>1. IsFiniteSet(AwardLines(m, s)) /\ Cardinality(AwardLines(m, s)) \in Nat
  BY FS_CardinalityType DEF AwardInv
<1>2. AwardLines(m, s)' = AwardLines(m, s) \cup Fresh(d, m, s)
  BY NewLines
<1>3. AwardLines(m, s) \cap Fresh(d, m, s) = {}
  <2>1. CASE pc[d] = "postMerit"
    <3>1. \A p \in MeritPosts : p.by # d
      BY <2>1 DEF AwardInv, PostedOnce, Meriting
    <3> QED
      BY <3>1 DEF AwardLines, Fresh
  <2>2. CASE pc[d] # "postMerit"
    BY <2>2 DEF Fresh
  <2> QED
    BY <2>1, <2>2
<1>4. /\ IsFiniteSet(Fresh(d, m, s)) /\ Cardinality(Fresh(d, m, s)) \in Nat
      /\ Cardinality(Fresh(d, m, s)) = Due(d, m, s)
  BY FreshSize
<1>5. /\ IsFiniteSet(AwardLines(m, s) \cup Fresh(d, m, s))
      /\ Cardinality(AwardLines(m, s) \cup Fresh(d, m, s)) =
           Cardinality(AwardLines(m, s)) + Cardinality(Fresh(d, m, s))
             - Cardinality(AwardLines(m, s) \cap Fresh(d, m, s))
  BY <1>1, <1>4, FS_Union
<1>6. Cardinality(AwardLines(m, s) \cap Fresh(d, m, s)) = 0
  BY <1>3, FS_EmptySet
<1> QED
  BY <1>1, <1>2, <1>4, <1>5, <1>6 DEF Given

LEMMA PostAward ==
  ASSUME Typed, Typed', ContextInv, AwardInv, NEW d \in Delivery,
         Post(d) \/ PostFails(d)
  PROVE  AwardInv'
<1>1. /\ UNCHANGED <<rows, msg, cur>>
      /\ pc[d] \in Posting /\ chat' \in {chat, chat \cup {Reply(d)}}
      /\ \A e \in Delivery \ {d} : pc'[e] = pc[e] /\ lines'[e] = lines[e]
  BY DEF Post, PostFails, Goto, Typed, locals
<1>2. \/ pc'[d] = "failed"
      \/ pc'[d] = AfterPost[pc[d]] /\ lines'[d] = <<>> /\ chat' = chat \cup {Reply(d)}
  BY DEF Post, PostFails, Goto, Typed
<1>3. ASSUME NEW m \in Member, NEW s \in {1, -1}, chat' = chat \cup {Reply(d)}
      PROVE  /\ IsFiniteSet(AwardLines(m, s))'
             /\ Given(m, s)' = Given(m, s) + Due(d, m, s)
  BY <1>1, <1>3, PostLines
<1>4. GivenGrows
  <2>1. CASE chat' = chat
    BY <1>1, <2>1, SameGiven DEF MeritPosts
  <2>2. CASE chat' = chat \cup {Reply(d)}
    <3>1. \A m \in Member, s \in {1, -1} : Given(m, s) \in Nat /\ Due(d, m, s) \in Nat
      BY GivenType, DueType
    <3> QED
      BY <1>3, <2>2, <3>1 DEF GivenGrows
  <2> QED
    BY <1>1, <2>1, <2>2
<1>5. PostedOnce'
  <2> SUFFICES ASSUME NEW p \in MeritPosts'
               PROVE  pc'[p.by] \notin Early \cup Meriting
    BY DEF PostedOnce
  <2>1. CASE p = Reply(d) /\ pc[d] = "postMerit"
    BY <1>2, <2>1 DEF Reply, AfterPost, Posting, Early, Meriting
  <2>2. CASE ~(p = Reply(d) /\ pc[d] = "postMerit")
    <3>1. p \in MeritPosts
      BY <1>1, <2>2 DEF MeritPosts, Reply
    <3>2. p.by \in Delivery /\ pc[p.by] \notin Early \cup Meriting
      BY <3>1 DEF AwardInv, PostedOnce, MeritPosts, Typed, Answer
    <3>3. CASE p.by # d
      BY <1>1, <3>2, <3>3
    <3>4. CASE p.by = d
      BY <1>1, <1>2, <3>2, <3>4 DEF AfterPost, Posting, Early, Meriting
    <3> QED
      BY <3>3, <3>4
  <2> QED
    BY <2>1, <2>2
<1>6. CallAward(d)'
  <2>1. CASE pc'[d] = "failed"
    BY <2>1 DEF CallAward, Early, Loading, Meriting
  <2>2. CASE pc'[d] # "failed"
    <3>1. pc'[d] = AfterPost[pc[d]] /\ lines'[d] = <<>> /\ chat' = chat \cup {Reply(d)}
      BY <1>2, <2>2
    <3>2. CallAward(d)
      BY DEF AwardInv
    <3>3. /\ pc'[d] \notin Early
          /\ pc'[d] = "merit" => pc[d] \in Early
          /\ pc'[d] \in Meriting => pc'[d] = "merit"
          /\ pc'[d] \in Loading \ Meriting => pc[d] \in Loading
      BY <1>1, <3>1 DEF AfterPost, Posting, Early, Meriting, Loading
    <3>4. ASSUME pc'[d] \in Loading, NEW m \in Member, NEW i \in 1..Len(rows),
                 rows[i].who = m, i <= Len(cur[d])
          PROVE  Bounded(cur[d][i], d, m)'
      <4>1. CASE pc[d] \in Early
        BY <3>2, <3>4, <4>1, EmptySeq DEF CallAward
      <4>2. CASE pc[d] \notin Early
        <5>1. pc[d] \in Loading /\ pc'[d] \notin Meriting
          BY <3>3, <3>4, <4>2
        <5>2. Bounded(cur[d][i], d, m)
          BY <3>2, <3>4, <5>1 DEF CallAward
        <5>3. /\ Given(m, 1)' = Given(m, 1) + Due(d, m, 1)
              /\ Given(m, -1)' = Given(m, -1) + Due(d, m, -1)
          BY <1>3, <3>1
        <5>4. Due(d, m, 1)' = 0 /\ Due(d, m, -1)' = 0
          BY <5>1 DEF Due
        <5>5. /\ Due(d, m, 1) \in Nat /\ Due(d, m, -1) \in Nat
              /\ Given(m, 1) \in Nat /\ Given(m, -1) \in Nat
          BY DueType, GivenType
        <5>6. cur[d][i] \in Int
          BY <3>4, ElementOfSeq DEF Typed
        <5>7. cur[d][i] <= Given(m, 1)' + Due(d, m, 1)'
          BY <5>2, <5>3, <5>4, <5>5, <5>6 DEF Bounded
        <5>8. cur[d][i] >= -(Given(m, -1)' + Due(d, m, -1)')
          BY <5>2, <5>3, <5>4, <5>5, <5>6 DEF Bounded
        <5> QED
          BY <1>1, <5>7, <5>8 DEF Bounded
      <4> QED
        BY <4>1, <4>2
    <3>5. pc'[d] \in Meriting => lines'[d] = <<>> /\ cur'[d] = <<>>
      BY <1>1, <3>1, <3>2, <3>3 DEF CallAward
    <3> QED
      BY <1>1, <3>1, <3>3, <3>4, <3>5 DEF CallAward
  <2> QED
    BY <2>1, <2>2
<1> QED
  BY <1>1, <1>4, <1>5, <1>6, AwardStep

(* What SaveChanges writes is within what was announced.                   *)
LEMMA SaveAward ==
  ASSUME Typed, Typed', ContextInv, AwardInv, NEW d \in Delivery, Save(d)
  PROVE  AwardInv'
<1>1. /\ UNCHANGED <<chat, msg, cur, lines>>
      /\ pc[d] = "save" /\ pc'[d] = "andre"
      /\ \A e \in Delivery \ {d} : pc'[e] = pc[e]
  BY DEF Save, Goto, Typed, locals
<1>2. MeritPosts' = MeritPosts
  BY <1>1 DEF MeritPosts
<1>3. GivenGrows
  BY <1>1, <1>2, SameGiven
<1>4. PostedOnce'
  BY <1>1, <1>2, PostedOnceKept DEF Early, Meriting
<1>5. ASSUME NEW e \in Delivery
      PROVE  CallAward(e)'
  <2>1. CASE e = d
    BY <1>1, <2>1 DEF CallAward, Early, Loading, Meriting
  <2>2. CASE e # d
    BY <1>1, <1>3, <2>2, SaveGrows, AwardFrame
  <2> QED
    BY <2>1, <2>2
<1>6. RowsAwarded'
  <2> SUFFICES ASSUME NEW m \in Member, NEW i \in 1..Len(rows'), rows'[i].who = m
               PROVE  rows'[i].pts <= Given(m, 1)' /\ rows'[i].pts >= -(Given(m, -1)')
    BY DEF RowsAwarded
  <2>1. /\ Len(rows') = Len(rows) + Len(added[d])
        /\ Len(rows) \in Nat /\ Len(added[d]) \in Nat
        /\ \A k \in 1..Len(rows) : rows'[k] = Updated(d)[k]
        /\ \A k \in (Len(rows) + 1)..Len(rows') :
              rows'[k] = Inserted(d)[k - Len(rows)]
    BY SaveRows
  <2>2. /\ Given(m, 1) \in Nat /\ Given(m, -1) \in Nat
        /\ Given(m, 1)' = Given(m, 1) /\ Given(m, -1)' = Given(m, -1)
    BY <1>1, <1>2, GivenType DEF Given, AwardLines
  <2>3. CASE i \in 1..Len(rows)
    <3>1. rows[i] \in Row /\ rows'[i] = Updated(d)[i]
      BY <2>1, <2>3, ElementOfSeq DEF Typed
    <3>2. /\ rows[i].who = m
          /\ rows'[i].pts = IF i \in Changed(d) THEN cur[d][i] ELSE rows[i].pts
      BY <2>3, <3>1 DEF Updated, Row
    <3>3. rows[i].pts <= Given(m, 1) /\ rows[i].pts >= -Given(m, -1)
      BY <2>3, <3>2 DEF AwardInv, RowsAwarded
    <3>4. ASSUME i \in Changed(d)
          PROVE  cur[d][i] <= Given(m, 1) /\ cur[d][i] >= -Given(m, -1)
      <4>1. i <= Len(cur[d]) /\ cur[d][i] \in Int
        BY <3>4, ElementOfSeq DEF Changed, Typed
      <4>2. Bounded(cur[d][i], d, m)
        BY <1>1, <2>3, <3>2, <4>1 DEF AwardInv, CallAward, Loading
      <4>3. Due(d, m, 1) = 0 /\ Due(d, m, -1) = 0
        BY <1>1 DEF Due, Meriting
      <4> QED
        BY <2>2, <4>1, <4>2, <4>3 DEF Bounded
    <3> QED
      BY <2>2, <3>2, <3>3, <3>4
  <2>4. CASE i \notin 1..Len(rows)
    <3>1. i \in (Len(rows) + 1)..Len(rows') /\ i - Len(rows) \in 1..Len(added[d])
      BY <2>1, <2>4
    <3>2. rows'[i] = Inserted(d)[i - Len(rows)]
      BY <2>1, <3>1
    <3>3. \A k \in 1..Len(added[d]) : Inserted(d)[k].pts = 0
      BY DEF Inserted
    <3> QED
      BY <2>2, <3>1, <3>2, <3>3
  <2> QED
    BY <2>3, <2>4
<1> QED
  BY <1>3, <1>4, <1>5, <1>6 DEF AwardInv, GivenGrows

(* A recycled pool fails the calls it kills, and nothing else.             *)
LEMMA RestartAward ==
  ASSUME Typed, Typed', ContextInv, AwardInv, Restart \/ UNCHANGED vars
  PROVE  AwardInv'
<1>1. /\ UNCHANGED <<rows, chat, msg, cur, lines>>
      /\ \A e \in Delivery : pc'[e] = pc[e] \/ pc'[e] = "failed"
  BY DEF Restart, table, locals, vars, Typed
<1>2. MeritPosts' = MeritPosts
  BY <1>1 DEF MeritPosts
<1>3. GivenGrows
  BY <1>1, <1>2, SameGiven
<1>4. PostedOnce'
  <2>1. \A p \in MeritPosts : p.by \in Delivery /\ pc[p.by] \notin Early \cup Meriting
    BY DEF AwardInv, PostedOnce, MeritPosts, Typed, Answer
  <2> QED
    BY <1>1, <1>2, <2>1 DEF PostedOnce, Early, Meriting
<1>5. Grows
  BY <1>1 DEF Grows, Typed
<1>6. ASSUME NEW e \in Delivery
      PROVE  CallAward(e)'
  <2>1. CASE pc'[e] = pc[e]
    BY <1>1, <1>3, <1>5, <2>1, AwardFrame
  <2>2. CASE pc'[e] = "failed"
    BY <2>2 DEF CallAward, Early, Loading, Meriting
  <2> QED
    BY <1>1, <2>1, <2>2
<1>7. RowsAwarded'
  BY <1>1, <1>2 DEF AwardInv, RowsAwarded, Given, AwardLines
<1> QED
  BY <1>3, <1>4, <1>6, <1>7 DEF AwardInv, GivenGrows

LEMMA InitAward == Init => AwardInv
<1> SUFFICES ASSUME Init PROVE AwardInv
  OBVIOUS
<1>1. MeritPosts = {}
  BY DEF Init, MeritPosts
<1>2. ASSUME NEW m \in Member, NEW s \in {1, -1}
      PROVE  IsFiniteSet(AwardLines(m, s)) /\ Given(m, s) = 0
  <2>1. AwardLines(m, s) = {}
    BY <1>1 DEF AwardLines
  <2> QED
    BY <2>1, FS_EmptySet DEF Given
<1>3. RowsAwarded
  <2>1. Len(Seed) \in Nat /\ Len(rows) = Len(Seed)
    BY BotAssumption DEF Init
  <2>2. \A i \in 1..Len(rows) : rows[i].pts = 0
    BY <2>1 DEF Init
  <2> QED
    BY <1>2, <2>2 DEF RowsAwarded
<1>4. \A d \in Delivery : CallAward(d)
  BY DEF Init, CallAward, Early, Loading, Meriting
<1> QED
  BY <1>1, <1>2, <1>3, <1>4 DEF AwardInv, PostedOnce

LEMMA NextAward ==
  ASSUME Typed, Typed', LineOK, ContextInv, AwardInv, [Next]_vars
  PROVE  AwardInv'
<1>1. ASSUME NEW d \in Delivery, Deliver(d) \/ Echo(d) PROVE AwardInv'
  BY <1>1, ReceiveAward DEF Deliver, Echo
<1>2. ASSUME NEW d \in Delivery, Step(d) PROVE AwardInv'
  <2>1. CASE Merit(d)
    BY <2>1, MeritAward
  <2>2. CASE Score(d)
    BY <2>2, ScoreAward
  <2>3. CASE Post(d) \/ PostFails(d)
    BY <2>3, PostAward
  <2>4. CASE Save(d)
    BY <2>4, SaveAward
  <2>5. CASE LogLoad(d) \/ LogStore(d) \/ LogThrows(d) \/ Skip(d) \/ Register(d)
    BY <2>5, OtherAward
  <2> QED
    BY <1>2, <2>1, <2>2, <2>3, <2>4, <2>5 DEF Step, Skip
<1>3. CASE Restart \/ UNCHANGED vars
  BY <1>3, RestartAward
<1> QED
  BY <1>1, <1>2, <1>3 DEF Next

(* Whatever calls overlap, fail or die, no row has more points than the    *)
(* chat has lines that gave one, nor fewer than it has lines that took one.*)
THEOREM PointsAnnounced == Spec => []PointsWereAnnounced
<1>1. Typed /\ AwardInv => PointsWereAnnounced
  <2> SUFFICES ASSUME Typed, AwardInv, NEW i \in 1..Len(rows)
               PROVE  /\ rows[i].pts <= Given(rows[i].who, 1)
                      /\ rows[i].pts >= -Given(rows[i].who, -1)
    BY DEF PointsWereAnnounced, Given
  <2>1. rows[i] \in Row
    BY ElementOfSeq DEF Typed
  <2>2. rows[i].who \in Member
    BY <2>1 DEF Row
  <2> QED
    BY <2>2 DEF AwardInv, RowsAwarded
<1>2. Typed /\ LineOK /\ ContextInv /\ [Next]_vars => ContextInv'
  BY NextContext
<1>3. Typed /\ Typed' /\ LineOK /\ ContextInv /\ AwardInv /\ [Next]_vars => AwardInv'
  BY NextAward
<1> QED
  BY <1>1, <1>2, <1>3, InitAward, InitContext, TypesKept, PTL DEF Spec
=============================================================================
