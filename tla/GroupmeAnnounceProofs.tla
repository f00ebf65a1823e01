----------------------- MODULE GroupmeAnnounceProofs -----------------------
(***************************************************************************)
(* The order of sendMsg and SaveChanges: what a call of msg() writes, the  *)
(* group has been told, however the calls overlap.                         *)
(***************************************************************************)
EXTENDS GroupmeBotProofs

(* Before the register block, and after a reminder, nothing is inserted.   *)
Silent == {"waiting", "log", "logging", "postReminder"}

(* A message awards or it takes: its changes all go one way, so that no    *)
(* mention undoes the change of another and hides a row it had announced.  *)
Signed(d) ==
  \A i \in 1..Len(cur[d]) :
    IF Diff(msg[d].words) = 1 THEN seen[d][i] <= cur[d][i]
                              ELSE cur[d][i] <= seen[d][i]

(* The lines ls tell the total of the last row of a member that d changed. *)
Told(d, ls) ==
  \A i \in Changed(d) :
    \/ \E j \in Changed(d) : j > i /\ rows[j].who = rows[i].who
    \/ \E k \in 1..Len(ls) :
         /\ ls[k] = [who |-> rows[i].who, total |-> cur[d][i]]
         /\ \A l \in (k + 1)..Len(ls) : ls[l].who # rows[i].who

CallTold(d) ==
  /\ Signed(d)
  /\ pc[d] \in Meriting => Told(d, lines[d])
  /\ pc[d] \in Loading \ Meriting =>
       Changed(d) = {} \/ \E p \in MeritPosts : p.by = d /\ Told(d, p.lines)

CallEntered(d) ==
  /\ pc[d] \in Silent => added[d] = <<>>
  /\ pc[d] = "register" /\ ~(Says(d, "register") /\ Named(d)) => added[d] = <<>>
  /\ pc[d] \in Loading /\ added[d] # <<>> =>
       \E p \in chat : p.by = d /\ p.stage = "postRegister"

ToldInv == \A d \in Delivery : CallTold(d) /\ CallEntered(d)

LEMMA ChangedRows ==
  ASSUME Typed, ContextInv, NEW d \in Delivery
  PROVE  /\ Len(rows) \in Nat /\ Len(cur[d]) \in Nat /\ Len(cur[d]) <= Len(rows)
         /\ \A i \in Changed(d) : i \in 1..Len(rows) /\ i \in 1..Len(cur[d])
<1>1. Len(rows) \in Nat /\ Len(cur[d]) \in Nat /\ Len(cur[d]) <= Len(rows)
  BY DEF Typed, ContextInv
<1> QED
  BY <1>1 DEF Changed

(* An empty context has changed nothing.                                   *)
LEMMA NothingChanged ==
  ASSUME NEW d \in Delivery, cur[d] = <<>>
  PROVE  /\ Changed(d) = {} /\ Signed(d)
         /\ \A ls : Told(d, ls)
<1>1. Changed(d) = {}
  BY EmptySeq DEF Changed
<1>2. Signed(d)
  BY EmptySeq DEF Signed
<1> QED
  BY <1>1, <1>2 DEF Told

-----------------------------------------------------------------------------
(* What other calls do: the table and the chat grow.                       *)
LEMMA SameTold ==
  ASSUME NEW d \in Delivery, Changed(d)' = Changed(d),
         \A i \in Changed(d) : rows'[i].who = rows[i].who /\ cur'[d][i] = cur[d][i],
         NEW ls, Told(d, ls)
  PROVE  Told(d, ls)'
<1> SUFFICES ASSUME NEW i \in Changed(d)
             PROVE  (\/ \E j \in Changed(d) : j > i /\ rows[j].who = rows[i].who
                     \/ \E k \in 1..Len(ls) :
                          /\ ls[k] = [who |-> rows[i].who, total |-> cur[d][i]]
                          /\ \A l \in (k + 1)..Len(ls) : ls[l].who # rows[i].who)'
  BY DEF Told
<1>1. rows'[i].who = rows[i].who /\ cur'[d][i] = cur[d][i]
  OBVIOUS
<1>2. CASE \E j \in Changed(d) : j > i /\ rows[j].who = rows[i].who
  BY <1>1, <1>2
<1>3. CASE \E k \in 1..Len(ls) :
             /\ ls[k] = [who |-> rows[i].who, total |-> cur[d][i]]
             /\ \A l \in (k + 1)..Len(ls) : ls[l].who # rows[i].who
  BY <1>1, <1>3
<1> QED
  BY <1>2, <1>3 DEF Told

LEMMA ToldFrame ==
  ASSUME Typed, ContextInv, Grows, NEW d \in Delivery,
         cur'[d] = cur[d], seen'[d] = seen[d], NEW ls, Told(d, ls)
  PROVE  Told(d, ls)'
<1>1. Changed(d)' = Changed(d)
  BY DEF Changed
<1>2. \A i \in Changed(d) : rows'[i].who = rows[i].who
  BY ChangedRows DEF Grows
<1> QED
  BY <1>1, <1>2, SameTold

LEMMA SignedFrame ==
  ASSUME NEW d \in Delivery, Signed(d),
         cur'[d] = cur[d], seen'[d] = seen[d], msg'[d] = msg[d]
  PROVE  Signed(d)'
BY DEF Signed

LEMMA PostedFrame ==
  ASSUME Typed, ContextInv, Grows, chat \subseteq chat', NEW d \in Delivery,
         cur'[d] = cur[d], seen'[d] = seen[d],
         Changed(d) = {} \/ \E p \in MeritPosts : p.by = d /\ Told(d, p.lines)
  PROVE  (Changed(d) = {} \/ \E p \in MeritPosts : p.by = d /\ Told(d, p.lines))'
<1>1. CASE Changed(d) = {}
  BY <1>1 DEF Changed
<1>2. ASSUME NEW p \in MeritPosts, p.by = d, Told(d, p.lines)
      PROVE  p \in MeritPosts' /\ Told(d, p.lines)'
  BY <1>2, ToldFrame DEF MeritPosts
<1> QED
  BY <1>1, <1>2

LEMMA CallFrame ==
  ASSUME Typed, ContextInv, ToldInv, Grows, chat \subseteq chat', NEW d \in Delivery,
         pc'[d] = pc[d], msg'[d] = msg[d], cur'[d] = cur[d], seen'[d] = seen[d],
         added'[d] = added[d], lines'[d] = lines[d]
  PROVE  CallTold(d)' /\ CallEntered(d)'
<1>1. CallTold(d) /\ CallEntered(d)
  BY DEF ToldInv
<1>2. Signed(d)'
  BY <1>1, SignedFrame DEF CallTold
<1>4. ASSUME pc'[d] \in Meriting
      PROVE  Told(d, lines[d])'
  <2>1. PICK ls : ls = lines[d]
    OBVIOUS
  <2>2. Told(d, ls)'
    BY <1>1, <1>4, <2>1, ToldFrame DEF CallTold
  <2> QED
    BY <2>1, <2>2
<1>5. pc'[d] \in Loading \ Meriting =>
        (Changed(d) = {} \/ \E p \in MeritPosts : p.by = d /\ Told(d, p.lines))'
  BY <1>1, PostedFrame DEF CallTold
<1>6. CallEntered(d)'
  BY <1>1 DEF CallEntered, Says, Named, Mentions
<1> QED
  BY <1>2, <1>4, <1>5, <1>6 DEF CallTold

-----------------------------------------------------------------------------
(* The call that moves.                                                    *)
LEMMA ReceiveTold ==
  ASSUME Typed, ContextInv, ToldInv, NEW d \in Delivery, NEW m, Receive(d, m)
  PROVE  ToldInv'
<1>1. /\ UNCHANGED <<rows, chat, seen, cur, added, lines>>
      /\ pc[d] = "waiting" /\ pc'[d] = "log"
      /\ \A e \in Delivery \ {d} : pc'[e] = pc[e] /\ msg'[e] = msg[e]
  BY DEF Typed, Receive, Goto
<1>2. Grows
  BY <1>1 DEF Grows, Typed
<1>3. ASSUME NEW e \in Delivery \ {d}
      PROVE  CallTold(e)' /\ CallEntered(e)'
  BY <1>1, <1>2, CallFrame
<1>4. CallTold(d)' /\ CallEntered(d)'
  <2>1. cur[d] = <<>> /\ added[d] = <<>>
    BY <1>1 DEF ContextInv, ToldInv, CallEntered, Silent
  <2>2. Signed(d)'
    BY <1>1, <2>1, EmptySeq DEF Signed
  <2> QED
    BY <1>1, <2>1, <2>2 DEF CallTold, CallEntered, Loading, Meriting
<1> QED
  BY <1>3, <1>4 DEF ToldInv

(* The steps that neither query, post nor save.                            *)
LEMMA OtherTold ==
  ASSUME Typed, ContextInv, AwardInv, ToldInv, NEW d \in Delivery,
         LogLoad(d) \/ LogStore(d) \/ LogThrows(d) \/ Skip(d) \/ Register(d)
  PROVE  CallTold(d)' /\ CallEntered(d)'
<1>1. UNCHANGED <<rows, chat, msg, lines, cur, seen>>
  BY DEF LogLoad, LogStore, LogThrows, Skip, RegisterSkip, RegisterReminder,
         RegisterNobody, MeritSkip, MeritNobody, ScoreSkip, SaveFails, Andre,
         Register, table, locals
<1>2. pc'[d] \in Loading =>
        \/ pc[d] \in Early
        \/ pc[d] = "merit" /\ ~(Says(d, "merit") /\ Named(d))
        \/ pc[d] \in Loading \ Meriting /\ pc'[d] \notin Meriting
  BY DEF LogLoad, LogStore, LogThrows, Skip, RegisterSkip, RegisterReminder,
         RegisterNobody, MeritSkip, MeritNobody, ScoreSkip, SaveFails, Andre,
         Register, Tagged, Turn, Goto, Typed, Early, Loading, Meriting
<1>3. CallTold(d) /\ CallEntered(d) /\ CallAward(d)
  BY DEF ToldInv, AwardInv
<1>4. Grows
  BY <1>1 DEF Grows, Typed
<1>5. CallTold(d)'
  <2>1. Signed(d)'
    BY <1>1, <1>3, SignedFrame DEF CallTold
  <2>2. pc'[d] \in Meriting => cur[d] = <<>>
    BY <1>2, <1>3 DEF CallAward, Loading, Meriting
  <2>3. ASSUME pc'[d] \in Meriting
        PROVE  Told(d, lines[d])'
    BY <1>1, <2>2, <2>3, EmptySeq DEF Told, Changed
  <2>4. ASSUME pc'[d] \in Loading \ Meriting
        PROVE  (Changed(d) = {} \/ \E p \in MeritPosts : p.by = d /\ Told(d, p.lines))'
    <3>1. Changed(d) = {} \/ \E p \in MeritPosts : p.by = d /\ Told(d, p.lines)
      BY <1>2, <1>3, <2>4, NothingChanged DEF CallTold, CallAward, Meriting
    <3> QED
      BY <1>1, <1>4, <3>1, PostedFrame
  <2> QED
    BY <1>1, <2>1, <2>2, <2>3, <2>4 DEF CallTold, Meriting
<1>6. CallEntered(d)'
  <2>1. CASE Register(d)
    <3>1. pc'[d] \in {"register", "postRegister"} /\ Says(d, "register") /\ Named(d)
      BY <2>1 DEF Register, Turn, Goto, Typed
    <3> QED
      BY <1>1, <3>1 DEF CallEntered, Silent, Loading, Meriting, Says, Named, Mentions
  <2>2. CASE LogLoad(d) \/ LogStore(d) \/ LogThrows(d)
    <3>1. added' = added /\ pc[d] \in Silent /\ pc'[d] \notin Loading
      BY <2>2 DEF LogLoad, LogStore, LogThrows, Goto, Typed, Silent, Loading,
                  Meriting, locals
    <3> QED
      BY <1>3, <3>1 DEF CallEntered
  <2>3. CASE Skip(d)
    <3>1. added' = added
      BY <2>3 DEF Skip, RegisterSkip, RegisterReminder, RegisterNobody, MeritSkip,
         MeritNobody, ScoreSkip, SaveFails, Andre, locals
    <3>2. \/ pc[d] = "register" /\ ~(Says(d, "register") /\ Named(d))
          \/ pc[d] \in Loading /\ pc'[d] \in Loading \cup {"failed"}
          \/ pc'[d] \in {"postAndre", "done"}
      BY <2>3 DEF Skip, RegisterSkip, RegisterReminder, RegisterNobody, MeritSkip,
         MeritNobody, ScoreSkip, SaveFails, Andre, Tagged, Goto, Typed, Loading,
         Meriting
    <3>3. CASE pc[d] = "register" /\ ~(Says(d, "register") /\ Named(d))
      BY <1>1, <1>3, <3>1, <3>3 DEF CallEntered
    <3>4. CASE pc[d] \in Loading /\ pc'[d] \in Loading \cup {"failed"}
      BY <1>1, <1>3, <3>1, <3>4 DEF CallEntered, Loading, Meriting, Silent
    <3>5. CASE pc'[d] \in {"postAndre", "done"}
      BY <3>5 DEF CallEntered, Loading, Meriting, Silent
    <3> QED
      BY <3>2, <3>3, <3>4, <3>5
  <2> QED
    BY <2>1, <2>2, <2>3
<1> QED
  BY <1>5, <1>6

(* A query brings in rows as they are: it changes none.                    *)
LEMMA QueryChanges ==
  ASSUME Typed, ContextInv, ToldInv, NEW d \in Delivery, NEW i \in 1..Len(rows)
  PROVE  /\ Queried(d, cur)[i] \in Int /\ Queried(d, seen)[i] \in Int
         /\ i \in Changed(d) <=> Queried(d, cur)[i] # Queried(d, seen)[i]
         /\ i \in Changed(d) => Queried(d, cur)[i] = cur[d][i]
         /\ IF Diff(msg[d].words) = 1
              THEN Queried(d, seen)[i] <= Queried(d, cur)[i]
              ELSE Queried(d, cur)[i] <= Queried(d, seen)[i]
<1>1. Queried(d, cur)[i] \in Int /\ Queried(d, seen)[i] \in Int
  <2>1. /\ Queried(d, cur) \in [1..Len(rows) -> Int]
        /\ Queried(d, seen) \in [1..Len(rows) -> Int]
    BY QueriedType DEF Typed
  <2> QED
    BY <2>1
<1>2. Len(seen[d]) = Len(cur[d]) /\ Len(cur[d]) \in Nat /\ Len(rows) \in Nat
  BY DEF ContextInv, Typed
<1>3. CASE i <= Len(cur[d])
  <2>1. Queried(d, cur)[i] = cur[d][i] /\ Queried(d, seen)[i] = seen[d][i]
    BY <1>2, <1>3 DEF Queried
  <2>2. i \in 1..Len(cur[d])
    BY <1>2, <1>3
  <2>3. Signed(d)
    BY DEF ToldInv, CallTold
  <2> QED
    BY <1>1, <2>1, <2>2, <2>3 DEF Changed, Signed
<1>4. CASE ~(i <= Len(cur[d]))
  <2>1. Queried(d, cur)[i] = rows[i].pts /\ Queried(d, seen)[i] = rows[i].pts
    BY <1>2, <1>4 DEF Queried
  <2>2. i \notin Changed(d)
    BY <1>2, <1>4 DEF Changed
  <2> QED
    BY <1>1, <2>1, <2>2
<1> QED
  BY <1>3, <1>4

LEMMA ScoreTold ==
  ASSUME Typed, Typed', ContextInv, ToldInv, NEW d \in Delivery, Score(d)
  PROVE  CallTold(d)' /\ CallEntered(d)'
<1>1. /\ UNCHANGED <<rows, chat, msg, added>>
      /\ pc[d] = "score" /\ pc'[d] = "postScore"
      /\ cur'[d] = Queried(d, cur) /\ seen'[d] = Queried(d, seen)
  BY DEF Typed, Score, Goto, table
<1>2. CallTold(d) /\ CallEntered(d)
  BY DEF ToldInv
<1>3. Len(cur'[d]) = Len(rows) /\ Len(rows) \in Nat
  <2>1. Queried(d, cur) \in [1..Len(rows) -> Int]
    BY QueriedType DEF Typed
  <2> QED
    <3>1. Len(rows) \in Nat
      BY DEF Typed
    <3> QED
      BY <1>1, <2>1, <3>1, RowValues
<1>4. Changed(d)' = Changed(d) /\ \A i \in Changed(d) : cur'[d][i] = cur[d][i]
  <2>1. Changed(d)' = {i \in 1..Len(rows) : cur'[d][i] # seen'[d][i]}
    BY <1>3 DEF Changed
  <2> QED
    BY <1>1, <2>1, ChangedRows, QueryChanges
<1>5. Signed(d)'
  BY <1>1, <1>3, QueryChanges DEF Signed
<1>6. \A ls : Told(d, ls) => Told(d, ls)'
  BY <1>1, <1>4, SameTold
<1>7. (Changed(d) = {} \/ \E p \in MeritPosts : p.by = d /\ Told(d, p.lines))'
  <2>1. Changed(d) = {} \/ \E p \in MeritPosts : p.by = d /\ Told(d, p.lines)
    BY <1>1, <1>2 DEF CallTold, Loading, Meriting
  <2>2. ASSUME NEW p \in MeritPosts, p.by = d, Told(d, p.lines)
        PROVE  p \in MeritPosts' /\ Told(d, p.lines)'
    BY <1>1, <1>6, <2>2 DEF MeritPosts
  <2> QED
    BY <1>4, <2>1, <2>2
<1> QED
  BY <1>1, <1>2, <1>5, <1>7 DEF CallTold, CallEntered, Loading, Meriting, Silent

(* A mention awards every row of the member and tells the last one.        *)
LEMMA MeritTold ==
  ASSUME Typed, Typed', LineOK, ContextInv, ToldInv, NEW d \in Delivery, Merit(d)
  PROVE  CallTold(d)' /\ CallEntered(d)'
<1> DEFINE m == Mentions(d)[line[d]]
           diff == Diff(msg[d].words)
           points == Awarded(m, msg[d].words, Queried(d, cur))
           t == [who |-> m, total |-> TotalOf(m, points)]
<1>1. /\ UNCHANGED <<rows, chat, msg, added>>
      /\ pc[d] = "merit" /\ pc'[d] \in Meriting
      /\ cur'[d] = points /\ seen'[d] = Queried(d, seen)
      /\ Says(d, "merit") /\ Named(d)
  BY DEF Typed, Merit, Turn, Goto, table, Meriting
<1>2. CallTold(d) /\ CallEntered(d)
  BY DEF ToldInv
<1>3. Queried(d, cur) \in [1..Len(rows) -> Int] /\ points \in [1..Len(rows) -> Int]
  BY QueriedType, AwardedType DEF Typed
<1>4. Len(cur'[d]) = Len(rows) /\ Len(rows) \in Nat
  <2>1. Len(rows) \in Nat
    BY DEF Typed
  <2> HIDE DEF points
  <2> QED
    BY <1>1, <1>3, <2>1, RowValues
<1>5. diff = 1 \/ diff = -1
  BY DEF Diff
<1>6. \A i \in 1..Len(rows) :
        points[i] = IF rows[i].who = m THEN Queried(d, cur)[i] + diff
                                       ELSE Queried(d, cur)[i]
  BY DEF Awarded
<1>7. Signed(d)'
  <2> SUFFICES ASSUME NEW i \in 1..Len(rows)
               PROVE  IF diff = 1 THEN Queried(d, seen)[i] <= points[i]
                                  ELSE points[i] <= Queried(d, seen)[i]
    BY <1>1, <1>4 DEF Signed
  <2> HIDE DEF points, diff
  <2> QED
    BY <1>5, <1>6, QueryChanges DEF diff
<1>8. ASSUME NEW i \in Changed(d)'
      PROVE  /\ i \in 1..Len(rows)
             /\ rows[i].who # m => i \in Changed(d) /\ points[i] = cur[d][i]
  <2>1. i \in 1..Len(rows) /\ points[i] # Queried(d, seen)[i]
    BY <1>1, <1>4, <1>8 DEF Changed
  <2> HIDE DEF points, diff
  <2> QED
    BY <1>6, <2>1, QueryChanges
<1>9. ASSUME NEW i \in 1..Len(rows), i \in Changed(d) \/ rows[i].who = m
      PROVE  i \in Changed(d)'
  <2>1. points[i] # Queried(d, seen)[i]
    <3> HIDE DEF points, diff
    <3> QED
      BY <1>5, <1>6, <1>9, QueryChanges DEF diff
  <2> QED
    BY <1>1, <1>4, <2>1 DEF Changed
<1>10. Told(d, lines[d])
  BY <1>1, <1>2 DEF CallTold, Meriting
<1>11. /\ Len(lines[d]) \in Nat /\ Len(lines'[d]) = Len(lines[d]) + 1
       /\ \A k \in 1..Len(lines[d]) : lines'[d][k] = lines[d][k]
       /\ lines'[d][Len(lines[d]) + 1] = t
  <2>1. m \in Member
    BY MentionType DEF Merit
  <2>2. t \in Line /\ lines[d] \in Seq(Line)
    BY <1>3, <2>1, TotalType DEF Line, Typed
  <2>3. lines'[d] = Append(lines[d], t)
    BY DEF Typed, Merit
  <2> HIDE DEF t
  <2> QED
    BY <2>2, <2>3, AppendProperties
<1> HIDE DEF points, m, t
<1>12. ASSUME NEW i \in Changed(d)', rows[i].who = m
       PROVE  \/ \E j \in Changed(d)' : j > i /\ rows[j].who = rows[i].who
              \/ t.total = points[i]
  <2>1. i \in RowsOf(m)
    BY <1>8, <1>12 DEF RowsOf
  <2>2. \A j \in RowsOf(m) : j \in Changed(d)' /\ rows[j].who = rows[i].who
    BY <1>9, <1>12 DEF RowsOf
  <2>3. \A j \in RowsOf(m) : j \in Int
    BY <1>4 DEF RowsOf
  <2>4. CASE \E j \in RowsOf(m) : j > i
    BY <2>2, <2>4
  <2>5. CASE ~\E j \in RowsOf(m) : j > i
    <3>1. \A j \in RowsOf(m) : j <= i
      BY <2>1, <2>3, <2>5
    <3>2. i = CHOOSE k \in RowsOf(m) : \A j \in RowsOf(m) : j <= k
      <4>1. \A k \in RowsOf(m) : (\A j \in RowsOf(m) : j <= k) => k = i
        BY <2>1, <2>3, <3>1
      <4> QED
        BY <2>1, <3>1, <4>1
    <3> QED
      BY <2>1, <3>2 DEF TotalOf, t
  <2> QED
    BY <2>4, <2>5
<1>13. Told(d, lines[d])'
  <2> SUFFICES ASSUME NEW i \in Changed(d)'
               PROVE  \/ \E j \in Changed(d)' : j > i /\ rows[j].who = rows[i].who
                      \/ \E k \in 1..Len(lines'[d]) :
                           /\ lines'[d][k] = [who |-> rows[i].who, total |-> points[i]]
                           /\ \A l \in (k + 1)..Len(lines'[d]) :
                                lines'[d][l].who # rows[i].who
    BY <1>1 DEF Told
  <2>1. CASE rows[i].who = m
    <3>1. CASE t.total = points[i]
      <4>1. lines'[d][Len(lines'[d])] = [who |-> rows[i].who, total |-> points[i]]
        BY <1>11, <2>1, <3>1 DEF t
      <4> QED
        BY <1>11, <4>1
    <3>2. CASE t.total # points[i]
      BY <1>12, <2>1, <3>2
    <3> QED
      BY <3>1, <3>2
  <2>2. CASE rows[i].who # m
    <3>1. i \in Changed(d) /\ points[i] = cur[d][i]
      BY <1>8, <2>2
    <3>2. CASE \E j \in Changed(d) : j > i /\ rows[j].who = rows[i].who
      BY <1>9, <3>2, ChangedRows
    <3>3. CASE \E k \in 1..Len(lines[d]) :
                 /\ lines[d][k] = [who |-> rows[i].who, total |-> cur[d][i]]
                 /\ \A l \in (k + 1)..Len(lines[d]) : lines[d][l].who # rows[i].who
      <4>1. PICK k \in 1..Len(lines[d]) :
              /\ lines[d][k] = [who |-> rows[i].who, total |-> cur[d][i]]
              /\ \A l \in (k + 1)..Len(lines[d]) : lines[d][l].who # rows[i].who
        BY <3>3
      <4>2. k \in 1..Len(lines'[d])
        BY <1>11
      <4>3. lines'[d][k] = [who |-> rows[i].who, total |-> points[i]]
        BY <1>11, <3>1, <4>1
      <4>4. ASSUME NEW l \in (k + 1)..Len(lines'[d])
            PROVE  lines'[d][l].who # rows[i].who
        <5>1. CASE l = Len(lines[d]) + 1
          BY <1>11, <2>2, <5>1 DEF t
        <5>2. CASE l # Len(lines[d]) + 1
          <6>1. l \in (k + 1)..Len(lines[d]) /\ l \in 1..Len(lines[d])
            BY <1>11, <5>2
          <6> QED
            BY <1>11, <4>1, <6>1
        <5> QED
          BY <5>1, <5>2
      <4> QED
        BY <4>2, <4>3, <4>4
    <3> QED
      BY <1>10, <3>1, <3>2, <3>3 DEF Told
  <2> QED
    BY <2>1, <2>2
<1>14. CallTold(d)'
  BY <1>1, <1>7, <1>13 DEF CallTold, Says, Named, Mentions
<1>15. CallEntered(d)'
  BY <1>1, <1>2 DEF CallEntered, Loading, Meriting, Silent
<1> QED
  BY <1>14, <1>15

(* The reply goes out before the call moves on; a call it fails in saves   *)
(* nothing any more.                                                       *)
LEMMA PostTold ==
  ASSUME Typed, ContextInv, AwardInv, ToldInv, NEW d \in Delivery,
         Post(d) \/ PostFails(d)
  PROVE  CallTold(d)' /\ CallEntered(d)'
<1>1. UNCHANGED <<rows, msg, cur, seen, added>> /\ pc[d] \in Posting
  BY DEF Post, PostFails, locals
<1>2. CallTold(d) /\ CallEntered(d) /\ CallAward(d)
  BY DEF ToldInv, AwardInv
<1>3. Signed(d)'
  BY <1>1, <1>2, SignedFrame DEF CallTold
<1>4. CASE PostFails(d)
  <2>1. pc'[d] = "failed"
    BY <1>4 DEF PostFails, Goto, Typed
  <2> QED
    BY <1>3, <2>1 DEF CallTold, CallEntered, Silent, Loading, Meriting
<1>5. CASE Post(d)
  <2>1. pc'[d] = AfterPost[pc[d]] /\ chat' = chat \cup {Reply(d)}
    BY <1>5 DEF Post, Goto, Typed
  <2>2. Grows
    BY <1>1 DEF Grows, Typed
  <2>3. CASE pc[d] \in {"postRegister", "postReminder"}
    <3>1. pc'[d] = "merit" /\ cur'[d] = <<>>
      BY <1>1, <1>2, <2>1, <2>3 DEF AfterPost, Posting, CallAward, Early
    <3>2. CallTold(d)'
      <4>1. Changed(d)' = {}
        BY <3>1, EmptySeq DEF Changed
      <4> QED
        BY <1>3, <3>1, <4>1 DEF CallTold, Told, Meriting
    <3>3. CallEntered(d)'
      <4>1. CASE pc[d] = "postReminder"
        BY <1>1, <1>2, <3>1, <4>1 DEF CallEntered, Silent
      <4>2. CASE pc[d] = "postRegister"
        <5>1. Reply(d).by = d /\ Reply(d).stage = "postRegister"
          BY <4>2 DEF Reply
        <5> QED
          BY <2>1, <3>1, <5>1 DEF CallEntered, Silent
      <4> QED
        BY <2>3, <4>1, <4>2
    <3> QED
      BY <3>2, <3>3
  <2>4. CASE pc[d] = "postMerit"
    <3>1. pc'[d] = "score"
      BY <2>1, <2>4 DEF AfterPost, Posting
    <3>2. \E p \in MeritPosts' : p.by = d /\ Told(d, p.lines)'
      <4>1. PICK p : p = Reply(d)
        OBVIOUS
      <4>2. p \in MeritPosts' /\ p.by = d /\ p.lines = lines[d]
        BY <2>1, <2>4, <4>1 DEF MeritPosts, Reply
      <4>3. Told(d, p.lines)
        BY <1>2, <2>4, <4>2 DEF CallTold, Meriting
      <4>4. Told(d, p.lines)'
        BY <1>1, <2>2, <4>3, ToldFrame
      <4> QED
        BY <4>2, <4>4
    <3>3. CallTold(d)'
      BY <1>3, <3>1, <3>2 DEF CallTold, Meriting, Loading
    <3>4. CallEntered(d)'
      BY <1>1, <1>2, <2>1, <2>4, <3>1 DEF CallEntered, Silent, Loading, Meriting
    <3> QED
      BY <3>3, <3>4
  <2>5. CASE pc[d] = "postScore"
    <3>1. pc'[d] = "save"
      BY <2>1, <2>5 DEF AfterPost, Posting
    <3>2. (Changed(d) = {} \/ \E p \in MeritPosts : p.by = d /\ Told(d, p.lines))'
      <4>1. Changed(d) = {} \/ \E p \in MeritPosts : p.by = d /\ Told(d, p.lines)
        BY <1>2, <2>5 DEF CallTold, Loading, Meriting
      <4> QED
        BY <1>1, <2>1, <2>2, <4>1, PostedFrame
    <3>3. CallTold(d)'
      BY <1>3, <3>1, <3>2 DEF CallTold, Meriting
    <3>4. CallEntered(d)'
      BY <1>1, <1>2, <2>1, <2>5, <3>1 DEF CallEntered, Silent, Loading, Meriting
    <3> QED
      BY <3>3, <3>4
  <2>6. CASE pc[d] = "postAndre"
    <3>1. pc'[d] = "done"
      BY <2>1, <2>6 DEF AfterPost, Posting
    <3> QED
      BY <1>3, <3>1 DEF CallTold, CallEntered, Silent, Loading, Meriting
  <2> QED
    BY <1>1, <2>3, <2>4, <2>5, <2>6 DEF Posting
<1> QED
  BY <1>4, <1>5

LEMMA SaveTold ==
  ASSUME Typed, ToldInv, NEW d \in Delivery, Save(d)
  PROVE  CallTold(d)' /\ CallEntered(d)'
<1>1. UNCHANGED <<msg, cur, seen>> /\ pc'[d] = "andre"
  BY DEF Save, Goto, Typed, locals
<1>2. Signed(d)'
  BY <1>1, SignedFrame DEF ToldInv, CallTold
<1> QED
  BY <1>1, <1>2 DEF CallTold, CallEntered, Silent, Loading, Meriting

LEMMA RestartTold ==
  ASSUME Typed, ContextInv, ToldInv, Restart \/ UNCHANGED vars
  PROVE  ToldInv'
<1>1. /\ UNCHANGED <<rows, chat, msg, cur, seen, added, lines>>
      /\ \A e \in Delivery : pc'[e] = pc[e] \/ pc'[e] = "failed"
  BY DEF Restart, table, locals, vars, Typed
<1>2. Grows
  BY <1>1 DEF Grows, Typed
<1>3. ASSUME NEW e \in Delivery
      PROVE  CallTold(e)' /\ CallEntered(e)'
  <2>1. CASE pc'[e] = pc[e]
    BY <1>1, <1>2, <2>1, CallFrame
  <2>2. CASE pc'[e] = "failed"
    <3>1. Signed(e)'
      BY <1>1, SignedFrame DEF ToldInv, CallTold
    <3> QED
      BY <2>2, <3>1 DEF CallTold, CallEntered, Silent, Loading, Meriting
  <2> QED
    BY <1>1, <2>1, <2>2
<1> QED
  BY <1>3 DEF ToldInv

-----------------------------------------------------------------------------
LEMMA InitTold == Init => ToldInv
<1> SUFFICES ASSUME Init, NEW d \in Delivery PROVE CallTold(d) /\ CallEntered(d)
  BY DEF ToldInv
<1>1. pc[d] = "waiting" /\ cur[d] = <<>> /\ added[d] = <<>>
  BY DEF Init
<1> QED
  BY <1>1, NothingChanged DEF CallTold, CallEntered, Silent, Loading, Meriting

LEMMA NextTold ==
  ASSUME Typed, Typed', LineOK, ContextInv, AwardInv, ToldInv, [Next]_vars
  PROVE  ToldInv'
<1>1. ASSUME NEW d \in Delivery, Deliver(d) \/ Echo(d) PROVE ToldInv'
  BY <1>1, ReceiveTold DEF Deliver, Echo
<1>2. ASSUME NEW d \in Delivery, Step(d) PROVE ToldInv'
  <2>1. CallTold(d)' /\ CallEntered(d)'
    <3>1. CASE Merit(d)
      BY <3>1, MeritTold
    <3>2. CASE Score(d)
      BY <3>2, ScoreTold
    <3>3. CASE Post(d) \/ PostFails(d)
      BY <3>3, PostTold
    <3>4. CASE Save(d)
      BY <3>4, SaveTold
    <3>5. CASE LogLoad(d) \/ LogStore(d) \/ LogThrows(d) \/ Skip(d) \/ Register(d)
      BY <3>5, OtherTold
    <3> QED
      BY <1>2, <3>1, <3>2, <3>3, <3>4, <3>5 DEF Step, Skip
  <2>2. ASSUME NEW e \in Delivery \ {d}
        PROVE  CallTold(e)' /\ CallEntered(e)'
    BY <1>2, <2>2, StepAlone, CallFrame
  <2> QED
    BY <2>1, <2>2 DEF ToldInv
<1>3. CASE Restart \/ UNCHANGED vars
  BY <1>3, RestartTold
<1> QED
  BY <1>1, <1>2, <1>3 DEF Next

(* Only SaveChanges takes a call from "save" to the last block.            *)
LEMMA SaveOnly ==
  ASSUME Typed, [Next]_vars, NEW d \in Delivery, pc[d] = "save", pc'[d] = "andre"
  PROVE  Save(d)
<1>1. \E e \in Delivery : Deliver(e) \/ Echo(e) \/ Step(e)
  BY DEF Next, Restart, vars, Typed
<1>2. \E e \in Delivery : Step(e)
  BY <1>1 DEF Deliver, Echo, Receive, Goto, Typed
<1>3. Step(d)
  BY <1>2, StepAlone
<1>4. ~Post(d)
  BY DEF Post, Posting
<1> QED
  BY <1>3, <1>4 DEF Step, LogLoad, LogStore, LogThrows, RegisterSkip,
     RegisterReminder, RegisterNobody, Register, MeritSkip, MeritNobody, Merit,
     Score, ScoreSkip, PostFails, SaveFails, Andre, Goto, Typed

(* What SaveChanges is about to write is in the chat already.              *)
LEMMA SaveAnnounced ==
  ASSUME Typed, ContextInv, ToldInv, [Next]_vars, NEW d \in Delivery,
         pc[d] = "save", pc'[d] = "andre"
  PROVE  /\ \A i \in Changed(d) :
              \/ \E j \in Changed(d) : j > i /\ rows[j].who = rows[i].who
              \/ \E p \in MeritPosts : \E k \in 1..Len(p.lines) :
                   /\ p.by = d
                   /\ p.lines[k] = [who |-> rows[i].who, total |-> rows'[i].pts]
                   /\ \A l \in (k + 1)..Len(p.lines) : p.lines[l].who # rows[i].who
         /\ Len(rows') > Len(rows) =>
              \E p \in chat : p.by = d /\ p.stage = "postRegister"
<1>1. Save(d)
  BY SaveOnly
<1>2. CallTold(d) /\ CallEntered(d)
  BY DEF ToldInv
<1>3. ASSUME NEW i \in Changed(d)
      PROVE  rows'[i].pts = cur[d][i]
  <2>1. i \in 1..Len(rows)
    BY ChangedRows
  <2>2. rows[i] \in Row
    BY <2>1, ElementOfSeq DEF Typed
  <2> QED
    BY <1>1, <1>3, <2>1, <2>2, SaveRows DEF Updated, Row
<1>4. Changed(d) = {} \/ \E p \in MeritPosts : p.by = d /\ Told(d, p.lines)
  BY <1>2 DEF CallTold, Loading, Meriting
<1>5. ASSUME Len(rows') > Len(rows)
      PROVE  \E p \in chat : p.by = d /\ p.stage = "postRegister"
  <2>1. Len(rows') = Len(rows) + Len(added[d]) /\ Len(rows) \in Nat
    BY <1>1, SaveRows
  <2>2. added[d] # <<>>
    BY <1>5, <2>1, EmptySeq
  <2> QED
    BY <1>2, <2>2 DEF CallEntered, Loading
<1> QED
  BY <1>3, <1>4, <1>5 DEF Told

(* However the calls overlap, SaveChanges writes the totals its call has   *)
(* announced, and inserts members whose "Registered!" reply is out.        *)
THEOREM AnnouncedFirst == Spec => AnnouncedBeforeSaved
<1>1. Typed /\ ContextInv /\ ToldInv /\ [Next]_vars =>
        [\A d \in Delivery : pc[d] = "save" /\ pc'[d] = "andre" =>
           /\ \A i \in Changed(d) :
                \/ \E j \in Changed(d) : j > i /\ rows[j].who = rows[i].who
                \/ \E p \in MeritPosts : \E k \in 1..Len(p.lines) :
                     /\ p.by = d
                     /\ p.lines[k] = [who |-> rows[i].who, total |-> rows'[i].pts]
                     /\ \A l \in (k + 1)..Len(p.lines) : p.lines[l].who # rows[i].who
           /\ Len(rows') > Len(rows) =>
                \E p \in chat : p.by = d /\ p.stage = "postRegister"]_vars
  BY SaveAnnounced
<1>2. Typed /\ LineOK /\ ContextInv /\ [Next]_vars => ContextInv'
  BY NextContext
<1>3. Typed /\ Typed' /\ LineOK /\ ContextInv /\ AwardInv /\ [Next]_vars => AwardInv'
  BY NextAward
<1>4. Typed /\ Typed' /\ LineOK /\ ContextInv /\ AwardInv /\ ToldInv /\ [Next]_vars
        => ToldInv'
  BY NextTold
<1> QED
  BY <1>1, <1>2, <1>3, <1>4, InitAward, InitContext, InitTold, TypesKept, PTL
  DEF Spec, AnnouncedBeforeSaved
=============================================================================
