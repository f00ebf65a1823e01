------------------------ MODULE GroupmeLedgerProofs ------------------------
(***************************************************************************)
(* Where the harm of overlapping calls ends.  However many calls the       *)
(* server runs at a time, one that nobody overtook takes effect on the     *)
(* ledger as if it had run alone, and points are lost only where a call    *)
(* that saved had been overtaken.                                          *)
(***************************************************************************)
EXTENDS GroupmeAnnounceProofs, GroupmeOvertakes

(* Whom a message awards or registers, counted over its first n mentions.  *)
Times(s, w, n) == Cardinality({k \in 1..n : s[k] = w})

Gain(d, w, n) ==
  IF Diff(msg[d].words) = 1 THEN Times(Mentions(d), w, n)
                            ELSE -Times(Mentions(d), w, n)

Enrolling(s, n) == {k \in 1..n : s[k] \notin Gabriels}

(* The list a holds the members the first n mentions register, in order.   *)
Entered(a, s, n) ==
  /\ Len(a) = Cardinality(Enrolling(s, n))
  /\ \A i \in 1..Len(a) :
       \E k \in Enrolling(s, n) : Cardinality(Enrolling(s, k)) = i /\ a[i] = s[k]

LEMMA TimesStep ==
  ASSUME NEW s, NEW w, NEW n \in Nat
  PROVE  /\ Times(s, w, n) \in Nat
         /\ Times(s, w, 0) = 0
         /\ Times(s, w, n + 1) = Times(s, w, n) + IF s[n + 1] = w THEN 1 ELSE 0
<1> DEFINE C(k) == {j \in 1..k : s[j] = w}
<1>1. IsFiniteSet(C(n))
  <2>1. IsFiniteSet(1..n)
    BY FS_Interval
  <2> QED
    BY <2>1, FS_Subset
<1>2. Cardinality(C(n)) \in Nat
  BY <1>1, FS_CardinalityType
<1>3. C(0) = {}
  OBVIOUS
<1>4. CASE s[n + 1] = w
  <2>1. C(n + 1) = C(n) \cup {n + 1} /\ n + 1 \notin C(n)
    BY <1>4
  <2> HIDE DEF C
  <2>2. Cardinality(C(n + 1)) = Cardinality(C(n)) + 1
    BY <1>1, <2>1, FS_AddElement
  <2> QED
    BY <1>2, <1>3, <1>4, <2>2, FS_EmptySet DEF Times, C
<1>5. CASE s[n + 1] # w
  <2>1. C(n + 1) = C(n)
    BY <1>5
  <2> HIDE DEF C
  <2>2. Cardinality(C(n + 1)) = Cardinality(C(n))
    BY <2>1
  <2> QED
    BY <1>2, <1>3, <1>5, <2>2, FS_EmptySet DEF Times, C
<1> QED
  BY <1>4, <1>5

LEMMA EnrollingFinite ==
  ASSUME NEW s, NEW n \in Nat
  PROVE  /\ IsFiniteSet(Enrolling(s, n)) /\ Cardinality(Enrolling(s, n)) \in Nat
         /\ Enrolling(s, 0) = {} /\ Cardinality(Enrolling(s, 0)) = 0
<1>1. IsFiniteSet(1..n)
  BY FS_Interval
<1>2. IsFiniteSet(Enrolling(s, n))
  BY <1>1, FS_Subset DEF Enrolling
<1>3. Enrolling(s, 0) = {}
  BY DEF Enrolling
<1> QED
  BY <1>2, <1>3, FS_CardinalityType, FS_EmptySet

LEMMA EnteredNone == ASSUME NEW s PROVE Entered(<<>>, s, 0)
<1>1. Len(<<>>) = 0
  BY EmptySeq
<1>2. Cardinality(Enrolling(s, 0)) = 0
  BY EnrollingFinite
<1> QED
  BY <1>1, <1>2 DEF Entered

(* One more mention: a member to register, or a Gabriel, who is left out.  *)
LEMMA EnteredStep ==
  ASSUME NEW a \in Seq(Member), NEW s, NEW n \in Nat, s[n + 1] \in Member,
         Entered(a, s, n)
  PROVE  Entered(IF s[n + 1] \in Gabriels THEN a ELSE Append(a, s[n + 1]), s, n + 1)
<1>1. CASE s[n + 1] \in Gabriels
  <2>1. Enrolling(s, n + 1) = Enrolling(s, n)
    BY <1>1 DEF Enrolling
  <2> QED
    BY <1>1, <2>1 DEF Entered
<1>2. CASE s[n + 1] \notin Gabriels
  <2> DEFINE b == Append(a, s[n + 1])
  <2>1. /\ Enrolling(s, n + 1) = Enrolling(s, n) \cup {n + 1}
        /\ n + 1 \notin Enrolling(s, n)
    BY <1>2 DEF Enrolling
  <2>2. Cardinality(Enrolling(s, n + 1)) = Cardinality(Enrolling(s, n)) + 1
    BY <2>1, EnrollingFinite, FS_AddElement
  <2>3. /\ Len(a) \in Nat /\ Len(b) = Len(a) + 1
        /\ \A i \in 1..Len(a) : b[i] = a[i]
        /\ b[Len(a) + 1] = s[n + 1]
    BY AppendProperties
  <2> HIDE DEF b
  <2>4. ASSUME NEW i \in 1..Len(b)
        PROVE  \E k \in Enrolling(s, n + 1) :
                 Cardinality(Enrolling(s, k)) = i /\ b[i] = s[k]
    <3>1. CASE i \in 1..Len(a)
      BY <2>1, <2>3, <3>1 DEF Entered
    <3>2. CASE i \notin 1..Len(a)
      <4>1. i = Len(a) + 1
        BY <2>3, <3>2
      <4> QED
        BY <2>1, <2>2, <2>3, <4>1 DEF Entered
    <3> QED
      BY <3>1, <3>2
  <2>5. Len(b) = Cardinality(Enrolling(s, n + 1))
    BY <2>2, <2>3 DEF Entered
  <2> QED
    BY <1>2, <2>4, <2>5 DEF Entered, b
<1> QED
  BY <1>1, <1>2

(* Two mentions that register have different ranks.                        *)
LEMMA RanksDiffer ==
  ASSUME NEW s, NEW n \in Nat, NEW j \in Enrolling(s, n), NEW k \in Enrolling(s, n),
         Cardinality(Enrolling(s, j)) = Cardinality(Enrolling(s, k))
  PROVE  j = k
<1>1. \A x, y \in Enrolling(s, n) :
        x < y => Cardinality(Enrolling(s, x)) # Cardinality(Enrolling(s, y))
  <2> SUFFICES ASSUME NEW x \in Enrolling(s, n), NEW y \in Enrolling(s, n), x < y
               PROVE  Cardinality(Enrolling(s, x)) # Cardinality(Enrolling(s, y))
    OBVIOUS
  <2>1. x \in Nat /\ y \in Nat
    BY DEF Enrolling
  <2>2. Enrolling(s, x) \subseteq Enrolling(s, y) /\ y \in Enrolling(s, y)
        /\ y \notin Enrolling(s, x)
    BY <2>1 DEF Enrolling
  <2>3. IsFiniteSet(Enrolling(s, y))
    BY <2>1, EnrollingFinite
  <2> QED
    BY <2>2, <2>3, FS_Subset
<1>2. j \in Nat /\ k \in Nat
  BY DEF Enrolling
<1> QED
  BY <1>1, <1>2

-----------------------------------------------------------------------------
(* How far a call is.                                                      *)
Open == Running \ {"andre", "postAndre"}

Enrolls(d) == Says(d, "register") /\ Named(d)

(* The mentions the merit loop, or the register loop, has handled.         *)
MeritDone(d) ==
  IF pc[d] \in Early THEN 0
  ELSE IF pc[d] = "merit" THEN line[d] - 1 ELSE Len(Mentions(d))

EntryDone(d) ==
  IF pc[d] \in {"log", "logging"} THEN 0
  ELSE IF pc[d] = "register" THEN line[d] - 1 ELSE Len(Mentions(d))

(* A loop begins with the first mention, the merit loop with an empty      *)
(* context.                                                                *)
LoopStarts(d) ==
  /\ pc[d] \in {"log", "logging", "postRegister", "postReminder"} => line[d] = 1
  /\ pc[d] = "register" /\ ~Enrolls(d) => line[d] = 1
  /\ pc[d] = "merit" /\ line[d] = 1 => cur[d] = <<>>

EnteredRight(d, n) ==
  Entered(added[d], Mentions(d), IF Enrolls(d) THEN n ELSE 0)

(* A row of a member the call awards, at which nobody has overtaken it, is *)
(* in the context as it is in the table, with the gain of the mentions so  *)
(* far.                                                                    *)
RowHeld(d, i, n) ==
  /\ Queried(d, seen)[i] = rows[i].pts
  /\ Queried(d, cur)[i] = rows[i].pts + Gain(d, rows[i].who, n)

HeldRight(d, n) ==
  \A i \in 1..Len(rows) :
    rows[i].who \in Mentioned(d) /\ <<d, i>> \notin overtaken => RowHeld(d, i, n)

CallHeld(d) ==
  /\ pc[d] \in Open => LoopStarts(d) /\ EnteredRight(d, EntryDone(d))
  /\ Holding(d) => HeldRight(d, MeritDone(d))

HeldInv == \A d \in Delivery : CallHeld(d)

(* A stuttering step records nothing.                                      *)
LEMMA StepRecord ==
  ASSUME Typed, [HNext]_<<vars, history>>
  PROVE  [Next]_vars /\ Record
<1>1. CASE HNext
  BY <1>1 DEF HNext
<1>2. CASE UNCHANGED <<vars, history>>
  <2>1. rows' = rows /\ pc' = pc /\ overtaken' = overtaken /\ saved' = saved
    BY <1>2 DEF vars, history
  <2>2. \A d \in Delivery : Overtaking(d) = {}
    BY <2>1 DEF Overtaking, Typed
  <2>3. \A d \in Delivery : ~Saves(d)
    BY <2>1 DEF Saves
  <2> QED
    BY <1>2, <2>1, <2>2, <2>3 DEF Record
<1> QED
  BY <1>1, <1>2

(* Whoever writes a row that a call holds is recorded.                     *)
LEMMA RowKept ==
  ASSUME Typed, Typed', Record, NEW d \in Delivery, Holding(d), ~Saves(d),
         NEW i \in 1..Len(rows'), <<d, i>> \notin overtaken',
         rows'[i].who \in Mentioned(d)
  PROVE  i \in 1..Len(rows) /\ rows'[i].pts = rows[i].pts /\ <<d, i>> \notin overtaken
<1>1. {d} \X Overtaking(d) \subseteq overtaken' /\ overtaken \subseteq overtaken'
  BY DEF Record
<1>2. i \notin Overtaking(d)
  <2>1. i \in Overtaking(d) => <<d, i>> \in {d} \X Overtaking(d)
    OBVIOUS
  <2> QED
    BY <1>1, <2>1
<1>3. Len(rows) \in Nat /\ Len(rows') \in Nat
  <2>1. Len(rows) \in Nat
    BY DEF Typed
  <2>2. Len(rows') \in Nat
    BY DEF Typed
  <2> QED
    BY <2>1, <2>2
<1>4. ~(i > Len(rows) \/ rows'[i].pts # rows[i].pts)
  BY <1>2 DEF Overtaking
<1>5. i \in 1..Len(rows)
  BY ONLY <1>3, <1>4
<1> QED
  BY <1>1, <1>4, <1>5

(* An empty context sees the table.                                        *)
LEMMA EmptyContext ==
  ASSUME Typed, ContextInv, NEW d \in Delivery, cur[d] = <<>>
  PROVE  \A i \in 1..Len(rows) :
           Queried(d, cur)[i] = rows[i].pts /\ Queried(d, seen)[i] = rows[i].pts
<1>1. Len(cur[d]) = 0 /\ Len(seen[d]) = 0
  BY EmptySeq DEF ContextInv
<1>2. Len(rows) \in Nat
  BY DEF Typed
<1> QED
  BY <1>1, <1>2 DEF Queried

LEMMA GainType ==
  ASSUME NEW d \in Delivery, NEW w, NEW n \in Nat
  PROVE  Gain(d, w, n) \in Int /\ Gain(d, w, 0) = 0
BY TimesStep DEF Gain

LEMMA DoneType ==
  ASSUME Typed, NEW d \in Delivery
  PROVE  MeritDone(d) \in Nat
<1>1. Mentions(d) \in Seq(Member)
  BY DEF Typed, Mentions, Incoming
<1>2. Len(Mentions(d)) \in Nat /\ line[d] - 1 \in Nat
  BY <1>1 DEF Typed
<1> QED
  BY <1>2 DEF MeritDone

(* A call whose context does not change, whatever the others write.        *)
LEMMA HeldFrame ==
  ASSUME Typed, Typed', Record, Grows, NEW d \in Delivery, Holding(d), ~Saves(d),
         NEW n \in Nat, HeldRight(d, n),
         msg'[d] = msg[d], cur'[d] = cur[d], seen'[d] = seen[d]
  PROVE  HeldRight(d, n)'
<1> SUFFICES ASSUME NEW i \in 1..Len(rows'), rows'[i].who \in Mentioned(d)',
                    <<d, i>> \notin overtaken'
             PROVE  RowHeld(d, i, n)'
  BY DEF HeldRight
<1>1. Mentions(d)' = Mentions(d) /\ Mentioned(d)' = Mentioned(d)
  BY DEF Mentions, Mentioned
<1>2. i \in 1..Len(rows) /\ rows'[i].pts = rows[i].pts /\ <<d, i>> \notin overtaken
  BY <1>1, RowKept
<1>3. rows'[i].who = rows[i].who
  BY <1>2 DEF Grows
<1>4. RowHeld(d, i, n)
  BY <1>1, <1>2, <1>3 DEF HeldRight
<1>5. /\ Queried(d, cur)'[i] = Queried(d, cur)[i]
      /\ Queried(d, seen)'[i] = Queried(d, seen)[i]
  BY <1>2 DEF Queried
<1>6. Gain(d, rows[i].who, n)' = Gain(d, rows[i].who, n)
  <2>1. rows[i].who' = rows[i].who
    BY <1>3
  <2> QED
    BY <1>1, <2>1 DEF Gain
<1> QED
  BY <1>2, <1>3, <1>4, <1>5, <1>6 DEF RowHeld

(* A step of another call.                                                 *)
LEMMA OthersHeld ==
  ASSUME Typed, Typed', Record, HeldInv, Grows, NEW d \in Delivery,
         pc'[d] = pc[d], msg'[d] = msg[d], line'[d] = line[d], cur'[d] = cur[d],
         seen'[d] = seen[d], added'[d] = added[d]
  PROVE  CallHeld(d)'
<1>1. CallHeld(d)
  BY DEF HeldInv
<1>2. /\ Mentions(d)' = Mentions(d) /\ Enrolls(d)' = Enrolls(d)
      /\ MeritDone(d)' = MeritDone(d) /\ EntryDone(d)' = EntryDone(d)
      /\ Holding(d)' = Holding(d)
  BY DEF Mentions, Enrolls, Says, Named, MeritDone, EntryDone, Holding, Awards
<1>3. (pc[d] \in Open => LoopStarts(d) /\ EnteredRight(d, EntryDone(d)))'
  BY <1>1, <1>2 DEF CallHeld, LoopStarts, EnteredRight
<1>4. ASSUME Holding(d)
      PROVE  HeldRight(d, MeritDone(d))'
  <2>1. PICK n : n = MeritDone(d)
    OBVIOUS
  <2>2. n \in Nat
    BY <2>1, DoneType
  <2>3. ~Saves(d)
    BY DEF Saves
  <2>4. HeldRight(d, n)
    BY <1>1, <1>4, <2>1 DEF CallHeld
  <2>5. HeldRight(d, n)'
    BY <1>4, <2>2, <2>3, <2>4, HeldFrame
  <2> QED
    BY <1>2, <2>1, <2>5
<1> QED
  BY <1>2, <1>3, <1>4 DEF CallHeld

LEMMA ReceiveHeld ==
  ASSUME Typed, Typed', LineOK, ContextInv, ToldInv, HeldInv, Record,
         NEW d \in Delivery, NEW m, Receive(d, m)
  PROVE  HeldInv'
<1>1. /\ UNCHANGED <<rows, line, seen, cur, added>>
      /\ pc[d] = "waiting" /\ pc'[d] = "log" /\ msg'[d] = m
      /\ \A e \in Delivery \ {d} : pc'[e] = pc[e] /\ msg'[e] = msg[e]
  BY DEF Typed, Receive, Goto
<1>2. line[d] = 1 /\ added[d] = <<>>
  BY <1>1 DEF LineOK, ToldInv, CallEntered, Silent
<1>3. CallHeld(d)'
  <2>1. LoopStarts(d)' /\ ~Holding(d)'
    BY <1>1, <1>2 DEF LoopStarts, Holding
  <2>2. EntryDone(d)' = 0
    BY <1>1 DEF EntryDone
  <2>3. EnteredRight(d, 0)'
    <3>1. PICK s : s = Mentions(d)'
      OBVIOUS
    <3>2. Entered(<<>>, s, 0)
      BY EnteredNone
    <3> QED
      BY <1>1, <1>2, <3>1, <3>2 DEF EnteredRight
  <2> QED
    BY <2>1, <2>2, <2>3 DEF CallHeld
<1>4. Grows
  BY <1>1 DEF Grows, Typed
<1>5. ASSUME NEW e \in Delivery \ {d}
      PROVE  CallHeld(e)'
  BY <1>1, <1>4, OthersHeld
<1> QED
  BY <1>3, <1>5 DEF HeldInv

(* The steps that leave the rows and the loops as they are.                *)
Quiet(d) == \/ LogLoad(d) \/ LogStore(d) \/ LogThrows(d) \/ Skip(d)
            \/ Post(d) \/ PostFails(d)

LEMMA QuietMoves ==
  ASSUME Typed, AwardInv, HeldInv, NEW d \in Delivery, Quiet(d), pc'[d] \in Open
  PROVE  /\ pc[d] \in Open /\ LoopStarts(d)'
         /\ Awards(d) => MeritDone(d)' = MeritDone(d)
         /\ Holding(d)' => Holding(d)
         /\ Enrolls(d) => EntryDone(d)' = EntryDone(d)
<1>1. msg' = msg /\ line' = line /\ cur' = cur
  BY DEF Quiet, LogLoad, LogStore, LogThrows, Skip, RegisterSkip, RegisterReminder,
         RegisterNobody, MeritSkip, MeritNobody, ScoreSkip, SaveFails, Andre, Post,
         PostFails, locals
<1>2. /\ Enrolls(d)' = Enrolls(d) /\ Awards(d)' = Awards(d)
      /\ Mentions(d)' = Mentions(d)
  BY <1>1 DEF Enrolls, Awards, Says, Named, Mentions
<1>3. line[d] \in Int
  BY DEF Typed
<1>4. pc[d] \in Early => cur[d] = <<>>
  BY DEF AwardInv, CallAward
<1>5. CASE LogLoad(d) \/ LogStore(d) \/ LogThrows(d)
  <2>1. \/ pc[d] = "log" /\ pc'[d] = "logging"
        \/ pc[d] = "logging" /\ pc'[d] = "register"
    BY <1>5 DEF LogLoad, LogStore, LogThrows, Goto, Typed, Open, Running, Posting
  <2>2. line[d] = 1
    BY <2>1 DEF HeldInv, CallHeld, LoopStarts, Open, Running
  <2> QED
    BY <1>1, <1>2, <2>1, <2>2 DEF MeritDone, EntryDone, LoopStarts, Holding, Early,
                                  Open, Running, Posting
<1>6. CASE RegisterSkip(d) \/ RegisterReminder(d) \/ RegisterNobody(d)
  <2>1. /\ pc[d] = "register" /\ ~Enrolls(d)
        /\ pc'[d] \in {"merit", "postReminder", "postRegister"}
    BY <1>6 DEF RegisterSkip, RegisterReminder, RegisterNobody, Goto, Typed, Enrolls,
                Tagged
  <2>2. line[d] = 1
    BY <2>1 DEF HeldInv, CallHeld, LoopStarts, Open, Running
  <2> QED
    BY <1>1, <1>2, <1>4, <2>1, <2>2 DEF MeritDone, LoopStarts, Holding, Early, Open,
                                        Running, Posting
<1>7. CASE MeritSkip(d) \/ MeritNobody(d) \/ ScoreSkip(d) \/ SaveFails(d) \/ Andre(d)
  <2>1. \/ pc[d] = "merit" /\ pc'[d] \in {"score", "postMerit"} /\ ~Awards(d)
        \/ pc[d] = "score" /\ pc'[d] = "save"
    BY <1>7 DEF MeritSkip, MeritNobody, ScoreSkip, SaveFails, Andre, Goto, Typed, Open,
                Running, Posting, Awards, Tagged
  <2> QED
    BY <1>1, <1>2, <2>1 DEF MeritDone, EntryDone, LoopStarts, Holding, Early, Open,
                            Running, Posting
<1>8. CASE Post(d) \/ PostFails(d)
  <2>1. pc[d] \in Posting /\ pc'[d] = AfterPost[pc[d]]
    BY <1>8 DEF Post, PostFails, Goto, Typed, Open, Running, Posting
  <2>2. \/ pc[d] \in {"postRegister", "postReminder"} /\ pc'[d] = "merit"
        \/ pc[d] = "postMerit" /\ pc'[d] = "score"
        \/ pc[d] = "postScore" /\ pc'[d] = "save"
    BY <2>1 DEF AfterPost, Posting, Open, Running
  <2>3. pc[d] \in {"postRegister", "postReminder"} => line[d] = 1
    BY DEF HeldInv, CallHeld, LoopStarts, Open, Running, Posting
  <2> QED
    BY <1>1, <1>2, <1>4, <2>2, <2>3 DEF MeritDone, EntryDone, LoopStarts, Holding,
                                        Early, Open, Running, Posting
<1> QED
  BY <1>5, <1>6, <1>7, <1>8 DEF Quiet, Skip

LEMMA QuietHeld ==
  ASSUME Typed, Typed', AwardInv, HeldInv, Record, NEW d \in Delivery, Quiet(d)
  PROVE  CallHeld(d)'
<1>1. UNCHANGED <<rows, msg, seen, cur, added>>
  BY DEF Quiet, LogLoad, LogStore, LogThrows, Skip, RegisterSkip, RegisterReminder,
         RegisterNobody, MeritSkip, MeritNobody, ScoreSkip, SaveFails, Andre, Post,
         PostFails, table, locals
<1>2. ASSUME pc'[d] \in Open
      PROVE  /\ pc[d] \in Open /\ LoopStarts(d)'
             /\ Awards(d) => MeritDone(d)' = MeritDone(d)
             /\ Holding(d)' => Holding(d)
             /\ Enrolls(d) => EntryDone(d)' = EntryDone(d)
  BY <1>2, QuietMoves
<1>3. CallHeld(d)
  BY DEF HeldInv
<1>4. /\ Enrolls(d)' = Enrolls(d) /\ Mentions(d)' = Mentions(d)
  BY <1>1 DEF Enrolls, Says, Named, Mentions
<1>5. ASSUME pc'[d] \in Open
      PROVE  EnteredRight(d, EntryDone(d))'
  BY <1>1, <1>2, <1>3, <1>4, <1>5 DEF CallHeld, EnteredRight
<1>6. ASSUME Holding(d)'
      PROVE  HeldRight(d, MeritDone(d))'
  <2>1. pc'[d] \in Open
    BY <1>6 DEF Holding, Open, Running, Posting
  <2>2. Holding(d) /\ MeritDone(d)' = MeritDone(d)
    BY <1>2, <1>6, <2>1 DEF Holding
  <2>3. PICK n : n = MeritDone(d)
    OBVIOUS
  <2>4. n \in Nat /\ HeldRight(d, n)
    <3>1. n \in Nat
      BY <2>3, DoneType
    <3> QED
      BY <1>3, <2>2, <2>3, <3>1 DEF CallHeld
  <2>5. ~Saves(d) /\ Grows
    BY <1>1, <2>1 DEF Saves, Open, Grows, Typed
  <2>6. HeldRight(d, n)'
    BY <1>1, <2>2, <2>4, <2>5, HeldFrame
  <2> QED
    BY <2>2, <2>3, <2>6
<1> QED
  BY <1>2, <1>5, <1>6 DEF CallHeld

(* One mention of the register loop.                                       *)
LEMMA RegisterHeld ==
  ASSUME Typed, LineOK, HeldInv, NEW d \in Delivery, Register(d)
  PROVE  CallHeld(d)'
<1> DEFINE who == Mentions(d)[line[d]]
<1>1. msg' = msg /\ pc[d] = "register" /\ Enrolls(d)
  BY DEF Register, table, Enrolls
<1>2. line[d] \in 1..Len(Mentions(d)) /\ Len(Mentions(d)) \in Nat /\ who \in Member
  <2>1. Mentions(d) \in Seq(Member)
    BY DEF Typed, Mentions, Incoming
  <2>2. Len(Mentions(d)) \in Nat \ {0}
    BY <1>1, <2>1, EmptySeq DEF Enrolls, Named
  <2>3. line[d] \in 1..Len(Mentions(d))
    BY <1>1, <2>2 DEF Typed, LineOK
  <2> QED
    BY <2>1, <2>2, <2>3, ElementOfSeq
<1>3. /\ pc'[d] = (IF line[d] = Len(Mentions(d)) THEN "postRegister" ELSE "register")
      /\ line'[d] = (IF line[d] = Len(Mentions(d)) THEN 1 ELSE line[d] + 1)
      /\ added'[d] = (IF who \in Gabriels THEN added[d] ELSE Append(added[d], who))
  BY DEF Register, Turn, Goto, Typed
<1>4. EnteredRight(d, EntryDone(d))
  BY <1>1 DEF HeldInv, CallHeld, Open, Running
<1>5. Enrolls(d)' = Enrolls(d) /\ Mentions(d)' = Mentions(d)
  BY <1>1 DEF Enrolls, Says, Named, Mentions
<1>6. LoopStarts(d)' /\ ~Holding(d)'
  BY <1>1, <1>3, <1>5 DEF LoopStarts, Holding
<1>7. EnteredRight(d, EntryDone(d))'
  <2>1. EntryDone(d) = line[d] - 1 /\ EntryDone(d)' = line[d]
    BY <1>1, <1>2, <1>3, <1>5 DEF EntryDone
  <2>2. Entered(added[d], Mentions(d), line[d] - 1)
    BY <1>1, <1>4, <2>1 DEF EnteredRight
  <2>3. added[d] \in Seq(Member) /\ line[d] - 1 \in Nat /\ (line[d] - 1) + 1 = line[d]
    BY <1>2 DEF Typed
  <2>4. Entered(added'[d], Mentions(d), line[d])
    BY <1>2, <1>3, <2>2, <2>3, EnteredStep
  <2> QED
    BY <1>1, <1>5, <2>1, <2>4 DEF EnteredRight
<1> QED
  BY <1>6, <1>7 DEF CallHeld

(* A query that finds what the context has leaves the held rows as they    *)
(* are.                                                                    *)
LEMMA Requeried ==
  ASSUME Typed, rows' = rows, NEW d \in Delivery,
         NEW p \in [1..Len(rows) -> Int],
         cur'[d] = p, seen'[d] = Queried(d, seen)
  PROVE  \A i \in 1..Len(rows) : /\ Queried(d, cur)'[i] = p[i]
                                  /\ Queried(d, seen)'[i] = Queried(d, seen)[i]
<1>1. Len(rows) \in Nat
  BY DEF Typed
<1>2. Queried(d, seen) \in [1..Len(rows) -> Int]
  BY QueriedType DEF Typed
<1>3. Len(p) = Len(rows) /\ Len(Queried(d, seen)) = Len(rows)
  BY <1>1, <1>2, RowValues
<1>4. /\ Queried(d, cur)' =
           [i \in 1..Len(rows') |->
              IF i <= Len(cur'[d]) THEN cur'[d][i] ELSE rows'[i].pts]
      /\ Queried(d, seen)' =
           [i \in 1..Len(rows') |->
              IF i <= Len(seen'[d]) THEN seen'[d][i] ELSE rows'[i].pts]
  BY DEF Queried
<1> QED
  BY <1>1, <1>3, <1>4

(* One more mention gains one more point for its member.                   *)
LEMMA GainStep ==
  ASSUME NEW d \in Delivery, NEW w, NEW n \in Nat
  PROVE  /\ Gain(d, w, n) \in Int
         /\ Gain(d, w, n + 1) =
              Gain(d, w, n) + IF Mentions(d)[n + 1] = w THEN Diff(msg[d].words) ELSE 0
<1> PICK s, x : s = Mentions(d) /\ x = Diff(msg[d].words)
  OBVIOUS
<1>1. /\ Times(s, w, n) \in Nat
      /\ Times(s, w, n + 1) = Times(s, w, n) + IF s[n + 1] = w THEN 1 ELSE 0
  BY TimesStep
<1>2. x = 1 \/ x = -1
  BY DEF Diff
<1>3. \A k : Gain(d, w, k) = IF x = 1 THEN Times(s, w, k) ELSE -Times(s, w, k)
  BY DEF Gain
<1> QED
  BY <1>1, <1>2, <1>3

(* One mention of the merit loop.                                          *)
LEMMA MeritHeld ==
  ASSUME Typed, Typed', LineOK, ContextInv, HeldInv, Record, NEW d \in Delivery,
         Merit(d)
  PROVE  CallHeld(d)'
<1> DEFINE who == Mentions(d)[line[d]]
           diff == Diff(msg[d].words)
           points == Awarded(who, msg[d].words, Queried(d, cur))
           n == line[d] - 1
<1>1. UNCHANGED <<rows, msg, added>> /\ pc[d] = "merit" /\ Awards(d)
  BY DEF Merit, table, Awards
<1>2. line[d] \in 1..Len(Mentions(d)) /\ Len(Mentions(d)) \in Nat
  <2>1. Mentions(d) \in Seq(Member)
    BY DEF Typed, Mentions, Incoming
  <2>2. Len(Mentions(d)) \in Nat \ {0}
    BY <1>1, <2>1, EmptySeq DEF Awards, Named
  <2> QED
    BY <1>1, <2>2 DEF Typed, LineOK
<1>3. /\ pc'[d] = (IF line[d] = Len(Mentions(d)) THEN "postMerit" ELSE "merit")
      /\ line'[d] = (IF line[d] = Len(Mentions(d)) THEN 1 ELSE line[d] + 1)
      /\ cur'[d] = points /\ seen'[d] = Queried(d, seen)
  BY DEF Merit, Turn, Goto, Typed
<1>4. LoopStarts(d) /\ EnteredRight(d, EntryDone(d))
  BY <1>1 DEF HeldInv, CallHeld, Open, Running
<1>5. /\ Awards(d)' = Awards(d) /\ Enrolls(d)' = Enrolls(d)
      /\ Mentions(d)' = Mentions(d) /\ Mentioned(d)' = Mentioned(d)
      /\ \A w, k : Gain(d, w, k)' = Gain(d, w, k)
  BY <1>1 DEF Awards, Enrolls, Says, Named, Mentions, Mentioned, Gain
<1>6. /\ Queried(d, cur) \in [1..Len(rows) -> Int] /\ points \in [1..Len(rows) -> Int]
  BY QueriedType, AwardedType DEF Typed
<1>7. \A i \in 1..Len(rows) : /\ Queried(d, cur)'[i] = points[i]
                              /\ Queried(d, seen)'[i] = Queried(d, seen)[i]
  <2> HIDE DEF points
  <2> QED
    BY <1>1, <1>3, <1>6, Requeried
<1>8. n \in Nat /\ n + 1 = line[d] /\ MeritDone(d)' = n + 1
  BY <1>1, <1>2, <1>3, <1>5 DEF MeritDone, Early
<1>9. HeldRight(d, n)
  <2>1. CASE line[d] = 1
    <3>1. \A i \in 1..Len(rows) :
            Queried(d, cur)[i] = rows[i].pts /\ Queried(d, seen)[i] = rows[i].pts
      BY <1>1, <1>4, <2>1, EmptyContext DEF LoopStarts
    <3>2. n = 0 /\ \A w : Gain(d, w, 0) = 0
      BY <2>1, GainType
    <3>3. \A i \in 1..Len(rows) : rows[i].pts \in Int
      BY RowPoints
    <3> HIDE DEF n
    <3> QED
      BY <3>1, <3>2, <3>3 DEF HeldRight, RowHeld
  <2>2. CASE line[d] # 1
    <3>1. Holding(d)
      BY <1>1, <1>2, <2>2 DEF Holding
    <3>2. MeritDone(d) = n
      BY <1>1 DEF MeritDone, Early
    <3> HIDE DEF n
    <3> QED
      BY <3>1, <3>2 DEF HeldInv, CallHeld
  <2> QED
    BY <2>1, <2>2
<1>10. HeldRight(d, MeritDone(d))'
  <2> SUFFICES ASSUME NEW i \in 1..Len(rows), rows[i].who \in Mentioned(d),
                      <<d, i>> \notin overtaken'
               PROVE  /\ Queried(d, seen)[i] = rows[i].pts
                      /\ points[i] = rows[i].pts + Gain(d, rows[i].who, n + 1)
    <3> HIDE DEF points, n
    <3> QED
      BY <1>1, <1>5, <1>7, <1>8 DEF HeldRight, RowHeld
  <2>1. overtaken \subseteq overtaken'
    BY DEF Record
  <2>2. RowHeld(d, i, n)
    BY <1>9, <2>1 DEF HeldRight
  <2> PICK w : w = rows[i].who
    OBVIOUS
  <2>3. points[i] = IF w = who THEN Queried(d, cur)[i] + diff ELSE Queried(d, cur)[i]
    BY DEF Awarded
  <2> HIDE DEF n
  <2>4. /\ Gain(d, w, n) \in Int
        /\ Gain(d, w, n + 1) =
             Gain(d, w, n) + IF Mentions(d)[n + 1] = w THEN Diff(msg[d].words) ELSE 0
    BY <1>8, GainStep
  <2>5. Mentions(d)[n + 1] = who /\ (diff = 1 \/ diff = -1)
    BY <1>8 DEF Diff
  <2>6. rows[i].pts \in Int
    BY RowPoints
  <2> HIDE DEF points, diff, who
  <2>7. points[i] = rows[i].pts + Gain(d, w, n + 1)
    BY <2>2, <2>3, <2>4, <2>5, <2>6 DEF RowHeld, diff
  <2> QED
    BY <2>2, <2>7 DEF RowHeld
<1>11. LoopStarts(d)'
  BY <1>1, <1>2, <1>3 DEF LoopStarts
<1>12. EnteredRight(d, EntryDone(d))'
  <2>1. EntryDone(d)' = EntryDone(d)
    BY <1>1, <1>3, <1>5 DEF EntryDone
  <2> QED
    BY <1>1, <1>4, <1>5, <2>1 DEF EnteredRight
<1> QED
  BY <1>10, <1>11, <1>12 DEF CallHeld

LEMMA ScoreHeld ==
  ASSUME Typed, Typed', HeldInv, Record, NEW d \in Delivery, Score(d)
  PROVE  CallHeld(d)'
<1>1. UNCHANGED <<rows, msg, line, added>> /\ pc[d] = "score" /\ pc'[d] = "postScore"
  BY DEF Score, Goto, Typed, table
<1>2. cur'[d] = Queried(d, cur) /\ seen'[d] = Queried(d, seen)
  BY DEF Score, Typed
<1>3. CallHeld(d) /\ EnteredRight(d, EntryDone(d))
  BY <1>1 DEF HeldInv, CallHeld, Open, Running, Posting
<1>4. /\ Holding(d)' = Holding(d) /\ Enrolls(d)' = Enrolls(d)
      /\ Mentions(d)' = Mentions(d) /\ Mentioned(d)' = Mentioned(d)
      /\ \A w, k : Gain(d, w, k)' = Gain(d, w, k)
  BY <1>1 DEF Holding, Awards, Enrolls, Says, Named, Mentions, Mentioned, Gain
<1>5. \A i \in 1..Len(rows) : /\ Queried(d, cur)'[i] = Queried(d, cur)[i]
                              /\ Queried(d, seen)'[i] = Queried(d, seen)[i]
  <2>1. Queried(d, cur) \in [1..Len(rows) -> Int]
    BY QueriedType DEF Typed
  <2> QED
    BY <1>1, <1>2, <2>1, Requeried
<1>6. MeritDone(d)' = MeritDone(d) /\ EntryDone(d)' = EntryDone(d)
  BY <1>1, <1>4 DEF MeritDone, EntryDone, Early
<1>7. LoopStarts(d)'
  BY <1>1 DEF LoopStarts
<1>8. EnteredRight(d, EntryDone(d))'
  BY <1>1, <1>3, <1>4, <1>6 DEF EnteredRight
<1>9. overtaken \subseteq overtaken'
  BY DEF Record
<1>10. ASSUME Holding(d)
       PROVE  HeldRight(d, MeritDone(d))'
  <2>1. HeldRight(d, MeritDone(d))
    BY <1>3, <1>10 DEF CallHeld
  <2> QED
    BY <1>1, <1>4, <1>5, <1>6, <1>9, <2>1 DEF HeldRight, RowHeld
<1> QED
  BY <1>4, <1>7, <1>8, <1>10 DEF CallHeld

LEMMA InitHeld == Init => HeldInv
BY DEF Init, HeldInv, CallHeld, Holding, Open, Running, Posting

LEMMA LineAlone ==
  ASSUME Typed, NEW d \in Delivery, Step(d)
  PROVE  \A e \in Delivery \ {d} : line'[e] = line[e]
BY DEF Step, LogLoad, LogStore, LogThrows, RegisterSkip, RegisterReminder,
   RegisterNobody, Register, Turn, MeritSkip, MeritNobody, Merit, Score, ScoreSkip,
   Post, PostFails, Save, SaveFails, Andre, Typed, locals

LEMMA NextHeld ==
  ASSUME Typed, Typed', LineOK, ContextInv, AwardInv, ToldInv, HeldInv, [Next]_vars,
         Record
  PROVE  HeldInv'
<1>1. ASSUME NEW d \in Delivery, Deliver(d) \/ Echo(d)
      PROVE  HeldInv'
  <2>1. \E m : Receive(d, m)
    BY <1>1 DEF Deliver, Echo
  <2> QED
    BY <2>1, ReceiveHeld
<1>2. ASSUME NEW d \in Delivery, Step(d)
      PROVE  HeldInv'
  <2>1. CallHeld(d)'
    <3>1. CASE Merit(d)
      BY <3>1, MeritHeld
    <3>2. CASE Score(d)
      BY <3>2, ScoreHeld
    <3>3. CASE Register(d)
      BY <3>3, RegisterHeld
    <3>4. CASE Quiet(d)
      BY <3>4, QuietHeld
    <3>5. CASE Save(d)
      BY <3>5 DEF Save, Goto, Typed, CallHeld, Holding, Open
    <3> QED
      BY <1>2, <3>1, <3>2, <3>3, <3>4, <3>5 DEF Step, Quiet, Skip
  <2>2. ASSUME NEW e \in Delivery \ {d}
        PROVE  CallHeld(e)'
    BY <1>2, LineAlone, StepAlone, OthersHeld
  <2> QED
    BY <2>1, <2>2 DEF HeldInv
<1>3. CASE Restart \/ UNCHANGED vars
  <2>1. /\ UNCHANGED <<rows, msg, line, cur, seen, added>>
        /\ \A e \in Delivery : pc'[e] = pc[e] \/ pc'[e] = "failed"
    BY <1>3 DEF Restart, table, locals, vars, Typed
  <2>2. Grows
    BY <2>1 DEF Grows, Typed
  <2>3. ASSUME NEW e \in Delivery
        PROVE  CallHeld(e)'
    <3>1. CASE pc'[e] = pc[e]
      BY <2>1, <2>2, <3>1, OthersHeld
    <3>2. CASE pc'[e] = "failed"
      BY <3>2 DEF CallHeld, Holding, Open, Running, Posting
    <3> QED
      BY <2>1, <3>1, <3>2
  <2> QED
    BY <2>3 DEF HeldInv
<1> QED
  BY <1>1, <1>2, <1>3 DEF Next

-----------------------------------------------------------------------------
(* A table as the ledger of PointsLedger.                                  *)
Entries(r) == [i \in 1..Len(r) |-> [who |-> r[i].who, pts |-> r[i].pts]]
Entry == [who : Member, pts : Int]

LEMMA EntriesType ==
  ASSUME NEW r \in Seq(Row)
  PROVE  /\ Len(r) \in Nat /\ Entries(r) \in Seq(Entry) /\ Len(Entries(r)) = Len(r)
         /\ \A i \in 1..Len(r) : /\ r[i].who \in Member /\ r[i].pts \in Int
                                 /\ Entries(r)[i] = [who |-> r[i].who,
                                                     pts |-> r[i].pts]
<1>1. Len(r) \in Nat
  OBVIOUS
<1>2. \A i \in 1..Len(r) : r[i].who \in Member /\ r[i].pts \in Int
  <2>1. \A i \in 1..Len(r) : r[i] \in Row
    BY ElementOfSeq
  <2> QED
    BY <2>1 DEF Row
<1>3. Entries(r) \in [1..Len(r) -> Entry]
  BY <1>2 DEF Entries, Entry
<1>4. Entries(r) \in Seq(Entry) /\ Len(Entries(r)) = Len(r)
  <2> HIDE DEF Entry
  <2> QED
    BY <1>1, <1>3
<1> QED
  BY <1>1, <1>2, <1>4 DEF Entries

(* PointsLedger counts as GroupmeBot does.                                 *)
LEMMA SameSize == \A S : Ledger!Cardinality(S) = Cardinality(S)
BY DEF Cardinality, Ledger!Cardinality

(* What the ledger appends is what the call has collected.                 *)
LEMMA NewMembersEntered ==
  ASSUME NEW m, m.mentions \in Seq(Member), NEW a \in Seq(Member),
         Entered(a, m.mentions, Len(m.mentions))
  PROVE  /\ Ledger!NewMembers(m) \in Seq(Entry)
         /\ Len(Ledger!NewMembers(m)) = Len(a)
         /\ \A k \in 1..Len(a) : Ledger!NewMembers(m)[k] = [who |-> a[k], pts |-> 0]
<1> DEFINE s == m.mentions
           n == Len(m.mentions)
           K == Ledger!NewMentions(m)
           Nth(i) == CHOOSE k \in K : Ledger!Cardinality({j \in K : j <= k}) = i
<1>1. s \in Seq(Member) /\ n \in Nat
  OBVIOUS
<1>2. Ledger!NewMembers(m) =
        [i \in 1..Ledger!Cardinality(K) |-> [who |-> s[Nth(i)], pts |-> 0]]
  BY DEF Ledger!NewMembers
<1>3. K = Enrolling(s, n)
  BY DEF Ledger!NewMentions, Enrolling
<1>4. ASSUME NEW k \in K
      PROVE  Ledger!Cardinality({j \in K : j <= k}) = Cardinality(Enrolling(s, k))
  <2>1. {j \in K : j <= k} = Enrolling(s, k)
    BY <1>1, <1>3 DEF Enrolling
  <2> QED
    BY <2>1, SameSize
<1>5. Len(a) \in Nat /\ Ledger!Cardinality(K) = Len(a)
  BY <1>3, SameSize DEF Entered
<1>6. ASSUME NEW i \in 1..Len(a)
      PROVE  s[Nth(i)] = a[i]
  <2>1. PICK k \in K : Cardinality(Enrolling(s, k)) = i /\ a[i] = s[k]
    BY <1>3 DEF Entered
  <2>2. Ledger!Cardinality({j \in K : j <= k}) = i
    BY <1>4, <2>1
  <2>3. Nth(i) \in K /\ Ledger!Cardinality({j \in K : j <= Nth(i)}) = i
    BY <2>2
  <2>4. Nth(i) = k
    <3> HIDE DEF Nth, K, s, n
    <3>1. Cardinality(Enrolling(s, Nth(i))) = Cardinality(Enrolling(s, k))
      BY <1>4, <2>1, <2>3
    <3>2. Nth(i) \in Enrolling(s, n) /\ k \in Enrolling(s, n)
      BY <1>3, <2>1, <2>3
    <3> QED
      BY <1>1, <3>1, <3>2, RanksDiffer
  <2> QED
    BY <2>1, <2>4
<1> HIDE DEF K, Nth, s
<1>7. Ledger!NewMembers(m) = [i \in 1..Len(a) |-> [who |-> a[i], pts |-> 0]]
  BY <1>2, <1>5, <1>6
<1>8. [i \in 1..Len(a) |-> [who |-> a[i], pts |-> 0]] \in [1..Len(a) -> Entry]
  BY <1>5, ElementOfSeq DEF Entry
<1> QED
  BY <1>5, <1>7, <1>8

LEMMA AwardGains ==
  ASSUME Typed, NEW d \in Delivery, NEW i \in 1..Len(rows)
  PROVE  Ledger!Award(msg[d])[i] =
           [who |-> rows[i].who,
            pts |-> rows[i].pts + Gain(d, rows[i].who, Len(Mentions(d)))]
<1> DEFINE m == msg[d]
           t == Times(m.mentions, rows[i].who, Len(m.mentions))
           e == Entries(rows)[i]
           sign == IF "demerit" \in m.words THEN -1 ELSE 1
<1>1. /\ Len(Entries(rows)) = Len(rows) /\ rows[i].pts \in Int
      /\ e = [who |-> rows[i].who, pts |-> rows[i].pts]
  BY EntriesType DEF Typed
<1>2. t \in Nat
  <2>1. Mentions(d) \in Seq(Member)
    BY DEF Typed, Mentions, Incoming
  <2>2. Len(m.mentions) \in Nat
    BY <2>1 DEF Mentions
  <2> QED
    BY <2>2, TimesStep
<1>3. Ledger!Award(m)[i] = [e EXCEPT !.pts = @ + Ledger!Mentions(m, e.who) * sign]
  <2>1. Ledger!Award(m) =
          [j \in 1..Len(Entries(rows)) |->
             [Entries(rows)[j] EXCEPT
                !.pts = @ + Ledger!Mentions(m, Entries(rows)[j].who) * sign]]
    BY DEF Ledger!Award, Entries
  <2> QED
    BY <1>1, <2>1
<1>4. Ledger!Mentions(m, e.who) = t
  BY <1>1, SameSize DEF Ledger!Mentions, Times
<1>5. Gain(d, rows[i].who, Len(Mentions(d))) = t * sign
  <2>1. Gain(d, rows[i].who, Len(Mentions(d))) = IF sign = 1 THEN t ELSE -t
    BY DEF Gain, Diff, Mentions
  <2>2. sign = 1 \/ sign = -1
    OBVIOUS
  <2> HIDE DEF t, sign
  <2> QED
    BY <1>2, <2>1, <2>2
<1> HIDE DEF t, sign
<1> QED
  BY <1>1, <1>3, <1>4, <1>5

(* Two parts with the right entries make the right list.                   *)
LEMMA Joined ==
  ASSUME NEW s \in Seq(Entry), NEW a \in Seq(Entry), NEW b \in Seq(Entry),
         Len(s) = Len(a) + Len(b),
         \A i \in 1..Len(a) : s[i] = a[i],
         \A k \in 1..Len(b) : s[Len(a) + k] = b[k]
  PROVE  s = a \o b
<1>1. Len(a) \in Nat /\ Len(b) \in Nat /\ Len(s) \in Nat
  OBVIOUS
<1>2. /\ a \o b \in Seq(Entry) /\ Len(a \o b) = Len(a) + Len(b)
      /\ \A i \in 1..(Len(a) + Len(b)) :
           (a \o b)[i] = IF i <= Len(a) THEN a[i] ELSE b[i - Len(a)]
  BY ConcatProperties
<1>3. ASSUME NEW i \in 1..Len(s)
      PROVE  s[i] = (a \o b)[i]
  <2>1. CASE i <= Len(a)
    BY <1>1, <1>2, <2>1
  <2>2. CASE ~(i <= Len(a))
    <3>1. i - Len(a) \in 1..Len(b) /\ Len(a) + (i - Len(a)) = i
      BY <1>1, <2>2
    <3>2. s[Len(a) + (i - Len(a))] = b[i - Len(a)]
      BY <3>1
    <3> QED
      BY <1>1, <1>2, <2>2, <3>1, <3>2
  <2> QED
    BY <2>1, <2>2
<1> QED
  BY <1>2, <1>3, SeqEqual

(* Nobody gains anything from a message that does not mention it.          *)
LEMMA NoGain ==
  ASSUME Typed, NEW d \in Delivery, NEW w, w \notin Mentioned(d)
  PROVE  Gain(d, w, Len(Mentions(d))) = 0
<1>1. {k \in 1..Len(Mentions(d)) : Mentions(d)[k] = w} = {}
  BY DEF Mentioned
<1>2. Times(Mentions(d), w, Len(Mentions(d))) = 0
  BY <1>1, FS_EmptySet DEF Times
<1>3. PICK t \in Int : t = 0 /\ t = Times(Mentions(d), w, Len(Mentions(d)))
  BY <1>2
<1>4. Gain(d, w, Len(Mentions(d))) = IF Diff(msg[d].words) = 1 THEN t ELSE -t
  BY <1>3 DEF Gain
<1> QED
  BY <1>3, <1>4

(* What SaveChanges leaves in a row at which nobody overtook the call.     *)
LEMMA SavedRow ==
  ASSUME Typed, ContextInv, HeldInv, NEW d \in Delivery, Save(d),
         NEW i \in 1..Len(rows), <<d, i>> \notin overtaken
  PROVE  /\ rows'[i].who = rows[i].who /\ rows'[i].by = rows[i].by
         /\ rows'[i].pts =
              rows[i].pts + IF Says(d, "merit")
                              THEN Gain(d, rows[i].who, Len(Mentions(d))) ELSE 0
<1> PICK w : w = rows[i].who
  OBVIOUS
<1>1. rows[i] \in Row /\ rows[i].pts \in Int
  BY ElementOfSeq, RowPoints DEF Typed
<1>2. /\ rows'[i].who = rows[i].who /\ rows'[i].by = rows[i].by
      /\ rows'[i].pts = IF i \in Changed(d) THEN cur[d][i] ELSE rows[i].pts
  BY <1>1, SaveRows DEF Updated, Row
<1>3. pc[d] = "save" /\ Len(seen[d]) = Len(cur[d]) /\ Len(cur[d]) \in Nat
  BY DEF Save, ContextInv, Typed
<1>4. CASE Says(d, "merit") /\ w \in Mentioned(d)
  <2>1. Mentions(d) # <<>>
    BY <1>4, EmptySeq DEF Mentioned
  <2>2. Holding(d) /\ MeritDone(d) = Len(Mentions(d))
    BY <1>3, <1>4, <2>1 DEF Holding, Awards, Named, MeritDone, Early
  <2>3. RowHeld(d, i, Len(Mentions(d)))
    BY <1>4, <2>2 DEF HeldInv, CallHeld, HeldRight
  <2>4. rows'[i].pts = Queried(d, cur)[i]
    <3>1. CASE i <= Len(cur[d])
      <4>1. i \in Changed(d) <=> cur[d][i] # seen[d][i]
        BY <1>3, <3>1 DEF Changed
      <4>2. Queried(d, cur)[i] = cur[d][i] /\ Queried(d, seen)[i] = seen[d][i]
        BY <1>3, <3>1 DEF Queried
      <4> QED
        BY <1>2, <2>3, <4>1, <4>2 DEF RowHeld
    <3>2. CASE ~(i <= Len(cur[d]))
      BY <1>2, <1>3, <3>2 DEF Queried, Changed
    <3> QED
      BY <3>1, <3>2
  <2> QED
    BY <1>2, <1>4, <2>3, <2>4 DEF RowHeld
<1>5. CASE ~(Says(d, "merit") /\ w \in Mentioned(d))
  <2>1. i \notin Changed(d)
    <3>1. i \in Changed(d) => i <= Len(cur[d]) /\ cur[d][i] # seen[d][i]
      BY <1>3 DEF Changed
    <3> QED
      BY <1>5, <3>1 DEF ContextInv
  <2>2. (IF Says(d, "merit") THEN Gain(d, w, Len(Mentions(d))) ELSE 0) = 0
    BY <1>5, NoGain
  <2>3. PICK p \in Int : p = rows[i].pts
    BY <1>1
  <2> QED
    BY <1>2, <2>1, <2>2, <2>3
<1> QED
  BY <1>4, <1>5

(* Without an overtaking, SaveChanges is the message on the ledger; one    *)
(* that mentions nobody, such as the bot's own replies, does nothing.      *)
LEMMA SaveHandles ==
  ASSUME Typed, Typed', LineOK, ContextInv, HeldInv, NEW d \in Delivery, Save(d),
         ~Overtaken(d)
  PROVE  Ledger!Handle(msg[d])
<1> DEFINE m == msg[d]
           A == IF "merit" \in m.words THEN Ledger!Award(m) ELSE Entries(rows)
           B == IF "register" \in m.words THEN Ledger!NewMembers(m) ELSE <<>>
<1>1. pc[d] = "save" /\ Mentions(d) \in Seq(Member)
  BY DEF Save, Typed, Mentions, Incoming
<1>2. /\ Len(rows') = Len(rows) + Len(added[d])
      /\ Len(rows) \in Nat /\ Len(added[d]) \in Nat
      /\ \A i \in (Len(rows) + 1)..Len(rows') : rows'[i] = Inserted(d)[i - Len(rows)]
  BY SaveRows
<1>3. /\ Entries(rows) \in Seq(Entry) /\ Len(Entries(rows)) = Len(rows)
      /\ \A i \in 1..Len(rows) :
           /\ rows[i].who \in Member /\ rows[i].pts \in Int
           /\ Entries(rows)[i] = [who |-> rows[i].who, pts |-> rows[i].pts]
  BY EntriesType DEF Typed
<1>4. /\ Entries(rows') \in Seq(Entry) /\ Len(Entries(rows')) = Len(rows')
      /\ \A i \in 1..Len(rows') :
           Entries(rows')[i] = [who |-> rows'[i].who, pts |-> rows'[i].pts]
  BY EntriesType DEF Typed
<1>5. A \in Seq(Entry) /\ Len(A) = Len(rows)
      /\ \A i \in 1..Len(rows) : Entries(rows')[i] = A[i]
  <2>1. ASSUME NEW i \in 1..Len(rows)
        PROVE  Entries(rows')[i] =
                 [who |-> rows[i].who,
                  pts |-> rows[i].pts + IF Says(d, "merit")
                                          THEN Gain(d, rows[i].who, Len(Mentions(d)))
                                          ELSE 0]
    <3>1. i \in 1..Len(rows') /\ <<d, i>> \notin overtaken
      BY <1>2 DEF Overtaken
    <3> QED
      BY <1>4, <3>1, SavedRow
  <2>2. CASE "merit" \in m.words
    <3>1. \A i \in 1..Len(rows) : Entries(rows')[i] = Ledger!Award(m)[i]
      BY <2>1, <2>2, AwardGains DEF Says
    <3>2. \A i \in 1..Len(rows) : Ledger!Award(m)[i] \in Entry
      <4>1. \A i \in 1..Len(rows) : i \in 1..Len(Entries(rows'))
        BY <1>2, <1>4
      <4> QED
        BY <1>4, <3>1, <4>1, ElementOfSeq
    <3>3. /\ DOMAIN Ledger!Award(m) = 1..Len(rows)
          /\ Ledger!Award(m) = [i \in 1..Len(rows) |-> Ledger!Award(m)[i]]
      <4>1. Ledger!Award(m) =
              [j \in 1..Len(Entries(rows)) |->
                 [Entries(rows)[j] EXCEPT
                    !.pts = @ + Ledger!Mentions(m, Entries(rows)[j].who)
                                  * (IF "demerit" \in m.words THEN -1 ELSE 1)]]
        BY DEF Ledger!Award, Entries
      <4> QED
        BY <1>3, <4>1
    <3>4. Ledger!Award(m) \in [1..Len(rows) -> Entry]
      BY <3>2, <3>3
    <3> HIDE DEF Entry
    <3>5. Ledger!Award(m) \in Seq(Entry) /\ Len(Ledger!Award(m)) = Len(rows)
      BY <3>4, RowValues
    <3> QED
      BY <2>2, <3>1, <3>5
  <2>3. CASE "merit" \notin m.words
    <3>1. A = Entries(rows)
      BY <2>3
    <3>2. ASSUME NEW i \in 1..Len(rows)
          PROVE  Entries(rows')[i] = Entries(rows)[i]
      <4>1. PICK p \in Int : p = rows[i].pts
        BY <1>3
      <4>2. Entries(rows')[i] = [who |-> rows[i].who, pts |-> p + 0]
        BY <2>1, <2>3, <4>1 DEF Says
      <4> QED
        BY <1>3, <4>1, <4>2
    <3> HIDE DEF A, Entries, Entry
    <3> QED
      BY <1>3, <3>1, <3>2
  <2> QED
    BY <2>2, <2>3
<1>6. /\ B \in Seq(Entry) /\ Len(B) = Len(added[d])
      /\ \A k \in 1..Len(added[d]) : Entries(rows')[Len(rows) + k] = B[k]
  <2>1. Entered(added[d], Mentions(d), IF Enrolls(d) THEN Len(Mentions(d)) ELSE 0)
    <3>1. EntryDone(d) = Len(Mentions(d))
      BY <1>1 DEF EntryDone
    <3> QED
      BY <1>1, <3>1 DEF HeldInv, CallHeld, EnteredRight, Open, Running
  <2>2. CASE "register" \in m.words
    <3>1. added[d] \in Seq(Member)
      BY DEF Typed
    <3>2. Entered(added[d], m.mentions, Len(m.mentions))
      <4>1. CASE Named(d)
        BY <2>1, <2>2, <4>1 DEF Enrolls, Says, Mentions
      <4>2. CASE ~Named(d)
        BY <2>1, <4>2, EmptySeq DEF Enrolls, Named, Mentions
      <4> QED
        BY <4>1, <4>2
    <3>3. m.mentions \in Seq(Member)
      BY <1>1 DEF Mentions
    <3>4. /\ Ledger!NewMembers(m) \in Seq(Entry)
          /\ Len(Ledger!NewMembers(m)) = Len(added[d])
          /\ \A k \in 1..Len(added[d]) :
               Ledger!NewMembers(m)[k] = [who |-> added[d][k], pts |-> 0]
      <4> HIDE DEF m
      <4> QED
        BY <3>1, <3>2, <3>3, NewMembersEntered
    <3>5. ASSUME NEW k \in 1..Len(added[d])
          PROVE  Entries(rows')[Len(rows) + k] = [who |-> added[d][k], pts |-> 0]
      <4>1. /\ Len(rows) + k \in 1..Len(rows')
            /\ Len(rows) + k \in (Len(rows) + 1)..Len(rows')
            /\ (Len(rows) + k) - Len(rows) = k
        BY <1>2
      <4>2. rows'[Len(rows) + k] = Inserted(d)[k]
        BY <1>2, <4>1
      <4> QED
        BY <1>4, <4>1, <4>2 DEF Inserted
    <3> QED
      BY <2>2, <3>4, <3>5
  <2>3. CASE "register" \notin m.words
    <3>1. Len(added[d]) = 0
      BY <2>1, <2>3, EnrollingFinite DEF Entered, Enrolls, Says
    <3>2. <<>> \in Seq(Entry) /\ Len(<<>>) = 0
      BY EmptySeq
    <3> QED
      BY <2>3, <3>1, <3>2
  <2> QED
    BY <2>2, <2>3
<1> HIDE DEF A, B
<1>7. Entries(rows') = A \o B
  <2>1. Len(Entries(rows')) = Len(A) + Len(B)
    BY <1>2, <1>4, <1>5, <1>6
  <2>2. \A i \in 1..Len(A) : Entries(rows')[i] = A[i]
    BY <1>5
  <2>3. \A k \in 1..Len(B) : Entries(rows')[Len(A) + k] = B[k]
    BY <1>5, <1>6
  <2>4. Entries(rows') \in Seq(Entry) /\ A \in Seq(Entry) /\ B \in Seq(Entry)
    BY <1>4, <1>5, <1>6
  <2> HIDE DEF Entries, Entry
  <2> QED
    BY <2>1, <2>2, <2>3, <2>4, Joined
<1> QED
  BY <1>7 DEF A, B, Ledger!Handle, Entries

LEMMA HistoryStep ==
  ASSUME Typed, LineOK, ContextInv, AwardInv, ToldInv, HeldInv,
         [HNext]_<<vars, history>>
  PROVE  Typed' /\ LineOK' /\ ContextInv' /\ AwardInv' /\ ToldInv' /\ HeldInv'
<1>1. [Next]_vars /\ Record
  BY StepRecord
<1>2. Typed' /\ LineOK'
  BY <1>1, NextType
<1> QED
  BY <1>1, <1>2, NextContext, NextAward, NextTold, NextHeld

LEMMA HistoryInit ==
  ASSUME HInit
  PROVE  Typed /\ LineOK /\ ContextInv /\ AwardInv /\ ToldInv /\ HeldInv
<1>1. Init
  BY DEF HInit
<1>2. LineOK
  BY <1>1 DEF Init, LineOK
<1> QED
  BY <1>1, <1>2, InitType, InitContext, InitAward, InitTold, InitHeld

(* The history leaves the behaviours of msg() alone.                       *)
LEMMA HistoryKept ==
  HSpec => [](/\ Typed /\ LineOK /\ ContextInv /\ AwardInv /\ ToldInv
              /\ HeldInv)
BY HistoryInit, HistoryStep, PTL DEF HSpec

(* However many calls the server runs at a time, and whatever posts and    *)
(* saves fail, SaveChanges of a call that nobody overtook has the effect   *)
(* of its message on the ledger, as a whole and at once.                   *)
THEOREM SavesTakeEffectAlways == HSpec => SavesTakeEffect
<1>1. Typed /\ Typed' /\ LineOK /\ ContextInv /\ HeldInv /\ [HNext]_<<vars, history>>
        => [\A d \in Delivery :
              Saves(d) /\ ~Overtaken(d) => Ledger!Handle(msg[d])]_<<vars, history>>
  <2> SUFFICES ASSUME Typed, Typed', LineOK, ContextInv, HeldInv,
                      [HNext]_<<vars, history>>, NEW d \in Delivery,
                      Saves(d), ~Overtaken(d)
               PROVE  Ledger!Handle(msg[d])
    OBVIOUS
  <2>1. Save(d)
    BY StepRecord, SaveOnly DEF Saves
  <2> QED
    BY <2>1, SaveHandles
<1> QED
  BY <1>1, HistoryKept, PTL DEF HSpec, SavesTakeEffect

-----------------------------------------------------------------------------
(* What the table has is what the calls that saved have announced.         *)
Posted(d, m, s) == {x \in AwardLines(m, s) : x[1] = d}
PostedNet(d, m) == Cardinality(Posted(d, m, 1)) - Cardinality(Posted(d, m, -1))
SavedNet(m) == Cardinality(SavedLines(m, 1)) - Cardinality(SavedLines(m, -1))

Share(d, m, n) == IF Awards(d) THEN Gain(d, m, n) ELSE 0

(* The rows that were there from the start, and whose they are.            *)
Old == {i \in 1..Len(rows) : rows[i].by = NotFound}
Elders == {rows[i].who : i \in Old}

(* The lines a call has written award what its mentions so far award, and  *)
(* so do, until it saves, the lines it has posted.                         *)
Paying == {"score", "postScore", "save"}
After == {"andre", "postAndre"} \cup Ended

DueRight(d) ==
  pc[d] \in Meriting =>
    \A w \in Elders : Due(d, w, 1) - Due(d, w, -1) = Share(d, w, MeritDone(d))

PaidRight(d) ==
  pc[d] \in Paying =>
    \A w \in Elders : PostedNet(d, w) = Share(d, w, Len(Mentions(d)))

RowRight(i) ==
  (\A d \in saved : <<d, i>> \notin overtaken) => rows[i].pts = SavedNet(rows[i].who)

SumInv ==
  /\ \A d \in Delivery : DueRight(d) /\ PaidRight(d)
  /\ saved \subseteq {d \in Delivery : pc[d] \in After}
  /\ \A i \in Old : RowRight(i)

LEMMA OnlySaveWrites ==
  ASSUME [Next]_vars, ~\E d \in Delivery : Save(d)
  PROVE  rows' = rows
<1>1. ASSUME NEW d \in Delivery, Step(d)
      PROVE  rows' = rows
  BY <1>1 DEF Step, LogLoad, LogStore, LogThrows, RegisterSkip, RegisterReminder,
     RegisterNobody, Register, MeritSkip, MeritNobody, Merit, Score, ScoreSkip, Post,
     PostFails, SaveFails, Andre, table
<1> QED
  BY <1>1 DEF Next, Deliver, Echo, Receive, Restart, vars, table

LEMMA OldKept ==
  ASSUME Typed, [Next]_vars
  PROVE  /\ Old' = Old /\ Elders' = Elders /\ Elders \subseteq Member
         /\ \A i \in Old : /\ i \in 1..Len(rows) /\ rows[i].who \in Elders
                           /\ rows'[i].who = rows[i].who
<1>1. \A i \in 1..Len(rows) : rows[i] \in Row
  BY ElementOfSeq DEF Typed
<1>2. CASE \E d \in Delivery : Save(d)
  <2> PICK d \in Delivery : Save(d)
    BY <1>2
  <2>1. /\ Len(rows') = Len(rows) + Len(added[d])
        /\ Len(rows) \in Nat /\ Len(added[d]) \in Nat
        /\ \A i \in 1..Len(rows) : rows'[i] = Updated(d)[i]
        /\ \A i \in (Len(rows) + 1)..Len(rows') : rows'[i] = Inserted(d)[i - Len(rows)]
    BY SaveRows
  <2>2. \A i \in 1..Len(rows) : rows'[i].who = rows[i].who /\ rows'[i].by = rows[i].by
    BY <1>1, <2>1 DEF Updated, Row
  <2>3. ASSUME NEW i \in (Len(rows) + 1)..Len(rows')
        PROVE  rows'[i].by # NotFound
    <3>1. PICK k \in 1..Len(added[d]) : k = i - Len(rows)
      BY <2>1
    <3>2. rows'[i] = Inserted(d)[k]
      BY <2>1, <3>1
    <3>3. rows'[i].by = d
      BY <3>2 DEF Inserted
    <3> QED
      BY <3>3, BotAssumption
  <2>4. Old' = Old
    BY <2>1, <2>2, <2>3 DEF Old
  <2> QED
    BY <1>1, <2>2, <2>4 DEF Old, Elders, Row
<1>3. CASE ~\E d \in Delivery : Save(d)
  <2>1. rows' = rows
    BY <1>3, OnlySaveWrites
  <2> QED
    BY <1>1, <2>1 DEF Old, Elders, Row
<1> QED
  BY <1>2, <1>3

(* New lines in the chat are those of a merit reply.                       *)
OnlyBy(d) ==
  \A m, s : /\ AwardLines(m, s) \subseteq AwardLines(m, s)'
            /\ \A x \in AwardLines(m, s)' \ AwardLines(m, s) :
                 x[1] = d /\ pc[d] = "postMerit"

LEMMA SameLines ==
  ASSUME MeritPosts' = MeritPosts,
         \A p \in MeritPosts : msg'[p.by].words = msg[p.by].words, NEW m, NEW s
  PROVE  AwardLines(m, s)' = AwardLines(m, s)
BY DEF AwardLines

LEMMA StepLines ==
  ASSUME Typed, NEW d \in Delivery, Step(d)
  PROVE  OnlyBy(d)
<1>1. msg' = msg
  BY StepAlone
<1>2. CASE chat' = chat
  <2>1. \A m, s : AwardLines(m, s)' = AwardLines(m, s)
    BY <1>1, <1>2, SameLines DEF MeritPosts
  <2> QED
    BY <2>1 DEF OnlyBy
<1>3. CASE chat' # chat
  <2>1. chat' = chat \cup {Reply(d)} /\ pc[d] \in Posting
    BY <1>3 DEF Step, LogLoad, LogStore, LogThrows, RegisterSkip, RegisterReminder,
       RegisterNobody, Register, MeritSkip, MeritNobody, Merit, Score, ScoreSkip, Post,
       PostFails, Save, SaveFails, Andre, table
  <2>2. \A m, s : AwardLines(m, s)' = AwardLines(m, s) \cup Fresh(d, m, s)
    BY <1>1, <2>1, NewLines
  <2>3. \A m, s : \A x \in Fresh(d, m, s) : x[1] = d /\ pc[d] = "postMerit"
    BY DEF Fresh
  <2> QED
    BY <2>2, <2>3 DEF OnlyBy
<1> QED
  BY <1>2, <1>3

LEMMA PostedKept ==
  ASSUME NEW d, OnlyBy(d), NEW e, e # d \/ pc[d] # "postMerit", NEW m, NEW s
  PROVE  Posted(e, m, s)' = Posted(e, m, s)
<1>1. /\ AwardLines(m, s) \subseteq AwardLines(m, s)'
      /\ \A x \in AwardLines(m, s)' \ AwardLines(m, s) :
           x[1] = d /\ pc[d] = "postMerit"
  BY DEF OnlyBy
<1> QED
  BY <1>1 DEF Posted

(* A call that has not left the merit loop has announced nothing.          *)
LEMMA NonePosted ==
  ASSUME AwardInv, NEW d, pc[d] \in Early \cup Meriting, NEW m, NEW s
  PROVE  Posted(d, m, s) = {}
<1>1. \A p \in MeritPosts : p.by # d
  BY DEF AwardInv, PostedOnce
<1> QED
  BY <1>1 DEF Posted, AwardLines

(* A call that has the same lines, written and posted.                     *)
LEMMA CallSum ==
  ASSUME SumInv, Elders' = Elders, NEW e \in Delivery,
         pc'[e] = pc[e] \/ pc'[e] = "failed",
         msg'[e] = msg[e], line'[e] = line[e], lines'[e] = lines[e],
         \A m, s : Posted(e, m, s)' = Posted(e, m, s)
  PROVE  DueRight(e)' /\ PaidRight(e)'
<1>1. CASE pc'[e] = "failed"
  BY <1>1 DEF DueRight, PaidRight, Meriting, Paying
<1>2. CASE pc'[e] = pc[e]
  <2>1. /\ Mentions(e)' = Mentions(e) /\ MeritDone(e)' = MeritDone(e)
        /\ \A w, n : Share(e, w, n)' = Share(e, w, n)
    BY <1>2 DEF Mentions, MeritDone, Share, Awards, Says, Named, Gain
  <2>2. \A w, s : Due(e, w, s)' = Due(e, w, s)
    BY <1>2 DEF Due, Own
  <2>3. \A w : PostedNet(e, w)' = PostedNet(e, w)
    BY DEF PostedNet
  <2>4. DueRight(e) /\ PaidRight(e)
    BY DEF SumInv
  <2>5. \A w : Share(e, w, MeritDone(e))' = Share(e, w, MeritDone(e))
    BY <2>1 DEF Share, Gain
  <2>6. \A w : Share(e, w, Len(Mentions(e)))' = Share(e, w, Len(Mentions(e)))
    BY <2>1 DEF Share, Gain
  <2>7. DueRight(e)'
    BY <1>2, <2>2, <2>4, <2>5 DEF DueRight
  <2>8. PaidRight(e)'
    BY <1>2, <2>3, <2>4, <2>6 DEF PaidRight
  <2> QED
    BY <2>7, <2>8
<1> QED
  BY <1>1, <1>2

(* A call at the first mention of the merit loop has written no lines.     *)
LEMMA FreshDue ==
  ASSUME NEW d \in Delivery, lines'[d] = <<>>, Awards(d)' => MeritDone(d)' = 0,
         pc'[d] \notin Paying
  PROVE  DueRight(d)' /\ PaidRight(d)'
<1>1. \A w : Own(d, w)' = {}
  BY EmptySeq DEF Own
<1>2. \A w : Due(d, w, 1)' = 0 /\ Due(d, w, -1)' = 0
  BY <1>1, FS_EmptySet DEF Due
<1>3. \A w : Share(d, w, MeritDone(d))' = 0
  <2>1. \A w : Gain(d, w, 0)' = 0
    BY TimesStep DEF Gain
  <2>2. ASSUME NEW w, Awards(d)'
        PROVE  Gain(d, w, MeritDone(d))' = 0
    BY <2>1, <2>2 DEF Gain
  <2> QED
    BY <2>2 DEF Share
<1> QED
  BY <1>2, <1>3 DEF DueRight, PaidRight

(* The steps of a call that write no line and post none.                   *)
LEMMA StillSum ==
  ASSUME Typed, LineOK, ContextInv, AwardInv, HeldInv, SumInv, Elders' = Elders,
         NEW d \in Delivery,
         \/ LogLoad(d) \/ LogStore(d) \/ LogThrows(d) \/ Skip(d) \/ Register(d)
         \/ Score(d) \/ Save(d)
  PROVE  DueRight(d)' /\ PaidRight(d)'
<1>1. UNCHANGED <<chat, msg>>
  BY DEF LogLoad, LogStore, LogThrows, Skip, RegisterSkip, RegisterReminder,
         RegisterNobody, Register, MeritSkip, MeritNobody, ScoreSkip, Score, Save,
         SaveFails, Andre, table, locals
<1>2. \A m, s : Posted(d, m, s)' = Posted(d, m, s)
  BY <1>1, SameLines DEF MeritPosts, Posted
<1>3. /\ Awards(d)' = Awards(d) /\ Mentions(d)' = Mentions(d)
      /\ \A w, n : Share(d, w, n)' = Share(d, w, n)
  BY <1>1 DEF Awards, Says, Named, Mentions, Share, Gain
<1>4. CASE pc'[d] \notin Meriting \cup Paying
  BY <1>4 DEF DueRight, PaidRight
<1>5. CASE RegisterSkip(d)
  <2>1. pc[d] = "register" /\ pc'[d] = "merit" /\ lines'[d] = lines[d] /\ line' = line
        /\ ~Enrolls(d)
    BY <1>5 DEF RegisterSkip, Goto, Typed, locals, Enrolls
  <2>2. lines[d] = <<>>
    BY <2>1 DEF AwardInv, CallAward, Early
  <2>3. line[d] = 1
    BY <2>1 DEF HeldInv, CallHeld, LoopStarts, Open, Running
  <2>4. MeritDone(d)' = 0
    BY <2>1, <2>3 DEF MeritDone, Early
  <2> QED
    BY <2>1, <2>2, <2>4, FreshDue DEF Paying
<1>6. CASE MeritNobody(d)
  <2>1. pc[d] = "merit" /\ pc'[d] = "postMerit" /\ lines'[d] = lines[d] /\ ~Awards(d)
    BY <1>6 DEF MeritNobody, Goto, Typed, locals, Awards
  <2>2. lines[d] = <<>>
    BY <2>1 DEF AwardInv, CallAward, Meriting, Awards
  <2> QED
    BY <1>3, <2>1, <2>2, FreshDue DEF Paying
<1>7. CASE MeritSkip(d)
  <2>1. pc[d] = "merit" /\ pc'[d] = "score" /\ ~Awards(d)
    BY <1>7 DEF MeritSkip, Goto, Typed, Awards, Tagged
  <2>2. \A m, s : Posted(d, m, s) = {}
    BY <2>1, NonePosted DEF Meriting
  <2>3. \A w : PostedNet(d, w)' = 0
    BY <1>2, <2>2, FS_EmptySet DEF PostedNet
  <2> QED
    BY <1>3, <2>1, <2>3 DEF DueRight, PaidRight, Meriting, Share
<1>8. CASE ScoreSkip(d) \/ Score(d)
  <2>1. pc[d] = "score" /\ pc'[d] \in {"save", "postScore"}
    BY <1>8 DEF ScoreSkip, Score, Goto, Typed
  <2>2. \A w \in Elders : PostedNet(d, w) = Share(d, w, Len(Mentions(d)))
    BY <2>1 DEF SumInv, PaidRight, Paying
  <2>3. \A w : PostedNet(d, w)' = PostedNet(d, w)
    BY <1>2 DEF PostedNet
  <2>4. \A w : Share(d, w, Len(Mentions(d)))' = Share(d, w, Len(Mentions(d)))
    BY <1>3 DEF Share, Gain
  <2> QED
    BY <2>1, <2>2, <2>3, <2>4 DEF DueRight, PaidRight, Meriting
<1>9. CASE \/ LogLoad(d) \/ LogStore(d) \/ LogThrows(d) \/ RegisterReminder(d)
           \/ RegisterNobody(d) \/ Register(d) \/ Save(d) \/ SaveFails(d) \/ Andre(d)
  <2>1. pc'[d] \notin Meriting \cup Paying
    BY <1>9 DEF LogLoad, LogStore, LogThrows, RegisterReminder, RegisterNobody,
       Register, Turn, Save, SaveFails, Andre, Goto, Typed, Meriting, Paying
  <2> QED
    BY <1>4, <2>1
<1> QED
  BY <1>5, <1>6, <1>7, <1>8, <1>9 DEF Skip

(* One mention adds one line, and the gain of one mention.                 *)
LEMMA MeritSum ==
  ASSUME Typed, Typed', LineOK, HeldInv, SumInv, Elders' = Elders,
         NEW d \in Delivery, Merit(d)
  PROVE  DueRight(d)' /\ PaidRight(d)'
<1> DEFINE n == line[d] - 1
<1>1. /\ UNCHANGED <<rows, msg>> /\ pc[d] = "merit" /\ Awards(d)
      /\ pc'[d] \in Meriting /\ pc'[d] \notin Paying
  BY DEF Merit, Turn, Goto, Typed, table, Awards, Meriting, Paying
<1>2. Awards(d)' = Awards(d) /\ Mentions(d)' = Mentions(d)
  BY <1>1 DEF Awards, Says, Named, Mentions
<1>3. MeritDone(d) = n /\ MeritDone(d)' = n + 1 /\ n \in Nat /\ n + 1 = line[d]
  <2>1. line[d] \in Nat \ {0}
    BY DEF Typed
  <2>2. /\ pc'[d] = (IF line[d] = Len(Mentions(d)) THEN "postMerit" ELSE "merit")
        /\ line'[d] = (IF line[d] = Len(Mentions(d)) THEN 1 ELSE line[d] + 1)
    BY DEF Merit, Turn, Goto, Typed
  <2> QED
    BY <1>1, <1>2, <2>1, <2>2 DEF MeritDone, Early
<1>4. ASSUME NEW w \in Elders
      PROVE  Due(d, w, 1)' - Due(d, w, -1)' = Gain(d, w, n + 1)
  <2> DEFINE who == Mentions(d)[line[d]]
             diff == Diff(msg[d].words)
             a == Due(d, w, 1)
             b == Due(d, w, -1)
  <2>1. PICK i \in 1..Len(rows) : rows[i].who = w
    BY DEF Elders, Old
  <2>2. w \in Member
    <3>1. rows[i] \in Row
      BY ElementOfSeq DEF Typed
    <3> QED
      BY <2>1, <3>1 DEF Row
  <2>3. a - b = Gain(d, w, n)
    BY <1>1, <1>3 DEF SumInv, DueRight, Meriting, Share
  <2>4. /\ Due(d, w, 1)' = a + (IF w = who /\ diff = 1 THEN 1 ELSE 0)
        /\ Due(d, w, -1)' = b + (IF w = who /\ diff = -1 THEN 1 ELSE 0)
    BY <2>1, <2>2, MeritDue
  <2>5. a \in Nat /\ b \in Nat
    BY DueType
  <2> HIDE DEF n
  <2>6. /\ Gain(d, w, n) \in Int
        /\ Gain(d, w, n + 1) =
             Gain(d, w, n) + IF Mentions(d)[n + 1] = w THEN Diff(msg[d].words) ELSE 0
    BY <1>3, GainStep
  <2>7. Mentions(d)[n + 1] = who /\ (diff = 1 \/ diff = -1)
    BY <1>3 DEF Diff
  <2> PICK a2, b2 : a2 = Due(d, w, 1)' /\ b2 = Due(d, w, -1)'
    OBVIOUS
  <2> HIDE DEF a, b, diff, who
  <2>8. a2 - b2 = Gain(d, w, n + 1)
    BY <2>3, <2>4, <2>5, <2>6, <2>7 DEF diff
  <2> QED
    BY <2>8
<1>5. \A w : Share(d, w, MeritDone(d))' = Gain(d, w, n + 1)
  <2>1. \A w, k : Gain(d, w, k)' = Gain(d, w, k)
    BY <1>1, <1>2 DEF Gain
  <2>2. Awards(d)'
    BY <1>1, <1>2
  <2> HIDE DEF n
  <2> QED
    BY <1>3, <2>1, <2>2 DEF Share, Gain
<1> HIDE DEF n
<1>6. DueRight(d)'
  BY <1>1, <1>4, <1>5 DEF DueRight
<1> QED
  BY <1>1, <1>6 DEF PaidRight

(* A merit reply posts the lines of its call.                              *)
LEMMA PostSum ==
  ASSUME Typed, AwardInv, HeldInv, SumInv, Elders' = Elders, Elders \subseteq Member,
         NEW d \in Delivery, Post(d)
  PROVE  DueRight(d)' /\ PaidRight(d)'
<1>1. /\ UNCHANGED <<rows, msg, line>> /\ pc[d] \in Posting /\ lines'[d] = <<>>
      /\ chat' = chat \cup {Reply(d)} /\ pc'[d] = AfterPost[pc[d]]
  BY DEF Post, Goto, Typed
<1>2. /\ Awards(d)' = Awards(d) /\ Mentions(d)' = Mentions(d)
      /\ \A w : Share(d, w, Len(Mentions(d)))' = Share(d, w, Len(Mentions(d)))
  BY <1>1 DEF Awards, Says, Named, Mentions, Share, Gain
<1>3. CASE pc[d] \in {"postRegister", "postReminder"}
  <2>1. pc'[d] = "merit" /\ line[d] = 1
    BY <1>1, <1>3 DEF AfterPost, Posting, HeldInv, CallHeld, LoopStarts, Open, Running
  <2>2. MeritDone(d)' = 0
    BY <1>1, <2>1 DEF MeritDone, Early
  <2> QED
    BY <1>1, <2>1, <2>2, FreshDue DEF Paying
<1>4. CASE pc[d] = "postMerit"
  <2>1. pc'[d] = "score"
    BY <1>1, <1>4 DEF AfterPost, Posting
  <2>2. ASSUME NEW w \in Elders
        PROVE  PostedNet(d, w)' = Share(d, w, Len(Mentions(d)))
    <3>1. ASSUME NEW s
          PROVE  Posted(d, w, s)' = Fresh(d, w, s)
      <4>1. Posted(d, w, s) = {}
        BY <1>4, NonePosted DEF Meriting
      <4>2. AwardLines(w, s)' = AwardLines(w, s) \cup Fresh(d, w, s)
        BY <1>1, NewLines
      <4>3. \A x \in Fresh(d, w, s) : x[1] = d
        BY DEF Fresh
      <4> QED
        BY <4>1, <4>2, <4>3 DEF Posted
    <3>2. ASSUME NEW s
          PROVE  Cardinality(Fresh(d, w, s)) = Due(d, w, s)
      BY <1>4, FreshSize DEF Posting
    <3>3. PostedNet(d, w)' = Due(d, w, 1) - Due(d, w, -1)
      BY <3>1, <3>2 DEF PostedNet
    <3>4. MeritDone(d) = Len(Mentions(d))
      BY <1>4 DEF MeritDone, Early
    <3> QED
      BY <1>4, <3>3, <3>4 DEF SumInv, DueRight, Meriting
  <2> QED
    BY <1>2, <2>1, <2>2 DEF DueRight, PaidRight, Meriting
<1>5. CASE pc[d] = "postScore"
  <2>1. pc'[d] = "save"
    BY <1>1, <1>5 DEF AfterPost, Posting
  <2>2. OnlyBy(d)
    BY StepLines DEF Step
  <2>3. \A m, s : Posted(d, m, s)' = Posted(d, m, s)
    BY <1>5, <2>2, PostedKept
  <2>4. \A w : PostedNet(d, w)' = PostedNet(d, w)
    BY <2>3 DEF PostedNet
  <2>5. PaidRight(d)'
    BY <1>2, <1>5, <2>4 DEF SumInv, PaidRight, Paying
  <2> QED
    BY <2>1, <2>5 DEF DueRight, Meriting
<1>6. CASE pc[d] = "postAndre"
  <2>1. pc'[d] = "done"
    BY <1>1, <1>6 DEF AfterPost, Posting
  <2> QED
    BY <2>1 DEF DueRight, PaidRight, Meriting, Paying
<1> QED
  BY <1>1, <1>3, <1>4, <1>5, <1>6 DEF Posting

-----------------------------------------------------------------------------
(* The rows, and the lines of the calls that saved.                        *)
LEMMA SavedLinesKept ==
  ASSUME saved' = saved, NEW m, NEW s,
         \A e \in saved : Posted(e, m, s)' = Posted(e, m, s)
  PROVE  SavedLines(m, s)' = SavedLines(m, s)
<1>1. \A x : x \in SavedLines(m, s)' <=> x \in AwardLines(m, s)' /\ x[1] \in saved
  BY DEF SavedLines
<1>2. \A x : x \in SavedLines(m, s) <=> x \in AwardLines(m, s) /\ x[1] \in saved
  BY DEF SavedLines
<1>3. \A e \in saved : \A x : x \in AwardLines(m, s)' /\ x[1] = e
                              <=> x \in AwardLines(m, s) /\ x[1] = e
  BY DEF Posted
<1> QED
  BY <1>1, <1>2, <1>3

LEMMA RowsStill ==
  ASSUME SumInv, rows' = rows, saved' = saved, overtaken \subseteq overtaken',
         \A m, s : SavedLines(m, s)' = SavedLines(m, s), NEW i \in Old
  PROVE  RowRight(i)'
<1> PICK w : w = rows[i].who
  OBVIOUS
<1>1. SavedNet(w)' = SavedNet(w)
  BY DEF SavedNet
<1>2. (\A d \in saved : <<d, i>> \notin overtaken) => rows[i].pts = SavedNet(w)
  BY DEF SumInv, RowRight
<1>3. (\A d \in saved' : <<d, i>> \notin overtaken') => rows'[i].pts = SavedNet(w)'
  BY <1>1, <1>2
<1> QED
  BY <1>3 DEF RowRight

(* A call that saves brings in its lines and, in a row at which nobody has *)
(* overtaken it, their points.                                             *)
LEMMA SaveRow ==
  ASSUME Typed, Typed', ContextInv, AwardInv, HeldInv, SumInv, Record,
         Elders \subseteq Member, NEW d \in Delivery, Save(d), saved' = saved \cup {d},
         NEW i \in Old
  PROVE  RowRight(i)'
<1> PICK w : w = rows[i].who
  OBVIOUS
<1>1. i \in 1..Len(rows) /\ w \in Elders /\ w \in Member
  BY DEF Old, Elders
<1>2. pc[d] = "save" /\ UNCHANGED <<chat, msg>> /\ d \notin saved
  BY DEF Save, locals, SumInv, After, Ended
<1>3. ASSUME NEW s \in {1, -1}
      PROVE  /\ Cardinality(SavedLines(w, s)) \in Nat
             /\ Cardinality(Posted(d, w, s)) \in Nat
             /\ Cardinality(SavedLines(w, s))' =
                  Cardinality(SavedLines(w, s)) + Cardinality(Posted(d, w, s))
  <2> DEFINE A == SavedLines(w, s)
             B == Posted(d, w, s)
  <2>1. AwardLines(w, s)' = AwardLines(w, s)
    BY <1>2, SameLines DEF MeritPosts
  <2>2. SavedLines(w, s)' = A \cup B /\ A \cap B = {}
    BY <1>2, <2>1 DEF SavedLines, Posted
  <2>3. IsFiniteSet(AwardLines(w, s))
    BY <1>1 DEF AwardInv
  <2>4. IsFiniteSet(A) /\ IsFiniteSet(B)
    BY <2>3, FS_Subset DEF SavedLines, Posted
  <2>5. Cardinality(A) \in Nat /\ Cardinality(B) \in Nat
    BY <2>4, FS_CardinalityType
  <2> HIDE DEF A, B
  <2>6. Cardinality(A \cup B) = Cardinality(A) + Cardinality(B) - Cardinality(A \cap B)
    BY <2>4, FS_Union
  <2>7. Cardinality(A \cap B) = 0
    BY <2>2, FS_EmptySet
  <2>8. Cardinality(A \cup B) = Cardinality(A) + Cardinality(B)
    BY <2>5, <2>6, <2>7
  <2> QED
    BY <2>2, <2>5, <2>8 DEF A, B
<1>4. SavedNet(w)' = SavedNet(w) + PostedNet(d, w)
  BY <1>3 DEF SavedNet, PostedNet
<1>5. PostedNet(d, w) = IF Says(d, "merit") THEN Gain(d, w, Len(Mentions(d))) ELSE 0
  <2>1. PostedNet(d, w) = Share(d, w, Len(Mentions(d)))
    BY <1>1, <1>2 DEF SumInv, PaidRight, Paying
  <2>2. ~Named(d) => Gain(d, w, Len(Mentions(d))) = 0
    <3>1. ~Named(d) => w \notin Mentioned(d)
      BY EmptySeq DEF Named, Mentioned
    <3> QED
      BY <3>1, NoGain
  <2> QED
    BY <2>1, <2>2 DEF Share, Awards
<1>6. ASSUME \A e \in saved' : <<e, i>> \notin overtaken'
      PROVE  rows'[i].pts = SavedNet(w)' /\ rows'[i].who = w
  <2>1. overtaken \subseteq overtaken'
    BY DEF Record
  <2>2. <<d, i>> \notin overtaken /\ \A e \in saved : <<e, i>> \notin overtaken
    BY <1>6, <2>1
  <2>3. rows[i].pts = SavedNet(w)
    BY <2>2 DEF SumInv, RowRight
  <2>4. /\ rows'[i].who = w
        /\ rows'[i].pts =
             rows[i].pts + IF Says(d, "merit") THEN Gain(d, w, Len(Mentions(d))) ELSE 0
    BY <1>1, <2>2, SavedRow
  <2> QED
    BY <1>4, <1>5, <2>3, <2>4
<1>7. (\A e \in saved' : <<e, i>> \notin overtaken') =>
        rows'[i].pts = SavedNet(rows[i].who)'
  BY <1>6
<1> QED
  BY <1>7 DEF RowRight

LEMMA NobodySaves ==
  ASSUME Typed, [Next]_vars, Record, ~\E d \in Delivery : Save(d)
  PROVE  saved' = saved
<1>1. \A d \in Delivery : ~Saves(d)
  BY SaveOnly DEF Saves
<1> QED
  BY <1>1 DEF Record

LEMMA StepSum ==
  ASSUME Typed, Typed', LineOK, ContextInv, AwardInv, HeldInv, SumInv,
         Elders' = Elders, Elders \subseteq Member, NEW d \in Delivery, Step(d)
  PROVE  \A e \in Delivery : DueRight(e)' /\ PaidRight(e)'
<1>1. OnlyBy(d) /\ msg' = msg
  BY StepLines, StepAlone
<1>2. DueRight(d)' /\ PaidRight(d)'
  <2>1. CASE Merit(d)
    BY <2>1, MeritSum
  <2>2. CASE Post(d)
    BY <2>2, PostSum
  <2>3. CASE PostFails(d)
    BY <2>3 DEF PostFails, Goto, Typed, DueRight, PaidRight, Meriting, Paying
  <2>4. CASE \/ LogLoad(d) \/ LogStore(d) \/ LogThrows(d) \/ Skip(d) \/ Register(d)
             \/ Score(d) \/ Save(d)
    BY <2>4, StillSum
  <2> QED
    BY <2>1, <2>2, <2>3, <2>4 DEF Step, Skip
<1>3. ASSUME NEW e \in Delivery \ {d}
      PROVE  DueRight(e)' /\ PaidRight(e)'
  <2>1. pc'[e] = pc[e] /\ lines'[e] = lines[e] /\ line'[e] = line[e]
    BY StepAlone, LineAlone
  <2>2. \A m, s : Posted(e, m, s)' = Posted(e, m, s)
    BY <1>1, PostedKept
  <2> QED
    BY <1>1, <2>1, <2>2, CallSum
<1> QED
  BY <1>2, <1>3

LEMMA NextSum ==
  ASSUME Typed, Typed', LineOK, ContextInv, AwardInv, HeldInv, SumInv, [Next]_vars,
         Record
  PROVE  SumInv'
<1>1. /\ Old' = Old /\ Elders' = Elders /\ Elders \subseteq Member
      /\ overtaken \subseteq overtaken'
  BY OldKept DEF Record
<1>2. saved' \subseteq {e \in Delivery : pc'[e] \in After}
  <2>1. \A e \in saved : e \in Delivery /\ pc'[e] \in After
    BY SavedStays DEF SumInv, After
  <2>2. \A e \in Delivery : Saves(e) => pc'[e] \in After
    BY DEF Saves, After
  <2> QED
    BY <2>1, <2>2 DEF Record
<1>3. CASE \E d \in Delivery : Save(d)
  <2> PICK d \in Delivery : Save(d)
    BY <1>3
  <2>1. saved' = saved \cup {d}
    <3>1. /\ pc[d] = "save"
          /\ \A e \in Delivery : pc'[e] = IF e = d THEN "andre" ELSE pc[e]
      BY DEF Save, Goto, Typed
    <3>2. \A e \in Delivery : Saves(e) <=> e = d
      BY <3>1 DEF Saves
    <3> QED
      BY <3>2 DEF Record
  <2>2. \A i \in Old : RowRight(i)'
    BY <1>1, <2>1, SaveRow
  <2>3. \A e \in Delivery : DueRight(e)' /\ PaidRight(e)'
    BY <1>1, StepSum DEF Step
  <2> QED
    BY <1>1, <1>2, <2>2, <2>3 DEF SumInv
<1>4. CASE ~\E d \in Delivery : Save(d)
  <2>1. rows' = rows /\ saved' = saved
    BY <1>4, OnlySaveWrites, NobodySaves
  <2>2. \A e \in saved : e \in Delivery /\ pc[e] \in After
    BY DEF SumInv
  <2> DEFINE Calls == \A e \in Delivery : DueRight(e)' /\ PaidRight(e)'
             Lines == \A e \in saved : \A m, s : Posted(e, m, s)' = Posted(e, m, s)
  <2>3. Calls /\ Lines
    <3>1. ASSUME NEW d \in Delivery, Deliver(d) \/ Echo(d)
          PROVE  Calls /\ Lines
      <4>1. /\ UNCHANGED <<chat, line, lines>> /\ pc[d] = "waiting" /\ pc'[d] = "log"
            /\ \A e \in Delivery \ {d} : pc'[e] = pc[e] /\ msg'[e] = msg[e]
        BY <3>1 DEF Deliver, Echo, Receive, Goto, Typed
      <4>2. MeritPosts' = MeritPosts
        BY <4>1 DEF MeritPosts
      <4>3. \A p \in MeritPosts : p.by \in Delivery \ {d}
        BY <4>1 DEF AwardInv, PostedOnce, Early, MeritPosts, Typed, Answer
      <4>4. \A m, s : AwardLines(m, s)' = AwardLines(m, s)
        BY <4>1, <4>2, <4>3, SameLines
      <4>5. \A e, m, s : Posted(e, m, s)' = Posted(e, m, s)
        BY <4>4 DEF Posted
      <4>6. DueRight(d)' /\ PaidRight(d)'
        BY <4>1 DEF DueRight, PaidRight, Meriting, Paying
      <4>7. ASSUME NEW e \in Delivery \ {d}
            PROVE  DueRight(e)' /\ PaidRight(e)'
        BY <1>1, <4>1, <4>5, CallSum
      <4> QED
        BY <4>5, <4>6, <4>7
    <3>2. ASSUME NEW d \in Delivery, Step(d)
          PROVE  Calls /\ Lines
      <4>1. OnlyBy(d)
        BY <3>2, StepLines
      <4>2. \A e \in saved : e # d \/ pc[d] # "postMerit"
        BY <2>2 DEF After, Ended
      <4>3. \A e \in saved : \A m, s : Posted(e, m, s)' = Posted(e, m, s)
        BY <4>1, <4>2, PostedKept
      <4> QED
        BY <1>1, <3>2, <4>3, StepSum
    <3>3. CASE Restart \/ UNCHANGED vars
      <4>1. /\ UNCHANGED <<chat, msg, line, lines>>
            /\ \A e \in Delivery : pc'[e] = pc[e] \/ pc'[e] = "failed"
        BY <3>3 DEF Restart, table, locals, vars, Typed
      <4>2. \A m, s : AwardLines(m, s)' = AwardLines(m, s)
        BY <4>1, SameLines DEF MeritPosts
      <4>3. \A e, m, s : Posted(e, m, s)' = Posted(e, m, s)
        BY <4>2 DEF Posted
      <4> QED
        BY <1>1, <4>1, <4>3, CallSum
    <3> QED
      BY <3>1, <3>2, <3>3 DEF Next
  <2>4. \A m, s : SavedLines(m, s)' = SavedLines(m, s)
    BY <2>1, <2>3, SavedLinesKept
  <2>5. \A i \in Old : RowRight(i)'
    BY <1>1, <2>1, <2>4, RowsStill
  <2> QED
    BY <1>1, <1>2, <2>3, <2>5 DEF SumInv
<1> QED
  BY <1>3, <1>4

LEMMA InitSum == HInit => SumInv
<1> SUFFICES ASSUME HInit PROVE SumInv
  OBVIOUS
<1>1. saved = {} /\ Init
  BY DEF HInit
<1>2. \A m, s : SavedLines(m, s) = {}
  BY <1>1 DEF SavedLines
<1>3. \A m : SavedNet(m) = 0
  BY <1>2, FS_EmptySet DEF SavedNet
<1>4. \A i \in Old : rows[i].pts = 0
  <2>1. Len(Seed) \in Nat /\ Len(rows) = Len(Seed)
    BY <1>1, BotAssumption DEF Init
  <2> QED
    BY <1>1, <2>1 DEF Init, Old
<1>5. \A d \in Delivery : DueRight(d) /\ PaidRight(d)
  BY <1>1 DEF Init, DueRight, PaidRight, Meriting, Paying
<1> QED
  BY <1>1, <1>3, <1>4, <1>5 DEF SumInv, RowRight

(* However the calls overlap, fail and die, a row that was there from the  *)
(* start has the points announced by the calls that saved, unless one of   *)
(* them was overtaken at the row: nothing else loses a point.              *)
THEOREM PointsLostOnlyWhereOvertaken == HSpec => []PointsLostOnlyIfOvertaken
<1>1. SumInv => PointsLostOnlyIfOvertaken
  BY DEF SumInv, RowRight, Old, SavedNet, PointsLostOnlyIfOvertaken
<1>2. Typed /\ Typed' /\ LineOK /\ ContextInv /\ AwardInv /\ HeldInv /\ SumInv
        /\ [HNext]_<<vars, history>> => SumInv'
  BY StepRecord, NextSum
<1> QED
  BY <1>1, <1>2, InitSum, HistoryKept, PTL DEF HSpec
=============================================================================
