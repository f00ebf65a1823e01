-------------------------- MODULE ApiClientProofs --------------------------
(***************************************************************************)
(* Theorems about ApiClient, for every set of accounts, patients and       *)
(* phones, every number of calls, every amount and every width of the      *)
(* integers.                                                               *)
(***************************************************************************)
EXTENDS ApiClient, FiniteSetTheorems, SequenceTheorems, TLAPS

(* What a caller who asked for a measurements may get of those there were. *)
Fits(list, readings, a) ==
  IF a \in 0..MaxInt THEN list = Newest(readings, a)
                     ELSE list \in {{}, readings}

(* A row is added by the handler of an upload, which is then over, for the *)
(* user of its token; no upload adds two.                                  *)
Rows ==
  /\ Len(table) <= MaxInt
  /\ \A i \in 1..Len(table) : LET c == table[i].by IN
       c # None => /\ pc[c] \in {"answered", "lost"}
                   /\ op[c] = "addMeasurement"
                   /\ table[i].owner = bearer[c].user
  /\ \A i, j \in 1..Len(table) :
       table[i].by # None /\ table[i].by = table[j].by => i = j

Was(c, S) == \E k \in began[c]..Len(table) : S = Readings(bearer[c].user, k)

Letters == \A m \in mails : pc[m.by] # "idle" /\ Was(m.by, m.list)

(* A phone has tokens only of accounts it has logged in to, ...            *)
Tokens == \A p \in Phone : token[p] # NoToken => LoggedIn(p, token[p].user)

(* ... and so have its calls, which bear those tokens.                     *)
Begun(c) ==
  /\ began[c] <= Len(table)
  /\ state[c] = "unused" <=> pc[c] = "idle"
  /\ op[c] = "token" => arg[c] \in User \cup {None}
  /\ bearer[c] # NoToken => LoggedIn(phone[c], bearer[c].user)

(* A handler that has got past its query.                                  *)
Handled(c) ==
  /\ pc[c] = "insert" => op[c] = "addMeasurement" /\ Owner(c) \in Patient
  /\ pc[c] = "mail" => op[c] = "sendEmail" /\ Was(c, loaded[c])

(* There is an answer only from a handler that is over, and what it says   *)
(* is so.                                                                  *)
Answered(c) ==
  /\ state[c] = "completed" => pc[c] = "answered"
  /\ pc[c] # "answered" => answer[c] = NoAnswer
  /\ Code(c) = 200 =>
       /\ op[c] = "token" => arg[c] \in User /\ answer[c].token.user = arg[c]
       /\ op[c] = "addMeasurement" => \E i \in 1..Len(table) : table[i].by = c
       /\ op[c] = "getPastMeasurement" =>
            \E k \in began[c]..Len(table) :
              Fits(answer[c].list, Readings(bearer[c].user, k), arg[c])
       /\ op[c] = "sendEmail" => \E m \in mails : m.by = c

CallInv(c) == Begun(c) /\ Handled(c) /\ Answered(c)

ApiInv == TypeOK /\ Rows /\ Letters /\ Tokens /\ \A c \in Call : CallInv(c)

-----------------------------------------------------------------------------
(* The last n measurements.                                                *)

Before(S, i) == {j \in S : j < i}
After(S, i) == {j \in S : j > i}

(* Those before an element, it and those after it are all there are.       *)
LEMMA Around ==
  ASSUME NEW S \in SUBSET Int, IsFiniteSet(S), NEW i \in S
  PROVE  /\ Cardinality(Before(S, i)) \in Nat
         /\ Cardinality(After(S, i)) \in Nat
         /\ Cardinality(S) = Cardinality(Before(S, i)) + Cardinality(After(S, i)) + 1
<1> DEFINE B == Before(S, i)
           A == After(S, i)
<1>1. IsFiniteSet(B) /\ IsFiniteSet(A)
  BY FS_Subset DEF Before, After
<1>2. /\ IsFiniteSet(B \cup {i})
      /\ Cardinality(B \cup {i}) = Cardinality(B) + 1
  <2>1. i \notin B
    BY DEF Before
  <2> QED
    BY <1>1, <2>1, FS_AddElement
<1>3. (B \cup {i}) \cap A = {}
  <2>1. ASSUME NEW j \in B \cup {i}
        PROVE  j \in Int /\ j <= i
    BY DEF Before
  <2>2. ASSUME NEW j \in A
        PROVE  j > i
    BY DEF After
  <2>3. ASSUME NEW j \in B \cup {i}, j \in A
        PROVE  FALSE
    BY <2>1, <2>2, <2>3
  <2> QED
    BY <2>3
<1>4. (B \cup {i}) \cup A = S
  <2>1. ASSUME NEW j \in S
        PROVE  j < i \/ j = i \/ j > i
    OBVIOUS
  <2> QED
    BY <2>1 DEF Before, After
<1> DEFINE X == B \cup {i}
<1>5. Cardinality(S) = Cardinality(X) + Cardinality(A)
  <2>1. Cardinality(X \cup A) = Cardinality(X) + Cardinality(A) - Cardinality(X \cap A)
    BY <1>1, <1>2, FS_Union
  <2>2. Cardinality(X) \in Nat /\ Cardinality(A) \in Nat
    BY <1>1, <1>2, FS_CardinalityType
  <2>3. Cardinality(X \cap A) = 0
    BY <1>3, FS_EmptySet
  <2>4. X \cup A = S
    BY <1>4
  <2> HIDE DEF X, A
  <2>5. Cardinality(S) = Cardinality(X \cup A)
    BY <2>4, Zenon
  <2> QED
    BY <2>1, <2>2, <2>3, <2>5
<1> QED
  BY <1>1, <1>2, <1>5, FS_CardinalityType

(* Skipping all but n measurements leaves the n newest.                    *)
LEMMA SkipNewest ==
  ASSUME NEW S \in SUBSET Int, IsFiniteSet(S), NEW n \in Nat,
         NEW k \in Nat, k = IF Cardinality(S) - n > 0 THEN Cardinality(S) - n ELSE 0
  PROVE  Skip(S, k) = Newest(S, n)
<1>1. Cardinality(S) \in Nat
  BY FS_CardinalityType
<1>2. ASSUME NEW i \in S
      PROVE  Cardinality(Before(S, i)) >= k <=> Cardinality(After(S, i)) < n
  BY <1>1, Around
<1> QED
  BY <1>2 DEF Skip, Newest, Before, After

LEMMA SkipNone ==
  ASSUME NEW S \in SUBSET Int, IsFiniteSet(S)
  PROVE  Skip(S, 0) = S
<1>1. ASSUME NEW i \in S
      PROVE  Cardinality(Before(S, i)) >= 0
  BY Around
<1> QED
  BY <1>1 DEF Skip, Before

LEMMA SkipAll ==
  ASSUME NEW S \in SUBSET Int, IsFiniteSet(S), NEW k \in Int, k >= Cardinality(S)
  PROVE  Skip(S, k) = {}
<1>1. ASSUME NEW i \in S
      PROVE  ~(Cardinality(Before(S, i)) >= k)
  BY Around, FS_CardinalityType
<1> QED
  BY <1>1 DEF Skip, Before

(* Skip(Math.Max(0, Count - amount)) on Int32 numbers: for every amount    *)
(* that is a natural Int32, the amount newest, and for every other number  *)
(* nothing or everything.                                                  *)
THEOREM LastIsNewest ==
  ASSUME NEW S \in SUBSET Int, IsFiniteSet(S), Cardinality(S) <= MaxInt,
         NEW a \in Int
  PROVE  IF a \in 0..MaxInt THEN LastOf(S, Bound(a)) = Newest(S, a)
                            ELSE LastOf(S, Bound(a)) \in {{}, S}
<1> USE ApiAssumption
<1> DEFINE n == Cardinality(S)
           d == Int32(n - Bound(a))
           k == IF d > 0 THEN d ELSE 0
<1>1. n \in Nat
  BY FS_CardinalityType
<1>2. LastOf(S, Bound(a)) = Skip(S, k)
  BY DEF LastOf
<1> HIDE DEF k, d
<1>3. CASE a \in 0..MaxInt
  <2>1. d = n - a
    BY <1>1, <1>3 DEF d, Int32, Bound
  <2>2. k \in Nat /\ k = IF n - a > 0 THEN n - a ELSE 0
    BY <1>1, <1>3, <2>1 DEF k
  <2>3. Skip(S, k) = Newest(S, a)
    BY <1>3, <2>2, SkipNewest
  <2> QED
    BY <1>2, <1>3, <2>3
<1>4. CASE a \notin 0..MaxInt
  <2>1. k \in Int /\ (k = 0 \/ k >= n)
    BY <1>1, <1>4 DEF k, d, Int32, Bound
  <2>2. Skip(S, k) \in {{}, S}
    BY <2>1, SkipNone, SkipAll
  <2> QED
    BY <1>2, <1>4, <2>2
<1> QED
  BY <1>3, <1>4

LEMMA ReadingsFit ==
  ASSUME NEW S \in SUBSET Int, IsFiniteSet(S), Cardinality(S) <= MaxInt, NEW a
  PROVE  Fits(LastOf(S, Bound(a)), S, a)
<1> USE ApiAssumption
<1>1. CASE a \in Int
  BY <1>1, LastIsNewest DEF Fits
<1>2. CASE a \notin Int
  <2>1. 0 \in Int /\ Bound(a) = Bound(0) /\ a \notin 0..MaxInt
    BY <1>2 DEF Bound
  <2>2. Bound(0) = 0 /\ 0 \in 0..MaxInt
    BY DEF Bound
  <2>3. LastOf(S, 0) = Newest(S, 0)
    BY <2>1, <2>2, LastIsNewest
  <2>4. Newest(S, 0) = {}
    <3>1. ASSUME NEW i \in S
          PROVE  ~(Cardinality({j \in S : j > i}) < 0)
      BY Around DEF After
    <3> QED
      BY <3>1 DEF Newest
  <2> QED
    BY <2>1, <2>2, <2>3, <2>4 DEF Fits
<1> QED
  BY <1>1, <1>2

-----------------------------------------------------------------------------
(* What a step leaves as it was.                                           *)

(* The table only grows, and so do the mails.                              *)
Grown ==
  /\ Len(table) <= Len(table')
  /\ \A i \in 1..Len(table) : table'[i] = table[i]
  /\ mails \subseteq mails'

LEMMA Same ==
  ASSUME UNCHANGED store, TypeOK
  PROVE  Grown
<1>1. Len(table) \in Nat
  BY LenProperties DEF TypeOK
<1> QED
  BY <1>1 DEF store, Grown

LEMMA Appended ==
  ASSUME NEW r, table \in Seq(Measurement), r \in Measurement
  PROVE  /\ Append(table, r) \in Seq(Measurement)
         /\ Len(table) \in Nat /\ Len(Append(table, r)) = Len(table) + 1
         /\ \A i \in 1..Len(table) : Append(table, r)[i] = table[i]
         /\ Append(table, r)[Len(table) + 1] = r
BY AppendProperties, LenProperties

(* The log-ins that have succeeded stay as they are.                       *)
LogInsKept ==
  \A l \in Call : state[l] = "completed" =>
    /\ state'[l] = "completed" /\ op'[l] = op[l] /\ phone'[l] = phone[l]
    /\ arg'[l] = arg[l] /\ answer'[l] = answer[l]

(* A call that is left alone.                                              *)
Alone(c) ==
  /\ pc'[c] = pc[c] /\ op'[c] = op[c] /\ bearer'[c] = bearer[c]
  /\ arg'[c] = arg[c] /\ loaded'[c] = loaded[c] /\ answer'[c] = answer[c]
  /\ phone'[c] = phone[c] /\ began'[c] = began[c]
  /\ state'[c] # state[c] => state[c] # "unused" /\ state'[c] = "silent"

(* The readings of u in a table of k rows.                                 *)
ReadingsIn(t, u, k) == {i \in 1..k : t[i].owner = u}

LEMMA Frame ==
  ASSUME TypeOK, TypeOK', Grown, LogInsKept, NEW c \in Call, CallInv(c), Alone(c)
  PROVE  CallInv(c)'
<1>1. /\ Len(table) \in Nat /\ Len(table') \in Nat /\ began[c] \in Nat
      /\ Len(table) <= Len(table')
  BY LenProperties DEF TypeOK, Grown
<1>2. /\ \A i \in 1..Len(table) : i \in 1..Len(table') /\ table'[i] = table[i]
      /\ mails \subseteq mails'
  BY <1>1 DEF Grown
<1>3. \A k \in began[c]..Len(table) :
        /\ k \in began[c]..Len(table')
        /\ k \in 0..Len(table)
  BY <1>1
<1>4. ASSUME NEW k \in began[c]..Len(table)
      PROVE  ReadingsIn(table', bearer'[c].user, k) = ReadingsIn(table, bearer[c].user, k)
  <2>1. bearer'[c].user = bearer[c].user
    BY DEF Alone
  <2>2. \A i \in 1..k : table'[i].owner = table[i].owner
    BY <1>1, <1>2
  <2> QED
    BY <2>1, <2>2 DEF ReadingsIn
<1>5. Begun(c)'
  <2>1. began'[c] <= Len(table')
    BY <1>1 DEF CallInv, Begun, Alone
  <2>2. state'[c] = "unused" <=> pc'[c] = "idle"
    BY DEF CallInv, Begun, Alone
  <2>3. bearer'[c] # NoToken => LoggedIn(phone[c], bearer[c].user)'
    BY DEF CallInv, Begun, Alone, LoggedIn, LogInsKept, Code
  <2>4. op'[c] = "token" => arg'[c] \in User \cup {None}
    BY DEF CallInv, Begun, Alone
  <2> QED
    BY <2>1, <2>2, <2>3, <2>4 DEF Begun, Alone, LoggedIn, Code, NoToken
<1>6. Was(c, loaded[c]) => Was(c, loaded[c])'
  BY <1>3, <1>4 DEF Was, Alone, Readings, ReadingsIn
<1>7. Handled(c)'
  BY <1>6 DEF CallInv, Handled, Alone, Owner
<1>8. Answered(c)'
  <2> DEFINE list == answer[c].list
  <2>1. /\ state'[c] = "completed" => pc'[c] = "answered"
        /\ pc'[c] # "answered" => answer'[c] = NoAnswer
    BY DEF CallInv, Answered, Alone
  <2> SUFFICES ASSUME Code(c)' = 200
               PROVE  Answered(c)'
    BY <2>1 DEF Answered
  <2>2. Code(c) = 200
    BY DEF Code, Alone
  <2>3. op'[c] = "token" => arg'[c] \in User /\ answer'[c].token.user = arg'[c]
    BY <2>2 DEF CallInv, Answered, Alone
  <2>4. op'[c] = "addMeasurement" => \E i \in 1..Len(table') : table'[i].by = c
    BY <1>2, <2>2 DEF CallInv, Answered, Alone
  <2>5. op'[c] = "getPastMeasurement" =>
          \E k \in began'[c]..Len(table') :
            Fits(answer'[c].list, ReadingsIn(table', bearer'[c].user, k), arg'[c])
    <3>1. SUFFICES ASSUME op[c] = "getPastMeasurement"
                   PROVE  \E k \in began'[c]..Len(table') :
                     Fits(answer'[c].list, ReadingsIn(table', bearer'[c].user, k), arg'[c])
      BY DEF Alone
    <3>2. PICK k \in began[c]..Len(table) :
            Fits(answer[c].list, ReadingsIn(table, bearer[c].user, k), arg[c])
      BY <2>2, <3>1 DEF CallInv, Answered, Readings, ReadingsIn
    <3>3. /\ k \in began'[c]..Len(table')
          /\ ReadingsIn(table', bearer'[c].user, k) = ReadingsIn(table, bearer[c].user, k)
      BY <1>3, <1>4 DEF Alone
    <3> QED
      BY <3>2, <3>3 DEF Alone
  <2>6. op'[c] = "sendEmail" => \E m \in mails' : m.by = c
    BY <1>2, <2>2 DEF CallInv, Answered, Alone
  <2> QED
    BY <2>1, <2>3, <2>4, <2>5, <2>6 DEF Answered, Readings, ReadingsIn, Fits
<1> QED
  BY <1>5, <1>7, <1>8 DEF CallInv

(* What holds of the measurements loaded in one moment.                    *)
LEMMA ReadingsLoaded ==
  ASSUME TypeOK, Rows, NEW u
  PROVE  /\ Readings(u, Len(table)) \in SUBSET Nat
         /\ IsFiniteSet(Readings(u, Len(table)))
         /\ Cardinality(Readings(u, Len(table))) <= MaxInt
<1> DEFINE n == Len(table)
           S == Readings(u, n)
<1>1. n \in Nat /\ n <= MaxInt
  BY LenProperties DEF TypeOK, Rows
<1>2. IsFiniteSet(1..n) /\ Cardinality(1..n) = n
  <2>1. 0 \in Int /\ 1 \in Int /\ n \in Int
    BY <1>1
  <2> HIDE DEF n
  <2>2. IsFiniteSet(1..n) /\ Cardinality(1..n) = (IF 1 > n THEN 0 ELSE n - 1 + 1)
    BY <2>1, FS_Interval, Zenon
  <2> QED
    BY <1>1, <2>2
<1>3. S \subseteq 1..n
  BY DEF Readings
<1>4. IsFiniteSet(S) /\ Cardinality(S) <= Cardinality(1..n)
  BY <1>2, <1>3, FS_Subset
<1>5. Cardinality(S) \in Nat
  BY <1>4, FS_CardinalityType
<1> QED
  BY <1>1, <1>2, <1>3, <1>4, <1>5, ApiAssumption

-----------------------------------------------------------------------------
(* The end of a handler.                                                   *)

(* What a handler that replies may do to the store: nothing, or the one    *)
(* thing that it is there for.                                             *)
Work(c) ==
  /\ \/ UNCHANGED table
     \/ /\ pc[c] = "insert" /\ Len(table) < MaxInt
        /\ table' = Append(table, NewRow(c))
  /\ \/ UNCHANGED mails
     \/ pc[c] = "mail" /\ mails' = mails \cup {Letter(c)}

LEMMA WorkGrows ==
  ASSUME TypeOK, NEW c \in Call, Handled(c), Work(c)
  PROVE  /\ Grown
         /\ table' \in Seq(Measurement)
         /\ mails' \subseteq [by : Call, list : SUBSET Nat]
<1>1. table \in Seq(Measurement) /\ mails \subseteq [by : Call, list : SUBSET Nat]
  BY DEF TypeOK
<1>2. Len(table) \in Nat
  BY <1>1, LenProperties
<1>3. Letter(c) \in [by : Call, list : SUBSET Nat]
  BY DEF Letter, TypeOK
<1>4. mails \subseteq mails' /\ mails' \subseteq [by : Call, list : SUBSET Nat]
  BY <1>1, <1>3 DEF Work
<1>5. CASE UNCHANGED table
  BY <1>1, <1>2, <1>4, <1>5 DEF Grown
<1>6. CASE pc[c] = "insert" /\ table' = Append(table, NewRow(c))
  <2>1. NewRow(c) \in Measurement
    BY <1>6 DEF Handled, NewRow, Measurement
  <2> QED
    BY <1>1, <1>4, <1>6, <2>1, Appended DEF Grown
<1> QED
  BY <1>5, <1>6 DEF Work

(* What the caller of a handler that replies with this may conclude.       *)
Justified(c, code, tok, list) ==
  code = 200 =>
    /\ op[c] = "token" => arg[c] \in User /\ tok.user = arg[c]
    /\ op[c] = "addMeasurement" => table' = Append(table, NewRow(c))
    /\ op[c] = "getPastMeasurement" =>
         Fits(list, Readings(bearer[c].user, Len(table)), arg[c])
    /\ op[c] = "sendEmail" => Letter(c) \in mails'

(* A handler that does its work and replies keeps the invariant.           *)
LEMMA ReplyStep ==
  ASSUME ApiInv, NEW c \in Call, pc[c] \in Handling,
         NEW code \in {200, 400, 401, 500}, NEW tok \in Token, NEW list \in SUBSET Nat,
         Reply(c, code, tok, list), Work(c), Justified(c, code, tok, list),
         loaded' \in [Call -> SUBSET Nat],
         \A d \in Call \ {c} : loaded'[d] = loaded[d],
         UNCHANGED client
  PROVE  ApiInv'
<1>1. TypeOK /\ Rows /\ Letters /\ Tokens /\ CallInv(c)
  BY DEF ApiInv
<1>2. /\ Grown
      /\ table' \in Seq(Measurement)
      /\ mails' \subseteq [by : Call, list : SUBSET Nat]
  BY <1>1, WorkGrows DEF CallInv
<1>3. /\ answer' = [answer EXCEPT ![c] = [code |-> code, token |-> tok, list |-> list]]
      /\ pc' = [pc EXCEPT ![c] = "answered"]
      /\ UNCHANGED <<clock, op, bearer, arg, token, state, phone, began>>
  BY DEF Reply, request, client
<1>4. TypeOK'
  <2>1. answer' \in [Call -> Answer]
    BY <1>1, <1>3 DEF TypeOK, Answer
  <2>2. pc' \in [Call -> {"idle", "answered", "lost"} \cup Handling]
    BY <1>1, <1>3 DEF TypeOK
  <2> QED
    BY <1>1, <1>2, <1>3, <2>1, <2>2 DEF TypeOK
<1>5. /\ pc'[c] = "answered"
      /\ answer'[c] = [code |-> code, token |-> tok, list |-> list]
      /\ \A d \in Call \ {c} : pc'[d] = pc[d] /\ answer'[d] = answer[d]
  BY <1>1, <1>3 DEF TypeOK
<1>6. state[c] # "completed"
  BY <1>1 DEF CallInv, Answered, Handling
<1>7. LogInsKept
  BY <1>3, <1>5, <1>6 DEF LogInsKept
<1>8. ASSUME NEW d \in Call \ {c}
      PROVE  CallInv(d)'
  <2>1. Alone(d)
    BY <1>3, <1>5 DEF Alone
  <2>2. CallInv(d)
    BY DEF ApiInv
  <2> QED
    BY <1>1, <1>2, <1>4, <1>7, <2>1, <2>2, Frame
<1>9. /\ Len(table) \in Nat /\ Len(table') \in Nat /\ Len(table) <= Len(table')
      /\ began[c] \in 0..Len(table)
      /\ \A i \in 1..Len(table) : i \in 1..Len(table') /\ table'[i] = table[i]
  BY <1>1, <1>2, LenProperties DEF Grown, TypeOK, CallInv, Begun
<1>10. CallInv(c)'
  <2>1. Begun(c)'
    <3>1. LoggedIn(phone[c], bearer[c].user) => LoggedIn(phone[c], bearer[c].user)'
      BY <1>3, <1>7 DEF LoggedIn, LogInsKept, Code
    <3> QED
      BY <1>1, <1>3, <1>5, <1>9, <3>1 DEF CallInv, Begun, Handling, NoToken
  <2>2. Handled(c)'
    BY <1>5 DEF Handled
  <2>3. Answered(c)'
    <3> SUFFICES ASSUME code = 200
                 PROVE  Answered(c)'
      BY <1>3, <1>5 DEF Answered, Code
    <3>1. op[c] = "token" => arg'[c] \in User /\ answer'[c].token.user = arg'[c]
      BY <1>3, <1>5 DEF Justified
    <3>2. op[c] = "addMeasurement" => \E i \in 1..Len(table') : table'[i].by = c
      <4> SUFFICES ASSUME table' = Append(table, NewRow(c))
                   PROVE  \E i \in 1..Len(table') : table'[i].by = c
        BY DEF Justified
      <4>1. Len(table') = Len(table) + 1 /\ table'[Len(table) + 1] = NewRow(c)
        BY <1>1, AppendProperties DEF TypeOK
      <4> QED
        BY <1>9, <4>1 DEF NewRow
    <3>3. op[c] = "getPastMeasurement" =>
            \E k \in began'[c]..Len(table') :
              Fits(answer'[c].list, ReadingsIn(table', bearer'[c].user, k), arg'[c])
      <4> SUFFICES ASSUME op[c] = "getPastMeasurement"
                   PROVE  Fits(answer'[c].list,
                               ReadingsIn(table', bearer'[c].user, Len(table)), arg'[c])
        BY <1>3, <1>9
      <4>1. ReadingsIn(table', bearer'[c].user, Len(table))
              = Readings(bearer[c].user, Len(table))
        BY <1>3, <1>9 DEF ReadingsIn, Readings
      <4> QED
        BY <1>3, <1>5, <4>1 DEF Justified
    <3>4. op[c] = "sendEmail" => \E m \in mails' : m.by = c
      BY DEF Justified, Letter
    <3> QED
      BY <1>3, <1>5, <3>1, <3>2, <3>3, <3>4
      DEF Answered, Code, Readings, ReadingsIn, Fits
  <2> QED
    BY <2>1, <2>2, <2>3 DEF CallInv
<1>11. Rows'
  <2>1. CASE UNCHANGED table
    BY <1>1, <1>3, <1>5, <2>1 DEF Rows
  <2>2. CASE pc[c] = "insert" /\ Len(table) < MaxInt /\ table' = Append(table, NewRow(c))
    <3>1. Len(table') = Len(table) + 1 /\ table'[Len(table) + 1] = NewRow(c)
      BY <1>1, <2>2, AppendProperties DEF TypeOK
    <3>2. \A i \in 1..Len(table') : i \in 1..Len(table) \/ i = Len(table) + 1
      BY <1>9, <3>1
    <3>3. \A i \in 1..Len(table) : table[i].by # c
      <4>1. c # None
        BY ApiAssumption DEF Call
      <4> QED
        BY <1>1, <2>2, <4>1 DEF Rows
    <3>4. op[c] = "addMeasurement"
      BY <1>1, <2>2 DEF CallInv, Handled
    <3>5. ASSUME NEW i \in 1..Len(table'), table'[i].by # None
          PROVE  /\ pc'[table'[i].by] \in {"answered", "lost"}
                 /\ op'[table'[i].by] = "addMeasurement"
                 /\ table'[i].owner = bearer'[table'[i].by].user
      <4>1. CASE i \in 1..Len(table)
        BY <1>1, <1>3, <1>5, <1>9, <3>5, <4>1 DEF Rows
      <4>2. CASE i = Len(table) + 1
        BY <1>3, <1>5, <3>1, <3>4, <4>2 DEF NewRow, Owner
      <4> QED
        BY <3>2, <4>1, <4>2
    <3>6. ASSUME NEW i \in 1..Len(table'), NEW j \in 1..Len(table'),
                 table'[i].by # None, table'[i].by = table'[j].by
          PROVE  i = j
      <4>1. CASE i \in 1..Len(table) /\ j \in 1..Len(table)
        BY <1>1, <1>9, <3>6, <4>1 DEF Rows
      <4>2. CASE i = Len(table) + 1 \/ j = Len(table) + 1
        BY <1>9, <3>1, <3>2, <3>3, <3>6, <4>2 DEF NewRow
      <4> QED
        BY <3>2, <4>1, <4>2
    <3>7. Len(table') <= MaxInt
      BY <1>9, <2>2, <3>1, ApiAssumption
    <3> QED
      BY <3>5, <3>6, <3>7 DEF Rows
  <2> QED
    BY <2>1, <2>2 DEF Work
<1>12. Letters'
  <2>1. ASSUME NEW m \in mails'
        PROVE  /\ pc'[m.by] # "idle"
               /\ \E k \in began'[m.by]..Len(table') :
                    m.list = ReadingsIn(table', bearer'[m.by].user, k)
    <3>1. m.by \in Call
      BY <1>2
    <3>2. pc[m.by] # "idle" /\ Was(m.by, m.list)
      <4>1. CASE m \in mails
        BY <1>1, <4>1 DEF Letters
      <4>2. CASE pc[c] = "mail" /\ m = Letter(c)
        BY <1>1, <4>2 DEF CallInv, Handled, Letter
      <4> QED
        BY <4>1, <4>2 DEF Work
    <3>3. PICK k \in began[m.by]..Len(table) :
            m.list = ReadingsIn(table, bearer[m.by].user, k)
      BY <3>2 DEF Was, Readings, ReadingsIn
    <3>4. began[m.by] \in Nat
      BY <1>1, <3>1 DEF TypeOK
    <3>5. k \in began[m.by]..Len(table') /\ \A i \in 1..k : table'[i] = table[i]
      BY <1>9, <3>4
    <3>6. ReadingsIn(table', bearer[m.by].user, k) = ReadingsIn(table, bearer[m.by].user, k)
      BY <3>5 DEF ReadingsIn
    <3>7. pc'[m.by] # "idle"
      BY <1>5, <3>1, <3>2
    <3> QED
      BY <1>3, <3>3, <3>5, <3>6, <3>7
  <2> QED
    BY <2>1 DEF Letters, Was, Readings, ReadingsIn
<1>13. Tokens'
  BY <1>1, <1>3, <1>7 DEF Tokens, LoggedIn, LogInsKept, Code
<1> QED
  BY <1>4, <1>8, <1>10, <1>11, <1>12, <1>13 DEF ApiInv

(* One step per handler that replies.                                      *)
LEMMA HandleStep ==
  ASSUME ApiInv, NEW c \in Call, Handle(c), ~Load(c), UNCHANGED client
  PROVE  ApiInv'
<1>1. TypeOK /\ Rows /\ CallInv(c)
  BY DEF ApiInv
<1>2. /\ NoToken \in Token /\ {} \in SUBSET Nat
      /\ bearer[c] \in Token /\ arg[c] \in User \cup {None} \cup Int
      /\ loaded \in [Call -> SUBSET Nat]
  BY <1>1 DEF TypeOK, Token
<1>3. CASE Grant(c)
  <2> DEFINE tok == Ticket(arg[c])
  <2>1. arg[c] \in User
    BY <1>1, <1>3 DEF Grant, CallInv, Begun
  <2>2. tok \in Token /\ tok.user = arg[c]
    BY <1>1, <2>1, ApiAssumption DEF Ticket, Token, TypeOK
  <2>3. Work(c) /\ Justified(c, 200, tok, {})
    BY <1>3, <2>1, <2>2 DEF Grant, Work, Justified, store
  <2> HIDE DEF tok
  <2>4. Reply(c, 200, tok, {}) /\ pc[c] \in Handling /\ UNCHANGED loaded
    BY <1>3 DEF Grant, Handling, tok
  <2> QED
    BY <1>2, <2>2, <2>3, <2>4, ReplyStep
<1>4. CASE Refuse(c)
  <2>1. Work(c) /\ Justified(c, 400, NoToken, {})
    BY <1>4 DEF Refuse, Work, Justified, store
  <2> QED
    BY <1>2, <1>4, <2>1, ReplyStep DEF Refuse, Handling
<1>5. CASE AccountRoute(c)
  <2>1. Work(c) /\ Justified(c, 500, NoToken, {})
    BY <1>5 DEF AccountRoute, Work, Justified, store
  <2> QED
    BY <1>2, <1>5, <2>1, ReplyStep DEF AccountRoute, Handling
<1>6. CASE Deny(c)
  <2>1. Work(c) /\ Justified(c, 401, NoToken, {})
    BY <1>6 DEF Deny, Work, Justified, store
  <2> QED
    BY <1>2, <1>6, <2>1, ReplyStep DEF Deny, Handling
<1>7. CASE Past(c)
  <2> DEFINE readings == Readings(Owner(c), Len(table))
             list == LastOf(readings, Bound(arg[c]))
  <2>1. /\ readings \in SUBSET Nat /\ IsFiniteSet(readings)
        /\ Cardinality(readings) <= MaxInt
    BY <1>1, ReadingsLoaded
  <2>2. Fits(list, readings, arg[c])
    BY <2>1, ReadingsFit
  <2>3. list \in SUBSET Nat
    BY <2>1 DEF LastOf, Skip
  <2>4. Work(c) /\ Justified(c, 200, NoToken, list)
    BY <1>7, <2>2 DEF Past, Work, Justified, store, Owner
  <2>5. /\ loaded' \in [Call -> SUBSET Nat]
        /\ \A d \in Call \ {c} : loaded'[d] = loaded[d]
    BY <1>2, <1>7, <2>1 DEF Past
  <2>6. Reply(c, 200, NoToken, list) /\ pc[c] \in Handling
    BY <1>7 DEF Past, Handling
  <2> QED
    BY <1>2, <2>3, <2>4, <2>5, <2>6, ReplyStep
<1>8. CASE Insert(c)
  <2>1. op[c] = "addMeasurement"
    BY <1>1, <1>8 DEF Insert, CallInv, Handled
  <2>2. Work(c) /\ Justified(c, 200, NoToken, {})
    BY <1>8, <2>1 DEF Insert, Work, Justified
  <2> QED
    BY <1>2, <1>8, <2>2, ReplyStep DEF Insert, Handling
<1>9. CASE Mail(c)
  <2>1. op[c] = "sendEmail"
    BY <1>1, <1>9 DEF Mail, CallInv, Handled
  <2>2. Work(c) /\ Justified(c, 200, NoToken, {})
    BY <1>9, <2>1 DEF Mail, Work, Justified
  <2> QED
    BY <1>2, <1>9, <2>2, ReplyStep DEF Mail, Handling
<1>10. CASE InsertThrows(c)
  <2>1. Work(c) /\ Justified(c, 500, NoToken, {})
    BY <1>10 DEF InsertThrows, MayInsert, Work, Justified
  <2> QED
    BY <1>2, <1>10, <2>1, ReplyStep DEF InsertThrows, Handling
<1>11. CASE MailThrows(c)
  <2>1. Work(c) /\ Justified(c, 500, NoToken, {})
    BY <1>11 DEF MailThrows, Work, Justified
  <2> QED
    BY <1>2, <1>11, <2>1, ReplyStep DEF MailThrows, Handling
<1>12. CASE Throw(c)
  <2>1. Work(c) /\ Justified(c, 500, NoToken, {})
    BY <1>12 DEF Throw, Work, Justified, store
  <2> QED
    BY <1>2, <1>12, <2>1, ReplyStep DEF Throw, Handling
<1> QED
  BY <1>3, <1>4, <1>5, <1>6, <1>7, <1>8, <1>9, <1>10, <1>11, <1>12 DEF Handle

-----------------------------------------------------------------------------
(* The steps that leave the store alone.                                   *)

Onward ==
  \A d \in Call :
    /\ pc[d] # "idle" => /\ op'[d] = op[d] /\ bearer'[d] = bearer[d]
                         /\ began'[d] = began[d] /\ pc'[d] # "idle"
    /\ pc[d] \in {"answered", "lost"} => pc'[d] = pc[d]

LEMMA StoreKept ==
  ASSUME ApiInv, UNCHANGED store, Onward
  PROVE  Grown /\ Rows' /\ Letters'
<1>1. TypeOK /\ Rows /\ Letters /\ UNCHANGED <<table, mails>>
  BY DEF ApiInv, store
<1>2. Grown
  BY <1>1, Same
<1>3. Rows'
  <2>1. ASSUME NEW i \in 1..Len(table), table[i].by # None
        PROVE  /\ pc'[table[i].by] \in {"answered", "lost"}
               /\ op'[table[i].by] = "addMeasurement"
               /\ table[i].owner = bearer'[table[i].by].user
    <3>1. table[i] \in Measurement
      BY <1>1, ElementOfSeq DEF TypeOK
    <3>2. table[i].by \in Call
      BY <2>1, <3>1 DEF Measurement
    <3> QED
      BY <1>1, <2>1, <3>2 DEF Rows, Onward
  <2> QED
    BY <1>1, <2>1 DEF Rows
<1>4. Letters'
  <2>1. ASSUME NEW m \in mails
        PROVE  /\ pc'[m.by] # "idle"
               /\ began'[m.by] = began[m.by] /\ bearer'[m.by] = bearer[m.by]
    <3>1. m.by \in Call
      BY <1>1 DEF TypeOK
    <3> QED
      BY <1>1, <3>1 DEF Letters, Onward
  <2>2. ASSUME NEW m \in mails
        PROVE  \E k \in began'[m.by]..Len(table) :
                 m.list = ReadingsIn(table, bearer'[m.by].user, k)
    BY <1>1, <2>1, <2>2 DEF Letters, Was, Readings, ReadingsIn
  <2> QED
    BY <1>1, <2>1, <2>2 DEF Letters, Was, Readings, ReadingsIn
<1> QED
  BY <1>2, <1>3, <1>4

LEMMA TokensKept ==
  ASSUME Tokens, LogInsKept, UNCHANGED token
  PROVE  Tokens'
BY DEF Tokens, LogInsKept, LoggedIn, Code

LEMMA LoadStep ==
  ASSUME ApiInv, NEW c \in Call, Load(c), UNCHANGED client
  PROVE  ApiInv'
<1>1. TypeOK /\ Rows /\ Letters /\ Tokens /\ CallInv(c)
  BY DEF ApiInv
<1>2. UNCHANGED <<table, mails, clock, op, bearer, arg, answer, token, state, phone, began>>
  BY DEF Load, store, request, client
<1>3. /\ pc[c] = "received" /\ op[c] \in {"addMeasurement", "sendEmail"}
      /\ Owner(c) \in Patient
      /\ pc' = [pc EXCEPT ![c] = IF op[c] = "sendEmail" THEN "mail" ELSE "insert"]
      /\ loaded' = [loaded EXCEPT ![c] = Readings(Owner(c), Len(table))]
  BY DEF Load, Found, Authorized, TacpacOps
<1>4. Readings(Owner(c), Len(table)) \in SUBSET Nat
  BY <1>1, ReadingsLoaded
<1>5. TypeOK'
  <2>1. pc' \in [Call -> {"idle", "answered", "lost"} \cup Handling]
    BY <1>1, <1>3 DEF TypeOK, Handling
  <2>2. loaded' \in [Call -> SUBSET Nat]
    BY <1>1, <1>3, <1>4 DEF TypeOK
  <2> QED
    BY <1>1, <1>2, <2>1, <2>2 DEF TypeOK
<1>6. /\ pc'[c] = IF op[c] = "sendEmail" THEN "mail" ELSE "insert"
      /\ loaded'[c] = Readings(Owner(c), Len(table))
      /\ \A d \in Call \ {c} : pc'[d] = pc[d] /\ loaded'[d] = loaded[d]
  BY <1>1, <1>3 DEF TypeOK
<1>7. LogInsKept /\ Onward
  BY <1>2, <1>3, <1>6 DEF LogInsKept, Onward
<1>8. Grown /\ Rows' /\ Letters'
  BY <1>2, <1>7, StoreKept DEF store
<1>9. ASSUME NEW d \in Call \ {c}
      PROVE  CallInv(d)'
  <2>1. Alone(d)
    BY <1>2, <1>6 DEF Alone
  <2>2. CallInv(d)
    BY DEF ApiInv
  <2> QED
    BY <1>1, <1>5, <1>7, <1>8, <2>1, <2>2, Frame
<1>10. CallInv(c)'
  <2>1. Begun(c)'
    BY <1>1, <1>2, <1>3, <1>6 DEF CallInv, Begun, LoggedIn, Code
  <2>2. Handled(c)'
    <3>1. Len(table) \in Nat /\ began[c] \in Nat /\ began[c] <= Len(table)
      BY <1>1, LenProperties DEF TypeOK, CallInv, Begun
    <3>2. loaded'[c] = ReadingsIn(table, bearer[c].user, Len(table))
      BY <1>6 DEF Readings, ReadingsIn, Owner
    <3>3. \E k \in began'[c]..Len(table') :
            loaded'[c] = ReadingsIn(table', bearer'[c].user, k)
      BY <1>2, <3>1, <3>2
    <3> QED
      BY <1>2, <1>3, <1>6, <3>3 DEF Handled, Was, Readings, ReadingsIn, Owner
  <2>3. Answered(c)'
    BY <1>1, <1>2, <1>3, <1>6 DEF CallInv, Answered, Code, NoAnswer
  <2> QED
    BY <2>1, <2>2, <2>3 DEF CallInv
<1> QED
  BY <1>1, <1>2, <1>5, <1>7, <1>8, <1>9, <1>10, TokensKept DEF ApiInv

(* A call bears the token there is.                                        *)
LEMMA SendStep ==
  ASSUME ApiInv, NEW c \in Call, NEW p \in Phone, NEW a \in User \cup {None} \cup Int,
         NEW o \in {"token"} \cup AccountOps \cup TacpacOps,
         o = "token" => a \in User \cup {None},
         NEW t \in {NoToken, token[p]}, Send(c, p, o, t, a)
  PROVE  ApiInv'
<1>1. TypeOK /\ Rows /\ Letters /\ Tokens /\ CallInv(c)
  BY DEF ApiInv
<1>2. /\ UNCHANGED <<table, mails, clock, loaded, answer, token>>
      /\ pc[c] = "idle" /\ pc' = [pc EXCEPT ![c] = "received"]
      /\ op' = [op EXCEPT ![c] = o]
      /\ bearer' = [bearer EXCEPT ![c] = t]
      /\ arg' = [arg EXCEPT ![c] = a]
      /\ state' = [state EXCEPT ![c] = "waiting"]
      /\ phone' = [phone EXCEPT ![c] = p]
      /\ began' = [began EXCEPT ![c] = Len(table)]
  BY DEF Send, Receive, store
<1>3. t \in Token /\ Len(table) \in Nat
  BY <1>1, LenProperties DEF TypeOK, Token
<1>4. TypeOK'
  <2>1. /\ pc' \in [Call -> {"idle", "answered", "lost"} \cup Handling]
        /\ op' \in [Call -> {"token"} \cup AccountOps \cup TacpacOps]
        /\ bearer' \in [Call -> Token]
        /\ arg' \in [Call -> User \cup {None} \cup Int]
    BY <1>1, <1>2, <1>3 DEF TypeOK, Handling
  <2>2. /\ state' \in [Call -> {"unused", "waiting", "completed", "silent"}]
        /\ phone' \in [Call -> Phone \cup {None}]
        /\ began' \in [Call -> Nat]
    BY <1>1, <1>2, <1>3 DEF TypeOK
  <2> QED
    BY <1>1, <1>2, <2>1, <2>2 DEF TypeOK
<1>5. /\ pc'[c] = "received" /\ bearer'[c] = t /\ state'[c] = "waiting"
      /\ phone'[c] = p /\ began'[c] = Len(table) /\ op'[c] = o /\ arg'[c] = a
      /\ \A d \in Call \ {c} : Alone(d) /\ state'[d] = state[d]
  BY <1>1, <1>2 DEF TypeOK, Alone
<1>6. state[c] = "unused"
  BY <1>1, <1>2 DEF CallInv, Begun
<1>7. LogInsKept /\ Onward
  BY <1>2, <1>5, <1>6 DEF LogInsKept, Onward, Alone
<1>8. Grown /\ Rows' /\ Letters'
  BY <1>2, <1>7, StoreKept DEF store
<1>9. ASSUME NEW d \in Call \ {c}
      PROVE  CallInv(d)'
  <2>1. CallInv(d)
    BY DEF ApiInv
  <2> QED
    BY <1>1, <1>4, <1>5, <1>7, <1>8, <2>1, Frame
<1>10. CallInv(c)'
  <2>1. Begun(c)'
    <3>1. t # NoToken => LoggedIn(p, t.user)
      BY <1>1 DEF Tokens
    <3>2. t # NoToken => LoggedIn(phone[c], bearer[c].user)'
      BY <1>5, <1>7, <3>1 DEF LoggedIn, LogInsKept, Code
    <3> QED
      BY <1>2, <1>3, <1>5, <3>2 DEF Begun, NoToken
  <2>2. Handled(c)'
    BY <1>5 DEF Handled
  <2>3. Answered(c)'
    BY <1>1, <1>2, <1>5 DEF CallInv, Answered, Code, NoAnswer
  <2> QED
    BY <2>1, <2>2, <2>3 DEF CallInv
<1> QED
  BY <1>1, <1>2, <1>4, <1>7, <1>8, <1>9, <1>10, TokensKept DEF ApiInv

LEMMA CompleteStep ==
  ASSUME ApiInv, NEW c \in Call, Complete(c)
  PROVE  ApiInv'
<1>1. TypeOK /\ Rows /\ Letters /\ Tokens /\ CallInv(c)
  BY DEF ApiInv
<1>2. UNCHANGED <<table, mails, clock, pc, op, bearer, arg, loaded, answer, phone, began>>
  BY DEF Complete, server, store, request
<1>3. /\ state[c] = "waiting" /\ pc[c] = "answered"
      /\ state' = [state EXCEPT ![c] =
                     IF op[c] = "register" /\ Code(c) = 200 THEN "silent" ELSE "completed"]
      /\ token' = IF op[c] = "token" /\ Code(c) = 200
                  THEN [token EXCEPT ![phone[c]] = answer[c].token] ELSE token
  BY DEF Complete
<1>4. TypeOK'
  <2>1. state' \in [Call -> {"unused", "waiting", "completed", "silent"}]
    BY <1>1, <1>3 DEF TypeOK
  <2>2. answer[c].token \in Token
    BY <1>1 DEF TypeOK, Answer
  <2>3. token' \in [Phone -> Token]
    BY <1>1, <1>3, <2>2 DEF TypeOK
  <2> QED
    BY <1>1, <1>2, <2>1, <2>3 DEF TypeOK
<1>5. /\ state'[c] = IF op[c] = "register" /\ Code(c) = 200 THEN "silent" ELSE "completed"
      /\ \A d \in Call \ {c} : state'[d] = state[d]
  BY <1>1, <1>3 DEF TypeOK
<1>6. LogInsKept /\ Onward
  BY <1>2, <1>3, <1>5 DEF LogInsKept, Onward
<1>7. Grown /\ Rows' /\ Letters'
  BY <1>2, <1>6, StoreKept DEF store
<1>8. ASSUME NEW d \in Call \ {c}
      PROVE  CallInv(d)'
  <2>1. Alone(d)
    BY <1>2, <1>5 DEF Alone
  <2>2. CallInv(d)
    BY DEF ApiInv
  <2> QED
    BY <1>1, <1>4, <1>6, <1>7, <2>1, <2>2, Frame
<1>9. CallInv(c)'
  <2>1. Begun(c)'
    <3>1. LoggedIn(phone[c], bearer[c].user) => LoggedIn(phone[c], bearer[c].user)'
      BY <1>2, <1>6 DEF LoggedIn, LogInsKept, Code
    <3> QED
      BY <1>1, <1>2, <1>3, <1>5, <3>1 DEF CallInv, Begun, NoToken
  <2>2. Handled(c)'
    BY <1>2, <1>3 DEF Handled
  <2>3. Answered(c)'
    <3>1. /\ UNCHANGED <<table, mails, began, bearer, arg, answer, op>>
          /\ pc'[c] = "answered"
      BY <1>2, <1>3
    <3>2. Code(c)' = Code(c) /\ answer'[c].token = answer[c].token
      BY <3>1 DEF Code
    <3>3. (\E k \in began[c]..Len(table) :
             Fits(answer[c].list, Readings(bearer[c].user, k), arg[c]))' <=>
           \E k \in began[c]..Len(table) :
             Fits(answer[c].list, Readings(bearer[c].user, k), arg[c])
      BY <3>1 DEF Fits, Readings
    <3> QED
      BY <1>1, <3>1, <3>2, <3>3 DEF CallInv, Answered
  <2> QED
    BY <2>1, <2>2, <2>3 DEF CallInv
<1>10. Tokens'
  <2>1. ASSUME NEW p \in Phone, token'[p] # NoToken
        PROVE  LoggedIn(p, token[p].user)'
    <3>1. CASE token'[p] = token[p]
      BY <1>1, <1>6, <2>1, <3>1 DEF Tokens, LoggedIn, LogInsKept, Code, NoToken
    <3>2. CASE token'[p] # token[p]
      <4>1. /\ op[c] = "token" /\ Code(c) = 200 /\ p = phone[c]
            /\ token'[p] = answer[c].token
        BY <1>1, <1>3, <3>2 DEF TypeOK
      <4>2. token'[p].user = arg[c]
        BY <1>1, <4>1 DEF CallInv, Answered
      <4>3. state'[c] = "completed"
        BY <1>5, <4>1
      <4> QED
        BY <1>2, <4>1, <4>2, <4>3 DEF LoggedIn, Code
    <3> QED
      BY <3>1, <3>2
  <2> QED
    BY <2>1 DEF Tokens, NoToken
<1> QED
  BY <1>4, <1>7, <1>8, <1>9, <1>10 DEF ApiInv

(* The steps that change no more than the clock, the tokens and who waits. *)
LEMMA GiveUpStep ==
  ASSUME ApiInv, UNCHANGED <<store, pc, request, loaded, answer, phone, began>>,
         clock' \in Nat,
         \A d \in Call : state'[d] # state[d] => state[d] = "waiting" /\ state'[d] = "silent",
         \A p \in Phone : token'[p] \in {NoToken, token[p]},
         state' \in [Call -> {"unused", "waiting", "completed", "silent"}],
         token' \in [Phone -> Token]
  PROVE  ApiInv'
<1>1. TypeOK /\ Tokens
  BY DEF ApiInv
<1>2. UNCHANGED <<table, mails, pc, op, bearer, arg, loaded, answer, phone, began>>
  BY DEF store, request
<1>3. TypeOK'
  BY <1>1, <1>2 DEF TypeOK
<1>4. LogInsKept /\ Onward
  BY <1>2 DEF LogInsKept, Onward
<1>5. Grown /\ Rows' /\ Letters'
  BY <1>2, <1>4, StoreKept DEF store
<1>6. ASSUME NEW d \in Call
      PROVE  CallInv(d)'
  <2>1. Alone(d)
    BY <1>2 DEF Alone
  <2>2. CallInv(d)
    BY DEF ApiInv
  <2> QED
    BY <1>1, <1>3, <1>4, <1>5, <2>1, <2>2, Frame
<1>7. Tokens'
  BY <1>1, <1>4 DEF Tokens, LoggedIn, LogInsKept, Code, NoToken
<1> QED
  BY <1>3, <1>5, <1>6, <1>7 DEF ApiInv

LEMMA ExitStep ==
  ASSUME ApiInv, NEW p, Exit(p)
  PROVE  ApiInv'
<1>1. TypeOK
  BY DEF ApiInv
<1>2. NoToken \in Token
  BY DEF Token
<1> QED
  BY <1>1, <1>2, GiveUpStep DEF Exit, server, TypeOK

LEMMA NetworkErrorStep ==
  ASSUME ApiInv, NEW c \in Call, NetworkError(c)
  PROVE  ApiInv'
<1>1. TypeOK
  BY DEF ApiInv
<1> QED
  BY <1>1, GiveUpStep DEF NetworkError, server, TypeOK

LEMMA DieStep ==
  ASSUME ApiInv, NEW c \in Call, Die(c), UNCHANGED client
  PROVE  ApiInv'
<1>1. TypeOK /\ Tokens /\ CallInv(c)
  BY DEF ApiInv
<1>2. UNCHANGED <<table, mails, clock, op, bearer, arg, loaded, answer, token, state,
                  phone, began>>
  BY DEF Die, store, request, client
<1>3. pc[c] \in Handling /\ pc' = [pc EXCEPT ![c] = "lost"]
  BY DEF Die
<1>4. pc'[c] = "lost" /\ \A d \in Call \ {c} : pc'[d] = pc[d]
  BY <1>1, <1>3 DEF TypeOK
<1>5. TypeOK'
  <2>1. pc' \in [Call -> {"idle", "answered", "lost"} \cup Handling]
    BY <1>1, <1>3 DEF TypeOK
  <2> QED
    BY <1>1, <1>2, <2>1 DEF TypeOK
<1>6. LogInsKept /\ Onward
  BY <1>2, <1>3, <1>4 DEF LogInsKept, Onward, Handling
<1>7. Grown /\ Rows' /\ Letters'
  BY <1>2, <1>6, StoreKept DEF store
<1>8. ASSUME NEW d \in Call \ {c}
      PROVE  CallInv(d)'
  <2>1. Alone(d)
    BY <1>2, <1>4 DEF Alone
  <2>2. CallInv(d)
    BY DEF ApiInv
  <2> QED
    BY <1>1, <1>5, <1>6, <1>7, <2>1, <2>2, Frame
<1>9. CallInv(c)'
  <2>1. Begun(c)'
    BY <1>1, <1>2, <1>3, <1>4 DEF CallInv, Begun, Handling, LoggedIn, Code
  <2>2. Handled(c)'
    BY <1>4 DEF Handled
  <2>3. Answered(c)'
    BY <1>1, <1>2, <1>3, <1>4 DEF CallInv, Answered, Handling, Code, NoAnswer
  <2> QED
    BY <2>1, <2>2, <2>3 DEF CallInv
<1> QED
  BY <1>1, <1>2, <1>5, <1>6, <1>7, <1>8, <1>9, TokensKept DEF ApiInv

LEMMA TickStep ==
  ASSUME ApiInv, Tick, UNCHANGED client
  PROVE  ApiInv'
<1>1. TypeOK
  BY DEF ApiInv
<1>2. clock' \in Nat
  BY <1>1 DEF Tick, TypeOK
<1> QED
  BY <1>1, <1>2, GiveUpStep DEF Tick, client, TypeOK

LEMMA StutterStep ==
  ASSUME ApiInv, UNCHANGED vars
  PROVE  ApiInv'
<1>1. TypeOK
  BY DEF ApiInv
<1> QED
  BY <1>1, GiveUpStep DEF vars, server, client, TypeOK

-----------------------------------------------------------------------------
(* The invariant.                                                          *)

LEMMA InitApiInv == Init => ApiInv
<1> SUFFICES ASSUME Init
             PROVE  ApiInv
  OBVIOUS
<1> USE ApiAssumption DEF Init, ApiInit
<1>1. /\ Len(Stored) \in Nat
      /\ \A i \in 1..Len(Stored) : Stored[i] \in Patient
  BY LenProperties, ElementOfSeq
<1>2. /\ table \in Seq(Measurement) /\ Len(table) = Len(Stored)
      /\ \A i \in 1..Len(table) : table[i].by = None
  <2>1. \A i \in 1..Len(Stored) : [owner |-> Stored[i], by |-> None] \in Measurement
    BY <1>1 DEF Measurement
  <2>2. table \in Seq(Measurement)
    BY <1>1, <2>1, IsASeq
  <2>3. Len(table) = Len(Stored)
    BY <1>1, <2>2, LenProperties
  <2> QED
    BY <2>2, <2>3
<1>3. TypeOK
  <2>1. NoToken \in Token /\ NoAnswer \in Answer
    BY DEF Token, Answer, NoAnswer
  <2> QED
    BY <1>2, <2>1 DEF TypeOK
<1>4. Rows /\ Letters /\ Tokens
  BY <1>1, <1>2 DEF Rows, Letters, Tokens
<1>5. ASSUME NEW c \in Call
      PROVE  CallInv(c)
  BY <1>1, <1>2 DEF CallInv, Begun, Handled, Answered, Code, NoAnswer
<1> QED
  BY <1>3, <1>4, <1>5 DEF ApiInv

LEMMA MakeStep ==
  ASSUME ApiInv, NEW c \in Call, NEW p \in Phone, Make(c, p)
  PROVE  ApiInv'
<1> USE DEF AccountOps, TacpacOps
<1>1. CASE Login(c, p)
  <2>1. PICK u \in User \cup {None} : Send(c, p, "token", NoToken, u)
    BY <1>1 DEF Login
  <2> QED
    BY <2>1, SendStep
<1>2. CASE Signup(c, p)
  BY <1>2, SendStep DEF Signup
<1>3. CASE UploadMeasurement(c, p)
  BY <1>3, SendStep DEF UploadMeasurement, POSTrequest
<1>4. CASE GetMeasurements(c, p)
  <2>1. PICK a \in Amount : POSTrequest(c, p, "getPastMeasurement", a)
    BY <1>4 DEF GetMeasurements
  <2>2. a \in Int
    BY ApiAssumption
  <2> QED
    BY <2>1, <2>2, SendStep DEF POSTrequest
<1>5. CASE Export(c, p)
  BY <1>5, SendStep DEF Export, POSTrequest
<1>6. CASE CheckToken(c, p)
  BY <1>6, SendStep DEF CheckToken, POSTrequest
<1> QED
  BY <1>1, <1>2, <1>3, <1>4, <1>5, <1>6 DEF Make

LEMMA NextApiInv == ApiInv /\ [Next]_vars => ApiInv'
<1> SUFFICES ASSUME ApiInv, [Next]_vars
             PROVE  ApiInv'
  OBVIOUS
<1>1. CASE UNCHANGED vars
  BY <1>1, StutterStep
<1>2. CASE \E c \in Call, p \in Phone : Make(c, p)
  BY <1>2, MakeStep
<1>3. CASE \E c \in Call : Complete(c) \/ NetworkError(c) \/ LoginCrash(c)
  BY <1>3, CompleteStep, NetworkErrorStep, ExitStep DEF LoginCrash
<1>4. CASE \E p \in Phone : Kill(p)
  BY <1>4, ExitStep DEF Kill
<1>5. CASE \E c \in Call : Handle(c) /\ UNCHANGED client
  BY <1>5, HandleStep, LoadStep
<1>6. CASE \E c \in Call : Die(c) /\ UNCHANGED client
  BY <1>6, DieStep
<1>7. CASE Tick /\ UNCHANGED client
  BY <1>7, TickStep
<1> QED
  BY <1>1, <1>2, <1>3, <1>4, <1>5, <1>6, <1>7 DEF Next

THEOREM ApiInvariant == Spec => []ApiInv
BY InitApiInv, NextApiInv, PTL DEF Spec

(* The types, with the owner of every measurement a patient.               *)
THEOREM TypeCorrect == Spec => []TypeOK
<1>1. ApiInv => TypeOK
  BY DEF ApiInv
<1> QED
  BY <1>1, ApiInvariant, PTL

(* No upload adds two measurements, and one that is acknowledged adds one. *)
THEOREM UploadsAreKept == Spec => []UploadsKept
<1>1. ApiInv => UploadsKept
  <2>1. None \notin Call
    BY ApiAssumption DEF Call
  <2> QED
    BY <2>1 DEF ApiInv, Rows, CallInv, Answered, UploadsKept
<1> QED
  BY <1>1, ApiInvariant, PTL

(* Every measurement that is added belongs to an account its phone has     *)
(* logged in to.                                                           *)
THEOREM ReadingsAreOwned == Spec => []ReadingsByTheLoggedIn
<1>1. ApiInv => ReadingsByTheLoggedIn
  <2> SUFFICES ASSUME ApiInv, NEW i \in 1..Len(table), table[i].by # None
               PROVE  LoggedIn(phone[table[i].by], table[i].owner)
    BY DEF ReadingsByTheLoggedIn
  <2> DEFINE c == table[i].by
  <2>1. table[i] \in Measurement
    BY ElementOfSeq DEF ApiInv, TypeOK
  <2>2. c \in Call /\ table[i].owner \in User
    BY <2>1, ApiAssumption DEF Measurement
  <2>3. table[i].owner = bearer[c].user
    BY <2>2 DEF ApiInv, Rows
  <2>4. bearer[c] # NoToken
    BY <2>2, <2>3, ApiAssumption DEF NoToken
  <2>5. LoggedIn(phone[c], bearer[c].user)
    BY <2>2, <2>4 DEF ApiInv, CallInv, Begun
  <2> QED
    BY <2>3, <2>5
<1> QED
  BY <1>1, ApiInvariant, PTL

(* A list is what its caller asked for of the table as it was at a moment  *)
(* of the call.                                                            *)
THEOREM ListsAreCurrent == Spec => []ListsWereCurrent
<1>1. ApiInv => ListsWereCurrent
  BY DEF ApiInv, CallInv, Answered, Fits, ListsWereCurrent
<1> QED
  BY <1>1, ApiInvariant, PTL

(* An export that is reported without an error has been mailed, and every  *)
(* mail has the measurements of its patient at a moment of the call.       *)
THEOREM ExportsAreMailed == Spec => []ExportsWereMailed
<1>1. ApiInv => ExportsWereMailed
  BY DEF ApiInv, CallInv, Answered, Letters, Was, ExportError, ExportsWereMailed
<1> QED
  BY <1>1, ApiInvariant, PTL
=============================================================================
