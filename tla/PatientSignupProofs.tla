------------------------- MODULE PatientSignupProofs ------------------------
(***************************************************************************)
(* A sign-up of PatientApp that has made the account is carried through,   *)
(* for every set of phones, patients, forms and physicians.                *)
(***************************************************************************)
EXTENDS PatientRecordsProofs

(* A profile never waits without the physician.                            *)
Paired(d) ==
  \A o \in Writes(d) : o.op = "profile" =>
    \E p \in Writes(d) : p.op = "link" /\ p.uid = o.uid

(* A phone that is off has nothing under way.                              *)
Off(d) == screen[d] \in Stopped => outbox[d] = <<>> /\ auth[d] = <<>>

CarryInv ==
  /\ \A l \in links : profiles[l[2]] # None
  /\ \A d \in Device : Paired(d) /\ Off(d)

LEMMA WritesAt ==
  ASSUME NEW d \in Device
  PROVE  /\ \A kind \in {"profile", "link", "reading"} :
              \A k \in At(d, kind) : outbox[d][k] \in Writes(d)
         /\ \A o \in Writes(d) : \E k \in At(d, o.op) : o = outbox[d][k]
BY DEF Writes, At, IsWrite

LEMMA QueuedLonger ==
  ASSUME TypeOK, NEW d \in Device, NEW q \in Seq(Op), NEW ops \in Seq(Op),
         q = outbox[d] \/ q = Unseen(outbox[d]), outbox'[d] = q \o ops
  PROVE  Longer(d, ops)
<1>1. outbox[d] \in Seq(Op)
  BY DEF TypeOK
<1>2. /\ Len(q) = Len(outbox[d])
      /\ \A k \in 1..Len(q) :
           q[k] = outbox[d][k] \/ (~IsWrite(q[k]) /\ ~IsWrite(outbox[d][k]))
  BY <1>1, UnseenWrites
<1> QED
  BY <1>2, BoxLonger

(* What the steps that add to the outbox add.                              *)
Added(d, ops) ==
  /\ ops \in Seq(Op)
  /\ \/ outbox'[d] = outbox[d] \o ops
     \/ outbox'[d] = Unseen(outbox[d]) \o ops

LEMMA AddedLonger ==
  ASSUME TypeOK, NEW d \in Device, NEW ops, Added(d, ops)
  PROVE  Longer(d, ops)
<1>1. outbox[d] \in Seq(Op) /\ Unseen(outbox[d]) \in Seq(Op)
  BY UnseenIs DEF TypeOK
<1> QED
  BY <1>1, QueuedLonger DEF Added

(* The writes of a sign-up, once they are issued.                          *)
LEMMA SignedUpWrites ==
  ASSUME TypeOK, NEW d \in Device, NEW k \in 1..Len(auth[d]), SignedUp(d, k)
  PROVE  LET e == EmailOf[auth[d][k].form]
         IN /\ \E o \in Writes(d)' : o.op = "link" /\ o.uid = e
            /\ \A o \in Writes(d)' : o.op = "profile" => o \in Writes(d) \/ o.uid = e
<1>0. PICK r : r = auth[d][k]
  OBVIOUS
<1>1. PICK e : e = EmailOf[r.form]
  OBVIOUS
<1> DEFINE ops == Aspects(r)
           n == Len(outbox[d])
<1>2. r \in Request /\ r.kind = "created"
  BY <1>0, ElementOfSeq DEF SignedUp, TypeOK
<1>3. /\ ops \in Seq(Op) /\ Len(ops) = 3
      /\ ops[1].op = "profile" /\ ops[1].uid = e
      /\ ops[2].op = "link" /\ ops[2].uid = e
      /\ ops[3].op = "fetch"
  <2>1. ops \in Seq(Op)
    BY <1>2, AspectOps, OpOfOp
  <2> QED
    BY <1>1, <2>1 DEF Aspects, Fetch
<1>4. outbox'[d] = Unseen(outbox[d]) \o ops
  BY <1>0 DEF SignedUp, Root, TypeOK
<1> HIDE DEF ops
<1>5. Longer(d, ops)
  BY <1>3, <1>4, AddedLonger DEF Added
<1>6. n + 2 \in At(d, "link")' /\ outbox'[d][n + 2] = ops[2]
  BY <1>3, <1>5 DEF Longer
<1>7. ASSUME NEW i \in At(d, "profile")'
      PROVE  outbox'[d][i] \in Writes(d) \/ outbox'[d][i].uid = e
  <2>1. CASE i \in At(d, "profile")
    BY <1>5, <2>1, WritesAt DEF Longer
  <2>2. CASE i \notin At(d, "profile")
    <3>1. PICK j \in 1..Len(ops) : i = n + j /\ ops[j].op = "profile"
      BY <1>5, <2>2 DEF Longer
    <3>2. j = 1
      BY <1>3, <3>1
    <3>3. outbox'[d][n + 1] = ops[1]
      BY <1>3, <1>5 DEF Longer
    <3> QED
      BY <1>3, <3>1, <3>2, <3>3
  <2> QED
    BY <2>1, <2>2
<1>8. outbox'[d][n + 2] \in Writes(d)'
  BY <1>6 DEF Writes, At, IsWrite
<1>9. \A o \in Writes(d)' : o.op = "profile" =>
        \E i \in At(d, "profile")' : o = outbox'[d][i]
  BY DEF Writes, At
<1>10. \A o \in Writes(d)' : o.op = "profile" => o \in Writes(d) \/ o.uid = e
  BY <1>7, <1>9
<1> QED
  BY <1>0, <1>1, <1>3, <1>6, <1>8, <1>10

(* No other step issues a profile.                                         *)
LEMMA NoProfile ==
  ASSUME NEW d \in Device,
         \A k \in At(d, "profile")' : \E j \in At(d, "profile") :
           outbox'[d][k] = outbox[d][j]
  PROVE  \A o \in Writes(d)' : o.op = "profile" => o \in Writes(d)
BY DEF Writes, At, IsWrite

LEMMA NoneAdded ==
  ASSUME TypeOK, NEW d \in Device, NEW ops, Added(d, ops),
         \A i \in 1..Len(ops) : ops[i].op # "profile"
  PROVE  \A o \in Writes(d)' : o.op = "profile" => o \in Writes(d)
<1>1. /\ At(d, "profile")' = At(d, "profile")
      /\ \A k \in At(d, "profile") : outbox'[d][k] = outbox[d][k]
  BY AddedLonger, LongerSame
<1> QED
  BY <1>1, NoProfile

LEMMA OneAdded ==
  ASSUME TypeOK, NEW d \in Device, NEW o \in Op, o.op # "profile", Added(d, <<o>>)
  PROVE  \A p \in Writes(d)' : p.op = "profile" => p \in Writes(d)
<1>1. \A i \in 1..Len(<<o>>) : <<o>>[i].op # "profile"
  OBVIOUS
<1> QED
  BY <1>1, NoneAdded

LEMMA ProfilesIssued ==
  ASSUME AppInv, NEW d \in Device, Tap(d) \/ Answer(d) \/ Serve(d) \/ Kill(d),
         \A k \in 1..Len(auth[d]) : ~SignedUp(d, k)
  PROVE  \A o \in Writes(d)' : o.op = "profile" => o \in Writes(d)
<1>1. TypeOK /\ user[d] \in Email \cup {None}
  BY DEF AppInv, TypeOK
<1>2. CASE outbox'[d] = outbox[d]
  BY <1>2 DEF Writes
<1>3. CASE outbox'[d] = <<>>
  BY <1>3, EmptySeq DEF Writes
<1>4. CASE outbox[d] # <<>> /\ outbox'[d] = Tail(outbox[d])
  <2>1. Shifted(d, 1)
    BY <1>1, <1>4, BoxSent
  <2> QED
    BY <2>1, NoProfile DEF Shifted
<1>5. CASE \E g \in Form : TapSignup(d, g)
  <2>1. PICK g \in Form : TapSignup(d, g)
    BY <1>5
  <2>2. PICK o : o = [op |-> "query", form |-> g]
    OBVIOUS
  <2>3. o \in Op /\ o.op # "profile" /\ outbox'[d] = outbox[d] \o <<o>>
    BY <1>1, <2>1, <2>2 DEF TapSignup, Issue, TypeOK, Op
  <2>4. Added(d, <<o>>)
    BY <2>3 DEF Added
  <2> QED
    BY <1>1, <2>3, <2>4, OneAdded
<1>6. CASE ToHistory(d)
  <2>1. PICK o : o = Fetch(user[d])
    OBVIOUS
  <2>2. o \in Op /\ o.op # "profile"
    BY <1>1, <2>1, FetchIs DEF IsWrite
  <2>3. <<>> \o <<o>> = <<o>>
    BY <2>2, ConcatEmptySeq
  <2>4. outbox'[d] = outbox[d] \o <<o>>
    BY <1>1, <1>6, <2>1, <2>3 DEF ToHistory, Appear, Issue, TypeOK
  <2>5. Added(d, <<o>>)
    BY <2>2, <2>4 DEF Added
  <2> QED
    BY <1>1, <2>2, <2>5, OneAdded
<1>7. CASE SaveReading(d)
  <2>1. PICK a : a = [op |-> "reading",
                      reading |-> [id |-> clock + 1, uid |-> user[d],
                                   by |-> patient[d], on |-> d]]
    OBVIOUS
  <2>2. PICK b : b = Fetch(user[d])
    OBVIOUS
  <2>3. a \in Op /\ a.op # "profile" /\ b \in Op /\ b.op # "profile"
    <3>1. [id |-> clock + 1, uid |-> user[d], by |-> patient[d], on |-> d] \in Reading
      BY <1>1, AppAssumption DEF TypeOK, Reading
    <3> QED
      BY <1>1, <2>1, <2>2, <3>1, FetchIs DEF IsWrite, Op
  <2>4. outbox'[d] = outbox[d] \o (<<a>> \o <<b>>)
    BY <1>1, <1>7, <2>1, <2>2 DEF SaveReading, Appear, Issue, TypeOK
  <2>5. PICK ops : ops = <<a>> \o <<b>>
    OBVIOUS
  <2>6. ops \in Seq(Op) /\ Len(ops) = 2 /\ ops[1] = a /\ ops[2] = b
    BY <2>3, <2>5, PairIs
  <2>7. Added(d, ops) /\ \A i \in 1..Len(ops) : ops[i].op # "profile"
    BY <2>3, <2>4, <2>5, <2>6 DEF Added
  <2> QED
    BY <1>1, <2>7, NoneAdded
<1>8. CASE Logout(d)
  <2>1. <<>> \in Seq(Op) /\ Len(<<>>) = 0
    BY EmptySeq
  <2>2. Added(d, <<>>)
    BY <1>1, <1>8, <2>1 DEF Logout, Root, Added, TypeOK
  <2> QED
    BY <1>1, <2>1, <2>2, NoneAdded
<1>9. CASE \E k \in 1..Len(auth[d]) : LoggedIn(d, k)
  <2>1. PICK k \in 1..Len(auth[d]) : LoggedIn(d, k)
    BY <1>9
  <2>2. PICK o : o = Fetch(auth[d][k].email)
    OBVIOUS
  <2>3. o \in Op /\ o.op # "profile"
    BY <1>1, <2>1, <2>2, FetchIs DEF LoggedIn, IsWrite, TypeOK
  <2>4. Added(d, <<o>>)
    BY <1>1, <2>1, <2>2, <2>3 DEF LoggedIn, Root, Added, TypeOK
  <2> QED
    BY <1>1, <2>3, <2>4, OneAdded
<1>10. CASE Serve(d)
  BY <1>1, <1>4, <1>10 DEF Serve, CodeAnswered, StoreProfile, StoreLink,
     StoreReading, HistoryLoaded, StaleAnswer, Due, Sent, TypeOK
<1>11. CASE Kill(d)
  BY <1>1, <1>3, <1>11 DEF Kill, End, TypeOK
<1>12. CASE Answer(d)
  BY <1>2, <1>9, <1>12 DEF Answer, AuthFails, CreateUser
<1>13. CASE Tap(d)
  <2>1. CASE SaveCrashes(d) \/ SendExport(d)
    BY <1>1, <1>3, <2>1 DEF SaveCrashes, SendExport, End, TypeOK
  <2>2. CASE (\E e \in Email : TapLogin(d, e)) \/ Move(d) \/ Launch(d)
    BY <1>2, <2>2 DEF TapLogin, Move, Launch
  <2> QED
    BY <1>5, <1>6, <1>7, <1>8, <1>13, <2>1, <2>2 DEF Tap
<1> QED
  BY <1>10, <1>11, <1>12, <1>13

LEMMA OffKept ==
  ASSUME AppInv, NEW d \in Device, Off(d), Tap(d) \/ Answer(d) \/ Serve(d) \/ Kill(d)
  PROVE  Off(d)'
<1>1. TypeOK
  BY DEF AppInv
<1>2. CASE \E s : End(d, s)
  BY <1>1, <1>2 DEF End, Off, TypeOK
<1>3. CASE screen[d] \in Stopped /\ ~\E s : End(d, s)
  <2>1. outbox[d] = <<>> /\ Len(auth[d]) = 0
    BY <1>3, EmptySeq DEF Off
  <2>2. ~Answer(d) /\ ~Serve(d) /\ ~Kill(d)
    BY <1>3, <2>1 DEF Answer, Serve, CodeAnswered, StoreProfile, StoreLink,
       StoreReading, HistoryLoaded, StaleAnswer, Due, Kill
  <2>3. Launch(d)
    <3>1. ~Move(d)
      BY <1>3 DEF Move, Moves, Stopped
    <3>2. ~SaveCrashes(d) /\ ~SendExport(d)
      BY <1>3 DEF SaveCrashes, SendExport
    <3>3. /\ \A e \in Email : ~TapLogin(d, e)
          /\ \A g \in Form : ~TapSignup(d, g)
          /\ ~ToHistory(d) /\ ~SaveReading(d) /\ ~Logout(d)
      BY <1>3 DEF TapLogin, TapSignup, ToHistory, SaveReading, Logout, Stopped
    <3> QED
      BY <2>2, <3>1, <3>2, <3>3 DEF Tap
  <2> QED
    BY <1>1, <1>3, <2>3 DEF Launch, Show, Off, Stopped, TypeOK
<1>4. CASE screen[d] \notin Stopped /\ ~\E s : End(d, s)
  <2>1. screen'[d] \notin Stopped
    <3>1. CASE Tap(d)
      <4>1. ~SaveCrashes(d) /\ ~SendExport(d)
        BY <1>4 DEF SaveCrashes, SendExport
      <4>2. CASE Move(d)
        BY <1>1, <4>2 DEF Move, Moves, Show, Stopped, TypeOK
      <4>3. CASE ToHistory(d) \/ SaveReading(d) \/ Logout(d) \/ Launch(d)
        BY <1>1, <4>3 DEF ToHistory, SaveReading, Appear, Logout, Root, Launch, Show,
           Stopped, TypeOK
      <4>4. CASE (\E e \in Email : TapLogin(d, e)) \/ \E g \in Form : TapSignup(d, g)
        BY <1>4, <4>4 DEF TapLogin, TapSignup
      <4> QED
        BY <3>1, <4>1, <4>2, <4>3, <4>4 DEF Tap
    <3>2. CASE Answer(d)
      BY <1>1, <1>4, <3>2 DEF Answer, LoggedIn, AuthFails, CreateUser, SignedUp, Root,
         Show, Stopped, TypeOK
    <3>3. CASE Serve(d)
      BY <1>1, <1>4, <3>3 DEF Serve, CodeAnswered, StoreProfile, StoreLink,
         StoreReading, HistoryLoaded, StaleAnswer
    <3>4. ~Kill(d)
      BY <1>4 DEF Kill
    <3> QED
      BY <3>1, <3>2, <3>3, <3>4
  <2> QED
    BY <2>1 DEF Off
<1> QED
  BY <1>2, <1>3, <1>4

LEMMA OthersStill ==
  ASSUME AppInv, NEW d \in Device, Tap(d) \/ Answer(d) \/ Serve(d) \/ Kill(d),
         NEW e \in Device \ {d}
  PROVE  screen'[e] = screen[e] /\ auth'[e] = auth[e] /\ outbox'[e] = outbox[e]
BY DEF Tap, Answer, Serve, Kill, TapLogin, TapSignup, Move, ToHistory, SaveReading,
       Appear, Issue, Logout, Root, Show, SaveCrashes, SendExport, End, Launch, LoggedIn,
       AuthFails, CreateUser, SignedUp, Answered, CodeAnswered, StoreProfile, StoreLink,
       StoreReading, HistoryLoaded, StaleAnswer, Sent, AppInv, TypeOK

LEMMA PairedKept ==
  ASSUME AppInv, RecordsInv', CarryInv, Next, NEW d \in Device, Off(d)'
  PROVE  Paired(d)'
<1> SUFFICES ASSUME NEW o \in Writes(d)', o.op = "profile"
             PROVE  \E p \in Writes(d)' : p.op = "link" /\ p.uid = o.uid
  BY DEF Paired
<1>1. TypeOK
  BY DEF AppInv
<1>2. screen'[d] \notin Stopped
  BY EmptySeq DEF Off, Writes
<1>3. CASE o \in Writes(d)
  <2>1. PICK p \in Writes(d) : p.op = "link" /\ p.uid = o.uid
    BY <1>3 DEF CarryInv, Paired
  <2>2. p \in Writes(d)' \/ Arrived(p)'
    BY <1>2, NextKept DEF Kept
  <2>3. ~Arrived(p)'
    <3>1. ASSUME NEW l \in links'
          PROVE  l[2] # o.uid
      <4>1. PICK k \in At(d, "profile")' : o = outbox'[d][k]
        BY DEF Writes, At
      <4> QED
        BY <4>1 DEF RecordsInv, Means, Bare
    <3>2. <<p.doctor, p.uid>>[2] = o.uid
      BY <2>1
    <3> QED
      BY <2>1, <3>1, <3>2 DEF Arrived
  <2> QED
    BY <2>1, <2>2, <2>3
<1>4. CASE o \notin Writes(d)
  <2>1. PICK c \in Device : Tap(c) \/ Answer(c) \/ Serve(c) \/ Kill(c)
    BY DEF Next
  <2>2. c = d
    BY <1>4, <2>1, OthersStill DEF Writes
  <2>3. PICK k \in 1..Len(auth[d]) : SignedUp(d, k)
    BY <1>4, <2>1, <2>2, ProfilesIssued
  <2> QED
    BY <1>1, <1>4, <2>3, SignedUpWrites
<1> QED
  BY <1>3, <1>4

LEMMA LinksKept ==
  ASSUME TypeOK, \A l \in links : profiles[l[2]] # None, RecordsMove
  PROVE  \A l \in links' : profiles'[l[2]] # None
<1>1. \A l \in links : l[2] \in Email
  BY DEF TypeOK
<1>2. ASSUME NEW e \in Email, Records!Assign(e)
      PROVE  \A l \in links' : profiles'[l[2]] # None
  BY <1>2 DEF Records!Assign
<1>3. ASSUME NEW g \in Form, Records!Describe(g)
      PROVE  \A l \in links' : profiles'[l[2]] # None
  BY <1>1, <1>3, AppAssumption DEF Records!Describe, TypeOK
<1> QED
  BY <1>2, <1>3 DEF RecordsMove, Records!Next, Records!Create, Records!Store

LEMMA InitCarry == Init => CarryInv
<1> SUFFICES ASSUME Init
             PROVE  CarryInv
  OBVIOUS
<1>1. \A d \in Device : Writes(d) = {} /\ Off(d)
  BY EmptySeq DEF Init, Writes, Off
<1> QED
  BY <1>1 DEF Init, CarryInv, Paired

LEMMA NextCarry ==
  ASSUME AppInv, RecordsInv', RecordsMove, CarryInv, [Next]_vars
  PROVE  CarryInv'
<1>1. \A l \in links' : profiles'[l[2]] # None
  BY LinksKept DEF AppInv, CarryInv
<1>2. ASSUME NEW d \in Device
      PROVE  Paired(d)' /\ Off(d)'
  <2>1. CASE UNCHANGED vars
    BY <2>1 DEF vars, CarryInv, Paired, Off, Writes
  <2>2. CASE Next
    <3>1. PICK c \in Device : Tap(c) \/ Answer(c) \/ Serve(c) \/ Kill(c)
      BY <2>2 DEF Next
    <3>2. Off(d)'
      <4>1. CASE c = d
        BY <3>1, <4>1, OffKept DEF CarryInv
      <4>2. CASE c # d
        BY <3>1, <4>2, OthersStill DEF CarryInv, Off
      <4> QED
        BY <4>1, <4>2
    <3> QED
      BY <2>2, <3>2, PairedKept
  <2> QED
    BY <2>1, <2>2
<1> QED
  BY <1>1, <1>2 DEF CarryInv

(* The request that has made an account is answered once, by the writes.   *)
LEMMA RequestCarried ==
  ASSUME AppInv, NEW d \in Device, Next, screen'[d] \notin Stopped,
         \A k \in 1..Len(auth[d]) : ~AuthFails(d, k),
         NEW k \in 1..Len(auth[d]), auth[d][k].kind = "created",
         NEW e, e = EmailOf[auth[d][k].form]
  PROVE  Registering(d, e)'
<1>0. PICK r : r = auth[d][k]
  OBVIOUS
<1>1. e = EmailOf[r.form] /\ r.kind = "created"
  BY <1>0
<1>2. TypeOK /\ auth[d] \in Seq(Request) /\ Len(auth[d]) \in Nat
  BY DEF AppInv, TypeOK
<1>3. SUFFICES \/ \E i \in 1..Len(auth'[d]) : auth'[d][i] = r
               \/ \E o \in Writes(d)' : o.op = "link" /\ o.uid = e
  BY <1>0, <1>1 DEF Registering
<1>4. CASE auth'[d] = auth[d]
  BY <1>0, <1>4
<1>5. CASE \E s \in Request : auth'[d] = Append(auth[d], s)
  <2>1. PICK s \in Request : auth'[d] = Append(auth[d], s)
    BY <1>5
  <2>2. k \in 1..Len(auth'[d]) /\ auth'[d][k] = auth[d][k]
    BY <1>2, <2>1, AppendProperties
  <2> QED
    BY <1>0, <2>2
<1>6. CASE \E j \in 1..Len(auth[d]) : CreateUser(d, j)
  <2>1. PICK j \in 1..Len(auth[d]) : CreateUser(d, j)
    BY <1>6
  <2>2. j # k
    BY <2>1 DEF CreateUser
  <2>3. auth' = [auth EXCEPT ![d] = [auth[d] EXCEPT ![j].kind = "created"]]
    BY <2>1 DEF CreateUser
  <2>4. auth'[d] = [auth[d] EXCEPT ![j].kind = "created"]
    BY <1>2, <2>3 DEF TypeOK
  <2>5. Len(auth'[d]) = Len(auth[d]) /\ auth'[d][k] = auth[d][k]
    BY <1>2, <2>2, <2>4
  <2> QED
    BY <1>0, <2>5
<1>7. CASE SignedUp(d, k)
  BY <1>0, <1>1, <1>2, <1>7, SignedUpWrites
<1>8. CASE \E j \in 1..Len(auth[d]) : j # k /\ Answered(d, j)
  <2>1. PICK j \in 1..Len(auth[d]) : j # k /\ Answered(d, j)
    BY <1>8
  <2>2. auth'[d] = Without(auth[d], j)
    BY <1>2, <2>1 DEF Answered, TypeOK
  <2>3. PICK i : i = IF k < j THEN k ELSE k - 1
    OBVIOUS
  <2>4. i \in 1..(Len(auth[d]) - 1) /\ (IF i < j THEN i ELSE i + 1) = k
    BY <1>2, <2>1, <2>3
  <2>5. Len(auth'[d]) = Len(auth[d]) - 1 /\ auth'[d][i] = auth[d][k]
    BY <1>2, <2>2, <2>4, WithoutIs
  <2> QED
    BY <1>0, <2>4, <2>5
<1>9. PICK c \in Device : Tap(c) \/ Answer(c) \/ Serve(c) \/ Kill(c)
  BY DEF Next
<1>10. CASE c # d
  BY <1>4, <1>9, <1>10, OthersStill
<1>11. CASE c = d /\ Tap(d)
  <2>1. CASE \E x \in Email : TapLogin(d, x)
    <3>1. PICK x \in Email : TapLogin(d, x)
      BY <2>1
    <3>2. [kind |-> "login", email |-> x] \in Request
      BY DEF Request
    <3> QED
      BY <1>2, <1>5, <3>1, <3>2 DEF TapLogin, TypeOK
  <2>2. CASE SaveCrashes(d) \/ SendExport(d)
    BY <1>2, <2>2 DEF SaveCrashes, SendExport, End, Stopped, TypeOK
  <2> QED
    BY <1>4, <1>11, <2>1, <2>2 DEF Tap, TapSignup, Move, ToHistory, SaveReading, Logout,
       Launch
<1>12. CASE c = d /\ Answer(d)
  <2>1. PICK j \in 1..Len(auth[d]) : LoggedIn(d, j) \/ CreateUser(d, j) \/ SignedUp(d, j)
    BY <1>12 DEF Answer
  <2>2. CASE j = k
    BY <1>6, <1>7, <2>1, <2>2 DEF LoggedIn
  <2>3. CASE j # k
    BY <1>6, <1>8, <2>1, <2>3 DEF LoggedIn, SignedUp
  <2> QED
    BY <2>2, <2>3
<1>13. CASE c = d /\ Serve(d)
  <2>1. CASE CodeAnswered(d) /\ auth' # auth
    <3>1. PICK g : g = Head(outbox[d]).form
      OBVIOUS
    <3>2. /\ outbox[d] # <<>> /\ Head(outbox[d]).op = "query"
          /\ \E doctor \in DoctorsOf[g] : auth' = [auth EXCEPT ![d] = Append(@,
               [kind |-> "create", form |-> g, doctor |-> doctor])]
      BY <2>1, <3>1 DEF CodeAnswered, Due
    <3>3. g \in Form
      <4>1. Head(outbox[d]) \in Op
        BY <1>2, <3>2, HeadTailProperties DEF TypeOK
      <4> QED
        BY <3>1, <3>2, <4>1, OpFields
    <3>4. PICK doctor \in DoctorsOf[g] : auth' = [auth EXCEPT ![d] = Append(@,
               [kind |-> "create", form |-> g, doctor |-> doctor])]
      BY <3>2
    <3>5. [kind |-> "create", form |-> g, doctor |-> doctor] \in Request
      BY <3>3, AppAssumption DEF Request
    <3>6. auth'[d] = Append(auth[d], [kind |-> "create", form |-> g, doctor |-> doctor])
      BY <1>2, <3>4 DEF TypeOK
    <3> QED
      BY <1>5, <3>5, <3>6
  <2> QED
    BY <1>4, <1>13, <2>1 DEF Serve, StoreProfile, StoreLink, StoreReading,
       HistoryLoaded, StaleAnswer
<1>14. CASE c = d /\ Kill(d)
  BY <1>2, <1>14 DEF Kill, End, Stopped, TypeOK
<1> QED
  BY <1>9, <1>10, <1>11, <1>12, <1>13, <1>14

LEMMA WriteCarried ==
  ASSUME AppInv, AppInv', CarryInv, CarryInv', NEW d \in Device, Next,
         screen'[d] \notin Stopped,
         NEW o \in Writes(d), o.op \in {"profile", "link"}
  PROVE  Registering(d, o.uid)' \/ Complete(o.uid)'
<1>0. PICK e : e = o.uid
  OBVIOUS
<1>1. \A p \in Writes(d) : p \in Writes(d)' \/ Arrived(p)'
  BY NextKept DEF Kept
<1>2. SUFFICES \/ \E p \in Writes(d)' : p.op \in {"profile", "link"} /\ p.uid = e
               \/ Complete(e)'
  BY <1>0 DEF Registering
<1>3. CASE o.op = "link"
  <2>1. CASE <<o.doctor, e>> \in links'
    <3>1. <<o.doctor, e>>[2] = e
      OBVIOUS
    <3>2. profiles'[e] # None
      BY <2>1, <3>1 DEF CarryInv
    <3> QED
      BY <2>1, <3>1, <3>2 DEF Complete
  <2> QED
    BY <1>0, <1>1, <1>3, <2>1 DEF Arrived
<1>4. CASE o.op = "profile"
  <2>1. PICK p \in Writes(d) : p.op = "link" /\ p.uid = e
    BY <1>0, <1>4 DEF CarryInv, Paired
  <2>2. CASE <<p.doctor, e>> \in links'
    <3>1. <<p.doctor, e>>[2] = e
      OBVIOUS
    <3>2. profiles'[e] # None
      BY <2>2, <3>1 DEF CarryInv
    <3> QED
      BY <2>2, <3>1, <3>2 DEF Complete
  <2> QED
    BY <1>1, <2>1, <2>2 DEF Arrived
<1> QED
  BY <1>3, <1>4

(* A sign-up that has made the account goes on until the patient has a     *)
(* profile and a physician; only the end of the app, or an answer that is  *)
(* lost, leaves an account without them.                                   *)
THEOREM SignupsCarryThrough == Spec => SignupCarriesThrough
<1> DEFINE Carries ==
      \A d \in Device, e \in Email :
        Registering(d, e) =>
          \/ Registering(d, e)' \/ Complete(e)'
          \/ screen'[d] \in Stopped
          \/ \E k \in 1..Len(auth[d]) : AuthFails(d, k)
<1>1. Init => RecordsInv /\ CarryInv
  BY InitRecords, InitCarry
<1>2. AppInv /\ AppInv' /\ RecordsInv /\ CarryInv /\ [Next]_vars
        => RecordsInv' /\ CarryInv'
  BY NextRecords, NextCarry
<1>3. AppInv /\ AppInv' /\ CarryInv /\ CarryInv' /\ [Next]_vars => [Carries]_vars
  <2> SUFFICES ASSUME AppInv, AppInv', CarryInv, CarryInv', Next,
                      NEW d \in Device, NEW e \in Email, Registering(d, e),
                      screen'[d] \notin Stopped,
                      \A k \in 1..Len(auth[d]) : ~AuthFails(d, k)
               PROVE  Registering(d, e)' \/ Complete(e)'
    OBVIOUS
  <2>1. CASE \E k \in 1..Len(auth[d]) :
               auth[d][k].kind = "created" /\ EmailOf[auth[d][k].form] = e
    BY <2>1, RequestCarried
  <2>2. CASE \E o \in Writes(d) : o.op \in {"profile", "link"} /\ o.uid = e
    BY <2>2, WriteCarried
  <2> QED
    BY <2>1, <2>2 DEF Registering
<1> QED
  BY <1>1, <1>2, <1>3, AppInvariant, PTL DEF Spec, SignupCarriesThrough
=============================================================================
