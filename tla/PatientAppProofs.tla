-------------------------- MODULE PatientAppProofs --------------------------
(***************************************************************************)
(* Theorems about PatientApp, for every set of phones, patients, forms and *)
(* physicians.                                                             *)
(***************************************************************************)
EXTENDS PatientApp, SequenceTheorems, TLAPS

(* The operations that may wait on a phone whose user is u: readings are   *)
(* filed under who typed them, and the history asked for is that of u.     *)
OpOf(u) ==
  {o \in Op : /\ o.op = "reading" => o.reading.uid = o.reading.by
              /\ o.op = "fetch" => o.uid = u}

Private(d) ==
  /\ user[d] = patient[d]
  /\ screen[d] \in Start => user[d] # None
  /\ outbox[d] \in Seq(OpOf(user[d]))
  /\ \A r \in shown[d] : r.uid = user[d]

Filed == \A r \in stored : r.uid = r.by

AppInv == TypeOK /\ Filed /\ \A d \in Device : Private(d)

-----------------------------------------------------------------------------
(* Operations and requests, and the sequences that hold them.              *)

(* What an operation of each kind carries.                                 *)
LEMMA OpFields ==
  ASSUME NEW o \in Op
  PROVE  /\ o.op \in {"query", "profile", "link", "reading", "fetch", "stale"}
         /\ o.op = "query" => o.form \in Form
         /\ o.op = "profile" => o.uid \in Email /\ o.form \in Form
         /\ o.op = "link" => o.uid \in Email /\ o.doctor \in Doctor
         /\ o.op = "reading" => o.reading \in Reading
BY DEF Op

(* What a request of each kind carries.                                    *)
LEMMA RequestFields ==
  ASSUME NEW r \in Request
  PROVE  /\ r.kind = "login" => r.email \in Email
         /\ r.kind \in {"create", "created"} => r.form \in Form /\ r.doctor \in Doctor
         /\ r.kind \in {"create", "created"} =>
              [r EXCEPT !.kind = "created"] \in Request
BY DEF Request

LEMMA FetchOp ==
  ASSUME NEW u \in Email \cup {None}
  PROVE  Fetch(u) \in OpOf(u)
BY DEF Fetch, OpOf, Op

LEMMA QueryOp ==
  ASSUME NEW f \in Form, NEW u
  PROVE  [op |-> "query", form |-> f] \in OpOf(u)
BY DEF OpOf, Op

LEMMA StaleOp ==
  ASSUME NEW u
  PROVE  Stale \in OpOf(u)
BY DEF Stale, OpOf, Op

LEMMA ReadingOp ==
  ASSUME NEW r \in Reading, r.uid = r.by, NEW u
  PROVE  [op |-> "reading", reading |-> r] \in OpOf(u)
BY DEF OpOf, Op

LEMMA AspectOps ==
  ASSUME NEW r \in Request, r.kind = "created"
  PROVE  Aspects(r) \in Seq(OpOf(EmailOf[r.form]))
<1> DEFINE uid == EmailOf[r.form]
<1>1. r.form \in Form /\ r.doctor \in Doctor
  BY RequestFields
<1>2. uid \in Email
  BY <1>1, AppAssumption
<1>3. [op |-> "profile", uid |-> uid, form |-> r.form] \in OpOf(uid)
  BY <1>1, <1>2 DEF OpOf, Op
<1>4. [op |-> "link", uid |-> uid, doctor |-> r.doctor] \in OpOf(uid)
  BY <1>1, <1>2 DEF OpOf, Op
<1>5. Fetch(uid) \in OpOf(uid)
  BY <1>2, FetchOp
<1> QED
  BY <1>3, <1>4, <1>5 DEF Aspects

(* Once a screen is gone, what waits on the phone suits any user.          *)
LEMMA UnseenOps ==
  ASSUME NEW u, NEW v, NEW q \in Seq(OpOf(u))
  PROVE  Unseen(q) \in Seq(OpOf(v))
<1>1. Len(q) \in Nat
  BY LenProperties
<1>2. ASSUME NEW k \in 1..Len(q)
      PROVE  (IF q[k].op = "fetch" THEN Stale ELSE q[k]) \in OpOf(v)
  <2>1. q[k] \in OpOf(u)
    BY ElementOfSeq
  <2>2. CASE q[k].op = "fetch"
    BY <2>2, StaleOp
  <2>3. CASE q[k].op # "fetch"
    BY <2>1, <2>3 DEF OpOf
  <2> QED
    BY <2>2, <2>3
<1> QED
  BY <1>1, <1>2, IsASeq DEF Unseen

LEMMA OpOfOp ==
  ASSUME NEW u, NEW q \in Seq(OpOf(u))
  PROVE  q \in Seq(Op)
<1>1. OpOf(u) \subseteq Op
  BY DEF OpOf
<1> QED
  BY <1>1, SeqMonotonic

LEMMA WithoutType ==
  ASSUME NEW S, NEW q \in Seq(S), NEW k \in 1..Len(q)
  PROVE  Without(q, k) \in Seq(S)
<1>1. Len(q) \in Nat /\ \A i \in 1..Len(q) : q[i] \in S
  BY LenProperties, ElementOfSeq
<1>2. SubSeq(q, 1, k - 1) \in Seq(S)
  <2>1. \A i \in 1..(k - 1) : q[i] \in S
    BY <1>1
  <2> QED
    BY <1>1, <2>1, SubSeqProperties
<1>3. SubSeq(q, k + 1, Len(q)) \in Seq(S)
  <2>1. \A i \in (k + 1)..Len(q) : q[i] \in S
    BY <1>1
  <2> QED
    BY <1>1, <2>1, SubSeqProperties
<1> QED
  BY <1>2, <1>3, ConcatProperties DEF Without

(* The oldest operation of a phone, and what is left after it.             *)
LEMMA HeadOp ==
  ASSUME NEW d \in Device, Private(d), outbox[d] # <<>>
  PROVE  /\ Head(outbox[d]) \in OpOf(user[d])
         /\ Tail(outbox[d]) \in Seq(OpOf(user[d]))
BY HeadTailProperties DEF Private

(* A step of one phone leaves the others as they are.                      *)
LEMMA Frame ==
  ASSUME NEW d \in Device, \A e \in Device : Private(e), Private(d)',
         \A e \in Device \ {d} :
           /\ screen'[e] = screen[e] /\ user'[e] = user[e]
           /\ patient'[e] = patient[e] /\ outbox'[e] = outbox[e]
           /\ shown'[e] = shown[e]
  PROVE  \A e \in Device : Private(e)'
BY DEF Private

-----------------------------------------------------------------------------
(* Each action keeps the invariant.                                        *)

LEMMA InitInv == Init => AppInv
<1> SUFFICES ASSUME Init PROVE AppInv
  OBVIOUS
<1>1. TypeOK
  BY AppAssumption, EmptySeq DEF Init, TypeOK, Screen
<1>2. \A d \in Device : Private(d)
  BY EmptySeq DEF Init, Private, Start
<1> QED
  BY <1>1, <1>2 DEF AppInv, Filed, Init

(* A step that only adds or drops requests to Auth, or moves between       *)
(* screens that need no more than the one it leaves.                       *)
LEMMA QuietInv ==
  ASSUME AppInv, NEW d \in Device,
         UNCHANGED <<firebase, user, patient, outbox, shown, clock>>,
         auth' \in [Device -> Seq(Request)],
         NEW s \in Screen, Show(d, s), s \in Start => screen[d] \in Start
  PROVE  AppInv'
<1>1. TypeOK'
  BY DEF AppInv, TypeOK, Show, firebase
<1>2. Private(d)'
  BY DEF AppInv, Private, Show, TypeOK
<1>3. \A e \in Device : Private(e)'
  BY <1>2, Frame DEF AppInv, Show, TypeOK
<1> QED
  BY <1>1, <1>3 DEF AppInv, Filed, firebase

LEMMA SameScreen ==
  ASSUME AppInv, NEW d \in Device, screen' = screen
  PROVE  screen[d] \in Screen /\ Show(d, screen[d])
BY DEF AppInv, TypeOK, Show

LEMMA TapLoginInv ==
  ASSUME AppInv, NEW d \in Device, NEW e \in Email, TapLogin(d, e)
  PROVE  AppInv'
<1>1. [kind |-> "login", email |-> e] \in Request
  BY DEF Request
<1>2. auth' \in [Device -> Seq(Request)]
  BY <1>1 DEF AppInv, TypeOK, TapLogin
<1> QED
  BY <1>2, SameScreen, QuietInv DEF TapLogin

LEMMA AnsweredType ==
  ASSUME TypeOK, NEW d \in Device, NEW k \in 1..Len(auth[d]), Answered(d, k)
  PROVE  auth' \in [Device -> Seq(Request)]
<1>1. Without(auth[d], k) \in Seq(Request)
  BY WithoutType DEF TypeOK
<1> QED
  BY <1>1 DEF TypeOK, Answered

LEMMA AuthFailsInv ==
  ASSUME AppInv, NEW d \in Device, NEW k \in 1..Len(auth[d]), AuthFails(d, k)
  PROVE  AppInv'
<1>1. auth' \in [Device -> Seq(Request)]
  BY AnsweredType DEF AppInv, AuthFails
<1> QED
  BY <1>1, SameScreen, QuietInv DEF AuthFails

LEMMA MoveInv ==
  ASSUME AppInv, NEW d \in Device, Move(d)
  PROVE  AppInv'
<1>1. PICK m \in Moves : screen[d] = m[1] /\ Show(d, m[2])
  BY DEF Move
<1>2. m[2] \in Screen /\ (m[2] \in Start => screen[d] \in Start)
  BY <1>1 DEF Moves, Screen, Start
<1>3. auth' \in [Device -> Seq(Request)]
  BY DEF AppInv, TypeOK, Move
<1> QED
  BY <1>1, <1>2, <1>3, QuietInv DEF Move

LEMMA LaunchInv ==
  ASSUME AppInv, NEW d \in Device, Launch(d)
  PROVE  AppInv'
<1>1. auth' \in [Device -> Seq(Request)]
  BY DEF AppInv, TypeOK, Launch
<1> QED
  BY <1>1, QuietInv DEF Launch, Screen, Start

(* The root screen changes and the user, if it changes, changes with it.   *)
LEMMA RootInv ==
  ASSUME AppInv, NEW d \in Device, NEW s \in Screen, NEW u \in Email \cup {None},
         NEW ops \in Seq(OpOf(u)), Root(d, s, ops),
         user' = [user EXCEPT ![d] = u], patient' = [patient EXCEPT ![d] = u],
         s \in Start => u # None,
         auth' \in [Device -> Seq(Request)], UNCHANGED <<firebase, clock>>
  PROVE  AppInv'
<1>1. outbox[d] \in Seq(OpOf(user[d]))
  BY DEF AppInv, Private
<1>2. Unseen(outbox[d]) \o ops \in Seq(OpOf(u))
  BY <1>1, UnseenOps, ConcatProperties
<1>3. Unseen(outbox[d]) \o ops \in Seq(Op)
  BY <1>2, OpOfOp
<1>4. TypeOK'
  <2>1. outbox' \in [Device -> Seq(Op)]
    BY <1>3 DEF Root, AppInv, TypeOK
  <2>2. shown' \in [Device -> SUBSET Reading] /\ screen' \in [Device -> Screen]
    BY DEF Root, Show, AppInv, TypeOK
  <2>3. /\ user' \in [Device -> Email \cup {None}]
        /\ patient' \in [Device -> Email \cup {None}]
    BY DEF AppInv, TypeOK
  <2> QED
    BY <2>1, <2>2, <2>3 DEF AppInv, TypeOK, firebase
<1>5. Private(d)'
  <2>1. /\ user'[d] = u /\ patient'[d] = u /\ screen'[d] = s /\ shown'[d] = {}
        /\ outbox'[d] = Unseen(outbox[d]) \o ops
    BY DEF Root, Show, AppInv, TypeOK
  <2> QED
    BY <1>2, <2>1 DEF Private
<1>6. \A e \in Device : Private(e)'
  BY <1>5, Frame DEF AppInv, Root, Show, TypeOK
<1> QED
  BY <1>4, <1>6 DEF AppInv, Filed, firebase

LEMMA LoggedInInv ==
  ASSUME AppInv, NEW d \in Device, NEW k \in 1..Len(auth[d]), LoggedIn(d, k)
  PROVE  AppInv'
<1> DEFINE e == auth[d][k].email
<1>1. e \in Email /\ e # None
  BY AppAssumption DEF AppInv, TypeOK, LoggedIn
<1>2. <<Fetch(e)>> \in Seq(OpOf(e))
  <2>1. Fetch(e) \in OpOf(e)
    BY <1>1, FetchOp
  <2> QED
    BY <2>1
<1>3. auth' \in [Device -> Seq(Request)]
  BY AnsweredType DEF AppInv, LoggedIn
<1> QED
  BY <1>1, <1>2, <1>3, RootInv DEF LoggedIn, Become, Screen, Start

LEMMA SignedUpInv ==
  ASSUME AppInv, NEW d \in Device, NEW k \in 1..Len(auth[d]), SignedUp(d, k)
  PROVE  AppInv'
<1> DEFINE r == auth[d][k]
           e == EmailOf[r.form]
<1>1. r \in Request /\ r.kind = "created"
  BY ElementOfSeq DEF AppInv, TypeOK, SignedUp
<1>2. e \in Email /\ e # None
  BY <1>1, RequestFields, AppAssumption
<1>3. Aspects(r) \in Seq(OpOf(e))
  BY <1>1, AspectOps
<1>4. auth' \in [Device -> Seq(Request)]
  BY AnsweredType DEF AppInv, SignedUp
<1> QED
  BY <1>2, <1>3, <1>4, RootInv DEF SignedUp, Become, Screen, Start

LEMMA LogoutInv ==
  ASSUME AppInv, NEW d \in Device, Logout(d)
  PROVE  AppInv'
<1>1. /\ user' = [user EXCEPT ![d] = user[d]]
      /\ patient' = [patient EXCEPT ![d] = user[d]]
      /\ user[d] \in Email \cup {None}
  BY DEF AppInv, Private, TypeOK, Logout
<1>2. <<>> \in Seq(OpOf(user[d]))
  BY EmptySeq
<1>3. auth' \in [Device -> Seq(Request)]
  BY DEF AppInv, TypeOK, Logout
<1> QED
  BY <1>1, <1>2, <1>3, RootInv DEF Logout, Screen, Start

LEMMA EndInv ==
  ASSUME AppInv, NEW d \in Device, NEW s \in Stopped, End(d, s)
  PROVE  AppInv'
<1>1. TypeOK'
  <2>1. s \in Screen
    BY DEF Screen
  <2> QED
    BY <2>1, EmptySeq DEF AppInv, TypeOK, End, firebase
<1>2. Private(d)'
  <2>1. /\ user'[d] = None /\ patient'[d] = None /\ screen'[d] = s
        /\ outbox'[d] = <<>> /\ shown'[d] = {}
    BY DEF End, AppInv, TypeOK
  <2> QED
    BY <2>1, EmptySeq DEF Private, Stopped, Start
<1>3. \A e \in Device : Private(e)'
  BY <1>2, Frame DEF AppInv, End, TypeOK
<1> QED
  BY <1>1, <1>3 DEF AppInv, Filed, End, firebase

(* The phone issues operations of its user; screens other than the login   *)
(* ones only follow one another.                                           *)
LEMMA IssueInv ==
  ASSUME AppInv, NEW d \in Device, NEW s \in Screen, s \in Start => screen[d] \in Start,
         Show(d, s), NEW ops \in Seq(OpOf(user[d])), Issue(d, ops),
         UNCHANGED <<firebase, user, patient, auth, shown>>, clock' \in 0..MaxReadings
  PROVE  AppInv'
<1>1. outbox[d] \o ops \in Seq(OpOf(user[d]))
  BY ConcatProperties DEF AppInv, Private
<1>2. outbox[d] \o ops \in Seq(Op)
  BY <1>1, OpOfOp
<1>3. TypeOK'
  <2>1. outbox' \in [Device -> Seq(Op)]
    BY <1>2 DEF Issue, AppInv, TypeOK
  <2> QED
    BY <2>1 DEF AppInv, TypeOK, Show, firebase
<1>4. Private(d)'
  <2>1. outbox'[d] = outbox[d] \o ops /\ screen'[d] = s
    BY DEF Issue, Show, AppInv, TypeOK
  <2> QED
    BY <1>1, <2>1 DEF AppInv, Private
<1>5. \A e \in Device : Private(e)'
  BY <1>4, Frame DEF AppInv, Issue, Show, TypeOK
<1> QED
  BY <1>3, <1>5 DEF AppInv, Filed, firebase

LEMMA TapSignupInv ==
  ASSUME AppInv, NEW d \in Device, NEW f \in Form, TapSignup(d, f)
  PROVE  AppInv'
<1>1. <<[op |-> "query", form |-> f]>> \in Seq(OpOf(user[d]))
  <2>1. [op |-> "query", form |-> f] \in OpOf(user[d])
    BY QueryOp
  <2> QED
    BY <2>1
<1>2. clock' \in 0..MaxReadings
  BY DEF AppInv, TypeOK, TapSignup
<1> QED
  BY <1>1, <1>2, SameScreen, IssueInv DEF TapSignup

LEMMA ToHistoryInv ==
  ASSUME AppInv, NEW d \in Device, ToHistory(d)
  PROVE  AppInv'
<1>1. Fetch(user[d]) \in OpOf(user[d])
  BY FetchOp DEF AppInv, TypeOK
<1>2. <<>> \o <<Fetch(user[d])>> \in Seq(OpOf(user[d]))
  BY <1>1, EmptySeq, ConcatProperties
<1>3. clock' \in 0..MaxReadings
  BY DEF AppInv, TypeOK, ToHistory
<1> QED
  BY <1>2, <1>3, IssueInv DEF ToHistory, Appear, Screen, Start

LEMMA SaveReadingInv ==
  ASSUME AppInv, NEW d \in Device, SaveReading(d)
  PROVE  AppInv'
<1> DEFINE r == [id |-> clock + 1, uid |-> user[d], by |-> patient[d], on |-> d]
<1>1. r \in Reading /\ r.uid = r.by
  BY DEF AppInv, TypeOK, Private, Reading
<1>2. [op |-> "reading", reading |-> r] \in OpOf(user[d])
  BY <1>1, ReadingOp
<1>3. Fetch(user[d]) \in OpOf(user[d])
  BY FetchOp DEF AppInv, TypeOK
<1>4. <<[op |-> "reading", reading |-> r]>> \o <<Fetch(user[d])>> \in Seq(OpOf(user[d]))
  <2> HIDE DEF r
  <2> QED
    BY <1>2, <1>3, ConcatProperties
<1>5. clock' \in 0..MaxReadings
  BY AppAssumption DEF AppInv, TypeOK, SaveReading
<1> QED
  BY <1>4, <1>5, IssueInv DEF SaveReading, Appear, Screen, Start

LEMMA CreateUserInv ==
  ASSUME AppInv, NEW d \in Device, NEW k \in 1..Len(auth[d]), CreateUser(d, k)
  PROVE  AppInv'
<1> DEFINE r == auth[d][k]
<1>1. r \in Request /\ r.kind = "create"
  BY ElementOfSeq DEF AppInv, TypeOK, CreateUser
<1>2. EmailOf[r.form] \in Email
  BY <1>1, RequestFields, AppAssumption
<1>3. [r EXCEPT !.kind = "created"] \in Request
  BY <1>1, RequestFields
<1>4. [auth[d] EXCEPT ![k] = [r EXCEPT !.kind = "created"]] \in Seq(Request)
  BY <1>3, ExceptSeq DEF AppInv, TypeOK
<1>5. auth' = [auth EXCEPT ![d] = [auth[d] EXCEPT ![k] = [r EXCEPT !.kind = "created"]]]
  BY DEF CreateUser
<1>6. TypeOK'
  <2>1. accounts' \subseteq Email
    BY <1>2 DEF AppInv, TypeOK, CreateUser
  <2>2. auth' \in [Device -> Seq(Request)]
    BY <1>4, <1>5 DEF AppInv, TypeOK
  <2> QED
    BY <2>1, <2>2 DEF AppInv, TypeOK, CreateUser
<1>7. \A e \in Device : Private(e)'
  BY DEF AppInv, Private, CreateUser
<1> QED
  BY <1>6, <1>7 DEF AppInv, Filed, CreateUser

(* The oldest operation is gone; the history shows what it may.            *)
LEMMA SentInv ==
  ASSUME AppInv, NEW d \in Device, outbox[d] # <<>>, Sent(d),
         UNCHANGED <<screen, user, patient, clock>>,
         accounts' \subseteq Email, profiles' \in [Email -> Form \cup {None}],
         links' \subseteq Doctor \X Email, auth' \in [Device -> Seq(Request)],
         stored' \subseteq Reading, Filed',
         NEW page \in SUBSET Reading, shown' = [shown EXCEPT ![d] = page],
         \A r \in page : r.uid = user[d]
  PROVE  AppInv'
<1>1. Tail(outbox[d]) \in Seq(OpOf(user[d]))
  BY HeadOp DEF AppInv
<1>2. Tail(outbox[d]) \in Seq(Op)
  BY <1>1, OpOfOp
<1>3. TypeOK'
  <2>1. outbox' \in [Device -> Seq(Op)]
    BY <1>2 DEF Sent, AppInv, TypeOK
  <2>2. shown' \in [Device -> SUBSET Reading]
    BY DEF AppInv, TypeOK
  <2> QED
    BY <2>1, <2>2 DEF AppInv, TypeOK
<1>4. Private(d)'
  <2>1. outbox'[d] = Tail(outbox[d]) /\ shown'[d] = page
    BY DEF Sent, AppInv, TypeOK
  <2> QED
    BY <1>1, <2>1 DEF AppInv, Private
<1>5. \A e \in Device : Private(e)'
  BY <1>4, Frame DEF AppInv, Sent, TypeOK
<1> QED
  BY <1>3, <1>5 DEF AppInv

(* The history stays as it is when the operation was not a fetch.          *)
LEMMA SamePage ==
  ASSUME AppInv, NEW d \in Device, shown' = shown
  PROVE  /\ shown[d] \in SUBSET Reading /\ shown' = [shown EXCEPT ![d] = shown[d]]
         /\ \A r \in shown[d] : r.uid = user[d]
BY DEF AppInv, TypeOK, Private

LEMMA DueOp ==
  ASSUME AppInv, NEW d \in Device, NEW kind, Due(d, kind)
  PROVE  /\ outbox[d] # <<>> /\ Head(outbox[d]).op = kind
         /\ Head(outbox[d]) \in OpOf(user[d]) /\ Head(outbox[d]) \in Op
<1>1. outbox[d] # <<>> /\ Head(outbox[d]).op = kind
  BY DEF Due
<1>2. Head(outbox[d]) \in OpOf(user[d])
  BY <1>1, HeadOp DEF AppInv
<1> QED
  BY <1>1, <1>2 DEF OpOf

LEMMA CodeAnsweredInv ==
  ASSUME AppInv, NEW d \in Device, CodeAnswered(d)
  PROVE  AppInv'
<1> DEFINE f == Head(outbox[d]).form
<1>1. outbox[d] # <<>> /\ f \in Form
  BY DueOp, OpFields DEF CodeAnswered
<1>2. DoctorsOf[f] \subseteq Doctor
  BY <1>1, AppAssumption
<1>3. auth' \in [Device -> Seq(Request)]
  <2>1. CASE DoctorsOf[f] = {}
    BY <2>1 DEF AppInv, TypeOK, CodeAnswered
  <2>2. CASE DoctorsOf[f] # {}
    <3>1. PICK doctor \in DoctorsOf[f] :
            auth' = [auth EXCEPT ![d] = Append(@,
                       [kind |-> "create", form |-> f, doctor |-> doctor])]
      BY <2>2 DEF CodeAnswered
    <3>2. [kind |-> "create", form |-> f, doctor |-> doctor] \in Request
      BY <1>1, <1>2 DEF Request
    <3> QED
      BY <3>1, <3>2 DEF AppInv, TypeOK
  <2> QED
    BY <2>1, <2>2
<1>4. Sent(d) /\ UNCHANGED <<screen, user, patient, shown, clock>>
  BY DEF CodeAnswered
<1>5. /\ accounts' \subseteq Email
      /\ profiles' \in [Email -> Form \cup {None}]
      /\ links' \subseteq Doctor \X Email
      /\ stored' \subseteq Reading /\ Filed'
  BY DEF AppInv, TypeOK, Filed, CodeAnswered, firebase
<1> QED
  BY <1>1, <1>3, <1>4, <1>5, SamePage, SentInv

LEMMA StoreProfileInv ==
  ASSUME AppInv, NEW d \in Device, StoreProfile(d)
  PROVE  AppInv'
<1>1. /\ outbox[d] # <<>>
      /\ Head(outbox[d]).uid \in Email /\ Head(outbox[d]).form \in Form
  BY DueOp, OpFields DEF StoreProfile
<1>2. profiles' \in [Email -> Form \cup {None}]
  BY <1>1 DEF AppInv, TypeOK, StoreProfile
<1>3. Sent(d) /\ UNCHANGED <<screen, user, patient, shown, clock>>
  BY DEF StoreProfile
<1>4. /\ accounts' \subseteq Email
      /\ links' \subseteq Doctor \X Email
      /\ auth' \in [Device -> Seq(Request)]
      /\ stored' \subseteq Reading /\ Filed'
  BY DEF AppInv, TypeOK, Filed, StoreProfile
<1> QED
  BY <1>1, <1>2, <1>3, <1>4, SamePage, SentInv

LEMMA StoreLinkInv ==
  ASSUME AppInv, NEW d \in Device, StoreLink(d)
  PROVE  AppInv'
<1>1. /\ outbox[d] # <<>>
      /\ Head(outbox[d]).uid \in Email /\ Head(outbox[d]).doctor \in Doctor
  BY DueOp, OpFields DEF StoreLink
<1>2. links' \subseteq Doctor \X Email
  BY <1>1 DEF AppInv, TypeOK, StoreLink
<1>3. Sent(d) /\ UNCHANGED <<screen, user, patient, shown, clock>>
  BY DEF StoreLink
<1>4. /\ accounts' \subseteq Email
      /\ profiles' \in [Email -> Form \cup {None}]
      /\ auth' \in [Device -> Seq(Request)]
      /\ stored' \subseteq Reading /\ Filed'
  BY DEF AppInv, TypeOK, Filed, StoreLink
<1> QED
  BY <1>1, <1>2, <1>3, <1>4, SamePage, SentInv

LEMMA StoreReadingInv ==
  ASSUME AppInv, NEW d \in Device, StoreReading(d)
  PROVE  AppInv'
<1> DEFINE r == Head(outbox[d]).reading
<1>1. outbox[d] # <<>> /\ r \in Reading
  BY DueOp, OpFields DEF StoreReading
<1>2. r.uid = r.by
  BY DueOp DEF StoreReading, OpOf
<1>3. stored' \subseteq Reading /\ Filed'
  BY <1>1, <1>2 DEF AppInv, TypeOK, Filed, StoreReading
<1>4. Sent(d) /\ UNCHANGED <<screen, user, patient, shown, clock>>
  BY DEF StoreReading
<1>5. /\ accounts' \subseteq Email
      /\ profiles' \in [Email -> Form \cup {None}]
      /\ links' \subseteq Doctor \X Email
      /\ auth' \in [Device -> Seq(Request)]
  BY DEF AppInv, TypeOK, Filed, StoreReading
<1> QED
  BY <1>1, <1>3, <1>4, <1>5, SamePage, SentInv

LEMMA PendingType ==
  ASSUME AppInv, NEW d \in Device
  PROVE  /\ Pending(d) \subseteq Reading
         /\ \A r \in Pending(d) : r.uid = r.by
<1>1. ASSUME NEW k \in 1..Len(outbox[d]), outbox[d][k].op = "reading"
      PROVE  outbox[d][k].reading \in Reading
             /\ outbox[d][k].reading.uid = outbox[d][k].reading.by
  <2>1. outbox[d][k] \in OpOf(user[d])
    BY ElementOfSeq DEF AppInv, Private
  <2> QED
    BY <1>1, <2>1, OpFields DEF OpOf
<1> QED
  BY <1>1 DEF Pending

LEMMA HistoryLoadedInv ==
  ASSUME AppInv, NEW d \in Device, HistoryLoaded(d)
  PROVE  AppInv'
<1> DEFINE mine == {r \in stored \cup Pending(d) : r.uid = Head(outbox[d]).uid}
<1>1. outbox[d] # <<>> /\ Head(outbox[d]).uid = user[d]
  BY DueOp DEF HistoryLoaded, OpOf
<1>2. mine \subseteq Reading /\ \A r \in mine : r.uid = user[d]
  BY <1>1, PendingType DEF AppInv, TypeOK
<1>3. Page(mine) \in SUBSET Reading /\ \A r \in Page(mine) : r.uid = user[d]
  BY <1>2 DEF Page
<1>4. shown' = [shown EXCEPT ![d] = Page(mine)]
  BY DEF HistoryLoaded
<1>5. Sent(d) /\ UNCHANGED <<firebase, screen, user, patient, auth, clock>>
  BY DEF HistoryLoaded
<1> HIDE DEF mine
<1> QED
  BY <1>1, <1>3, <1>4, <1>5, SentInv DEF AppInv, TypeOK, Filed, firebase

LEMMA StaleAnswerInv ==
  ASSUME AppInv, NEW d \in Device, StaleAnswer(d)
  PROVE  AppInv'
<1>1. outbox[d] # <<>>
  BY DueOp DEF StaleAnswer
<1>2. Sent(d) /\ UNCHANGED <<screen, user, patient, shown, clock>>
  BY DEF StaleAnswer
<1>3. /\ accounts' \subseteq Email
      /\ profiles' \in [Email -> Form \cup {None}]
      /\ links' \subseteq Doctor \X Email
      /\ auth' \in [Device -> Seq(Request)]
      /\ stored' \subseteq Reading /\ Filed'
  BY DEF AppInv, TypeOK, Filed, StaleAnswer, firebase
<1> QED
  BY <1>1, <1>2, <1>3, SamePage, SentInv

LEMMA NextInv ==
  ASSUME AppInv, [Next]_vars
  PROVE  AppInv'
<1>1. CASE UNCHANGED vars
  BY <1>1 DEF vars, firebase, AppInv, TypeOK, Filed, Private
<1>2. ASSUME NEW d \in Device, Tap(d)
      PROVE  AppInv'
  <2>1. CASE \E e \in Email : TapLogin(d, e)
    BY <2>1, TapLoginInv
  <2>2. CASE \E f \in Form : TapSignup(d, f)
    BY <2>2, TapSignupInv
  <2>3. CASE Move(d)
    BY <2>3, MoveInv
  <2>4. CASE ToHistory(d)
    BY <2>4, ToHistoryInv
  <2>5. CASE SaveReading(d)
    BY <2>5, SaveReadingInv
  <2>6. CASE Logout(d)
    BY <2>6, LogoutInv
  <2>7. CASE SaveCrashes(d) \/ SendExport(d)
    BY <2>7, EndInv DEF SaveCrashes, SendExport, Stopped
  <2>8. CASE Launch(d)
    BY <2>8, LaunchInv
  <2> QED
    BY <1>2, <2>1, <2>2, <2>3, <2>4, <2>5, <2>6, <2>7, <2>8 DEF Tap
<1>3. ASSUME NEW d \in Device, Answer(d)
      PROVE  AppInv'
  BY <1>3, LoggedInInv, AuthFailsInv, CreateUserInv, SignedUpInv DEF Answer
<1>4. ASSUME NEW d \in Device, Serve(d)
      PROVE  AppInv'
  BY <1>4, CodeAnsweredInv, StoreProfileInv, StoreLinkInv, StoreReadingInv,
     HistoryLoadedInv, StaleAnswerInv DEF Serve
<1>5. ASSUME NEW d \in Device, Kill(d)
      PROVE  AppInv'
  BY <1>5, EndInv DEF Kill, Stopped
<1> QED
  BY <1>1, <1>2, <1>3, <1>4, <1>5 DEF Next

-----------------------------------------------------------------------------
(* The invariant of every reachable state of the phones and of Firebase.   *)
THEOREM AppInvariant == Spec => []AppInv
<1>1. Init => AppInv
  BY InitInv
<1>2. AppInv /\ [Next]_vars => AppInv'
  BY NextInv
<1> QED
  BY <1>1, <1>2, PTL DEF Spec

(* The state of the phones and of Firebase keeps its type.                 *)
THEOREM AppTypeCorrect == Spec => []TypeOK
<1>1. AppInv => TypeOK
  BY DEF AppInv
<1> QED
  BY <1>1, AppInvariant, PTL

(* No phone is on a start screen without a user, so that the forced        *)
(* unwrapping of FirebaseHelper.user in saveReading and getMeasurements    *)
(* never ends the app, whatever answers come late.                         *)
THEOREM UserKnown == Spec => []UserKnownOnStart
<1>1. AppInv => UserKnownOnStart
  BY DEF AppInv, Private, UserKnownOnStart
<1> QED
  BY <1>1, AppInvariant, PTL

(* Every reading, stored or still on its way, is filed under the patient   *)
(* on whose start screen it was typed.                                     *)
THEOREM ReadingsFiled == Spec => []ReadingsUnderOwner
<1>1. AppInv => ReadingsUnderOwner
  BY PendingType DEF AppInv, Filed, ReadingsUnderOwner
<1> QED
  BY <1>1, AppInvariant, PTL

(* The history of a phone shows readings of the patient it was opened for  *)
(* and of nobody else, whoever used the phone before.                      *)
THEOREM HistoryPrivate == Spec => []ShownBelongToOwner
<1>1. AppInv => ShownBelongToOwner
  BY DEF AppInv, Private, ShownBelongToOwner
<1> QED
  BY <1>1, AppInvariant, PTL

-----------------------------------------------------------------------------
(* The writes of a phone: each is still waiting after the step, has        *)
(* arrived, or is lost with the process.                                   *)
Kept(d) == \A o \in Writes(d) : o \in Writes(d)' \/ Arrived(o)' \/ screen'[d] \in Stopped

LEMMA KeptSame ==
  ASSUME NEW d \in Device, outbox'[d] = outbox[d]
  PROVE  Kept(d)
BY DEF Kept, Writes

LEMMA KeptIssued ==
  ASSUME TypeOK, NEW d \in Device, NEW ops \in Seq(Op), outbox'[d] = outbox[d] \o ops
  PROVE  Kept(d)
<1>1. outbox[d] \in Seq(Op) /\ Len(outbox[d]) \in Nat /\ Len(ops) \in Nat
  BY DEF TypeOK
<1>2. /\ Len(outbox'[d]) = Len(outbox[d]) + Len(ops)
      /\ \A k \in 1..Len(outbox[d]) : outbox'[d][k] = outbox[d][k]
  BY <1>1, ConcatProperties
<1> QED
  BY <1>1, <1>2 DEF Kept, Writes

LEMMA UnseenIs ==
  ASSUME NEW q \in Seq(Op)
  PROVE  /\ Unseen(q) \in Seq(Op) /\ Len(Unseen(q)) = Len(q)
         /\ \A k \in 1..Len(q) :
              Unseen(q)[k] = IF q[k].op = "fetch" THEN Stale ELSE q[k]
<1>1. Len(q) \in Nat
  BY LenProperties
<1>2. Stale \in Op
  BY DEF Stale, Op
<1>3. \A k \in 1..Len(q) : (IF q[k].op = "fetch" THEN Stale ELSE q[k]) \in Op
  BY <1>2, ElementOfSeq
<1>4. Unseen(q) \in [1..Len(q) -> Op]
  BY <1>3 DEF Unseen
<1> QED
  BY <1>1, <1>4 DEF Unseen

LEMMA KeptRoot ==
  ASSUME TypeOK, NEW d \in Device, NEW ops \in Seq(Op),
         outbox'[d] = Unseen(outbox[d]) \o ops
  PROVE  Kept(d)
<1>1. /\ outbox[d] \in Seq(Op) /\ Len(outbox[d]) \in Nat /\ Len(ops) \in Nat
  BY DEF TypeOK
<1>2. /\ Unseen(outbox[d]) \in Seq(Op) /\ Len(Unseen(outbox[d])) = Len(outbox[d])
      /\ \A k \in 1..Len(outbox[d]) : outbox[d][k].op # "fetch" =>
           Unseen(outbox[d])[k] = outbox[d][k]
  BY <1>1, UnseenIs
<1>3. /\ Len(outbox'[d]) = Len(outbox[d]) + Len(ops)
      /\ \A k \in 1..Len(outbox[d]) : outbox'[d][k] = Unseen(outbox[d])[k]
  <2> DEFINE q == Unseen(outbox[d])
  <2> HIDE DEF q
  <2>1. q \in Seq(Op) /\ Len(q) = Len(outbox[d]) /\ outbox'[d] = q \o ops
    BY <1>2 DEF q
  <2>2. /\ Len(q \o ops) = Len(q) + Len(ops)
        /\ \A k \in 1..(Len(q) + Len(ops)) :
             (q \o ops)[k] = IF k <= Len(q) THEN q[k] ELSE ops[k - Len(q)]
    BY <2>1, ConcatProperties
  <2>3. Len(outbox'[d]) = Len(outbox[d]) + Len(ops)
    BY <2>1, <2>2
  <2>4. \A k \in 1..Len(outbox[d]) : outbox'[d][k] = q[k]
    BY <1>1, <2>1, <2>2
  <2> QED
    BY <2>3, <2>4 DEF q
<1>4. \A k \in 1..Len(outbox[d]) : outbox[d][k].op # "fetch" =>
        k \in 1..Len(outbox'[d]) /\ outbox'[d][k] = outbox[d][k]
  BY <1>1, <1>2, <1>3
<1> QED
  BY <1>4 DEF Kept, Writes, IsWrite

LEMMA KeptSent ==
  ASSUME TypeOK, NEW d \in Device, outbox[d] # <<>>, outbox'[d] = Tail(outbox[d]),
         NEW w, w = Head(outbox[d]), IsWrite(w) => Arrived(w)'
  PROVE  Kept(d)
<1>1. /\ outbox[d] \in Seq(Op) /\ Len(outbox[d]) \in Nat /\ Len(outbox[d]) # 0
  BY EmptySeq DEF TypeOK
<1>2. /\ Head(outbox[d]) = outbox[d][1]
      /\ Len(outbox'[d]) = Len(outbox[d]) - 1
      /\ \A k \in 1..(Len(outbox[d]) - 1) : outbox'[d][k] = outbox[d][k + 1]
  BY <1>1, HeadTailProperties
<1> SUFFICES ASSUME NEW k \in 1..Len(outbox[d]), NEW o, o = outbox[d][k], IsWrite(o)
             PROVE  o \in Writes(d)' \/ Arrived(o)'
  BY DEF Kept, Writes
<1>3. CASE k = 1
  BY <1>2, <1>3
<1>4. CASE k # 1
  <2>1. k - 1 \in 1..Len(outbox'[d]) /\ outbox'[d][k - 1] = o
    BY <1>1, <1>2, <1>4
  <2> QED
    BY <2>1 DEF Writes
<1> QED
  BY <1>3, <1>4

LEMMA ServeKept ==
  ASSUME AppInv, NEW d \in Device, Serve(d)
  PROVE  Kept(d)
<1> PICK o : o = Head(outbox[d])
  OBVIOUS
<1>1. outbox[d] # <<>> /\ o \in Op
  BY DueOp DEF Serve, CodeAnswered, StoreProfile, StoreLink, StoreReading,
               HistoryLoaded, StaleAnswer
<1>2. outbox'[d] = Tail(outbox[d])
  BY DEF Serve, CodeAnswered, StoreProfile, StoreLink, StoreReading, HistoryLoaded,
         StaleAnswer, Sent, AppInv, TypeOK
<1>3. IsWrite(o) => Arrived(o)'
  <2>1. CASE StoreProfile(d)
    <3>1. /\ o.op = "profile" /\ o.uid \in Email
          /\ profiles' = [profiles EXCEPT ![o.uid] = o.form]
      BY <1>1, <2>1, OpFields DEF StoreProfile, Due
    <3>2. profiles'[o.uid] = o.form
      BY <3>1 DEF AppInv, TypeOK
    <3> QED
      BY <3>1, <3>2 DEF Arrived
  <2>2. CASE StoreLink(d)
    <3>1. o.op = "link" /\ <<o.doctor, o.uid>> \in links'
      BY <2>2 DEF StoreLink, Due
    <3> QED
      BY <3>1 DEF Arrived
  <2>3. CASE StoreReading(d)
    <3>1. o.op = "reading" /\ o.reading \in stored'
      BY <2>3 DEF StoreReading, Due
    <3> QED
      BY <3>1 DEF Arrived
  <2>4. CASE CodeAnswered(d) \/ HistoryLoaded(d) \/ StaleAnswer(d)
    BY <2>4 DEF CodeAnswered, HistoryLoaded, StaleAnswer, Due, IsWrite
  <2> QED
    BY <2>1, <2>2, <2>3, <2>4 DEF Serve
<1> QED
  BY <1>1, <1>2, <1>3, KeptSent DEF AppInv

LEMMA TapKept ==
  ASSUME AppInv, NEW d \in Device, Tap(d)
  PROVE  Kept(d)
<1>1. CASE \E e \in Email : TapLogin(d, e)
  BY <1>1, KeptSame DEF TapLogin
<1>2. CASE \E f \in Form : TapSignup(d, f)
  <2>1. PICK f \in Form : outbox'[d] = outbox[d] \o <<[op |-> "query", form |-> f]>>
    BY <1>2 DEF TapSignup, Issue, AppInv, TypeOK
  <2>2. [op |-> "query", form |-> f] \in Op
    BY DEF Op
  <2>3. <<[op |-> "query", form |-> f]>> \in Seq(Op)
    BY <2>2
  <2> QED
    BY <2>1, <2>3, KeptIssued DEF AppInv
<1>3. CASE Move(d) \/ Launch(d)
  BY <1>3, KeptSame DEF Move, Launch
<1>4. CASE ToHistory(d)
  <2>1. outbox'[d] = outbox[d] \o (<<>> \o <<Fetch(user[d])>>)
    BY <1>4 DEF ToHistory, Appear, Issue, AppInv, TypeOK
  <2>2. Fetch(user[d]) \in Op
    BY DEF Fetch, Op, AppInv, TypeOK
  <2>3. <<>> \o <<Fetch(user[d])>> \in Seq(Op)
    BY <2>2, EmptySeq, ConcatProperties
  <2> QED
    BY <2>1, <2>3, KeptIssued DEF AppInv
<1>5. CASE SaveReading(d)
  <2> DEFINE r == [id |-> clock + 1, uid |-> user[d], by |-> patient[d], on |-> d]
  <2>1. outbox'[d] = outbox[d] \o (<<[op |-> "reading", reading |-> r]>> \o <<Fetch(user[d])>>)
    BY <1>5 DEF SaveReading, Appear, Issue, AppInv, TypeOK
  <2>2. r \in Reading
    BY DEF AppInv, TypeOK, Reading
  <2>3. Fetch(user[d]) \in Op /\ [op |-> "reading", reading |-> r] \in Op
    BY <2>2 DEF Fetch, Op, AppInv, TypeOK
  <2>4. <<[op |-> "reading", reading |-> r]>> \o <<Fetch(user[d])>> \in Seq(Op)
    <3> HIDE DEF r
    <3> QED
      BY <2>3, ConcatProperties
  <2> HIDE DEF r
  <2> QED
    BY <2>1, <2>4, KeptIssued DEF AppInv
<1>6. CASE Logout(d)
  <2>1. outbox'[d] = Unseen(outbox[d]) \o <<>>
    BY <1>6 DEF Logout, Root, AppInv, TypeOK
  <2> QED
    BY <2>1, EmptySeq, KeptRoot DEF AppInv
<1>7. CASE SaveCrashes(d) \/ SendExport(d)
  BY <1>7 DEF SaveCrashes, SendExport, End, Kept, Stopped, AppInv, TypeOK
<1> QED
  BY <1>1, <1>2, <1>3, <1>4, <1>5, <1>6, <1>7 DEF Tap

LEMMA AnswerKept ==
  ASSUME AppInv, NEW d \in Device, Answer(d)
  PROVE  Kept(d)
<1>1. PICK k \in 1..Len(auth[d]) :
        LoggedIn(d, k) \/ AuthFails(d, k) \/ CreateUser(d, k) \/ SignedUp(d, k)
  BY DEF Answer
<1>2. auth[d][k] \in Request
  BY ElementOfSeq DEF AppInv, TypeOK
<1>3. CASE LoggedIn(d, k)
  <2>1. outbox'[d] = Unseen(outbox[d]) \o <<Fetch(auth[d][k].email)>>
    BY <1>3 DEF LoggedIn, Root, AppInv, TypeOK
  <2>2. Fetch(auth[d][k].email) \in Op
    BY <1>2, <1>3, RequestFields DEF LoggedIn, Fetch, Op
  <2>3. <<Fetch(auth[d][k].email)>> \in Seq(Op)
    BY <2>2
  <2> QED
    BY <2>1, <2>3, KeptRoot DEF AppInv
<1>4. CASE SignedUp(d, k)
  <2>1. outbox'[d] = Unseen(outbox[d]) \o Aspects(auth[d][k])
    BY <1>4 DEF SignedUp, Root, AppInv, TypeOK
  <2>2. Aspects(auth[d][k]) \in Seq(Op)
    BY <1>2, <1>4, AspectOps, OpOfOp DEF SignedUp
  <2> QED
    BY <2>1, <2>2, KeptRoot DEF AppInv
<1>5. CASE AuthFails(d, k) \/ CreateUser(d, k)
  BY <1>5, KeptSame DEF AuthFails, CreateUser
<1> QED
  BY <1>1, <1>3, <1>4, <1>5

(* The phones other than the one that moves keep their operations.         *)
LEMMA OthersKept ==
  ASSUME AppInv, NEW d \in Device, Tap(d) \/ Answer(d) \/ Serve(d) \/ Kill(d),
         NEW e \in Device \ {d}
  PROVE  outbox'[e] = outbox[e]
BY DEF Tap, Answer, Serve, Kill, TapLogin, TapSignup, Move, ToHistory, SaveReading, Appear,
       Issue, Logout, Root, SaveCrashes, SendExport, End, Launch, LoggedIn, AuthFails,
       CreateUser, SignedUp, CodeAnswered, StoreProfile, StoreLink, StoreReading,
       HistoryLoaded, StaleAnswer, Sent, AppInv, TypeOK

LEMMA NextKept ==
  ASSUME AppInv, Next, NEW e \in Device
  PROVE  Kept(e)
<1>1. PICK d \in Device : Tap(d) \/ Answer(d) \/ Serve(d) \/ Kill(d)
  BY DEF Next
<1>2. CASE e # d
  BY <1>1, <1>2, OthersKept, KeptSame
<1>3. CASE e = d /\ Kill(d)
  BY <1>3 DEF Kill, End, Kept, Stopped, AppInv, TypeOK
<1> QED
  BY <1>1, <1>2, <1>3, TapKept, AnswerKept, ServeKept

(* What a phone has to write is not taken back by a log-out, a log-in or a *)
(* change of screen: it is lost only with the process.                     *)
THEOREM WritesAreKept == Spec => WritesSurvive
<1>1. AppInv /\ [Next]_vars =>
        [\A d \in Device : \A o \in Writes(d) :
           o \in Writes(d)' \/ Arrived(o)' \/ screen'[d] \in Stopped]_vars
  BY NextKept DEF Kept
<1> QED
  BY <1>1, AppInvariant, PTL DEF Spec, WritesSurvive
=============================================================================
