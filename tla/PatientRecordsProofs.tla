------------------------ MODULE PatientRecordsProofs ------------------------
(***************************************************************************)
(* PatientApp implements PatientRecords, for every set of phones, patients,*)
(* forms and physicians.                                                   *)
(*                                                                         *)
(* A request or a write that waits on a phone is a promise about the data  *)
(* in Firebase.  RecordsInv says which promise: a patient is signed up in  *)
(* one place only, and a physician is never written before the profile     *)
(* with the code.                                                          *)
(***************************************************************************)
EXTENDS PatientAppProofs

(* An account that has neither profile nor physician yet.                  *)
Bare(e) == e \in accounts /\ profiles[e] = None /\ \A l \in links : l[2] # e

Made(d) == {k \in 1..Len(auth[d]) : auth[d][k].kind = "created"}
At(d, kind) == {k \in 1..Len(outbox[d]) : outbox[d][k].op = kind}

(* The patients a phone is signing up.                                     *)
Busy(d) == {EmailOf[auth[d][k].form] : k \in Made(d)}
             \cup {outbox[d][k].uid : k \in At(d, "profile") \cup At(d, "link")}

(* A physician has the code in the profile that is stored or written first.*)
Suits(d, k) ==
  LET o == outbox[d][k]
  IN \/ profiles[o.uid] # None /\ o.doctor \in DoctorsOf[profiles[o.uid]]
     \/ \E j \in At(d, "profile") : /\ j < k /\ outbox[d][j].uid = o.uid
                                    /\ o.doctor \in DoctorsOf[outbox[d][j].form]

(* What a phone holds, by itself: a sign-up is under way once, as a        *)
(* request or as writes, and readings wait in the order they were typed.   *)
Shape(d) ==
  /\ \A k \in 1..Len(auth[d]) : auth[d][k].kind # "login" =>
       auth[d][k].doctor \in DoctorsOf[auth[d][k].form]
  /\ \A j, k \in Made(d) : EmailOf[auth[d][j].form] = EmailOf[auth[d][k].form] => j = k
  /\ \A k \in At(d, "profile") : outbox[d][k].uid = EmailOf[outbox[d][k].form]
  /\ \A kind \in {"profile", "link"} :
       /\ \A j, k \in At(d, kind) : outbox[d][j].uid = outbox[d][k].uid => j = k
       /\ \A j \in Made(d), k \in At(d, kind) :
            EmailOf[auth[d][j].form] # outbox[d][k].uid
  /\ \A k \in At(d, "reading") : outbox[d][k].reading.on = d
  /\ \A j, k \in At(d, "reading") :
       j < k => outbox[d][j].reading.id < outbox[d][k].reading.id

(* ... and what it means for the data in Firebase.                         *)
Means(d) ==
  /\ user[d] \in accounts \cup {None}
  /\ \A k \in Made(d) : Bare(EmailOf[auth[d][k].form])
  /\ \A k \in At(d, "profile") : Bare(outbox[d][k].uid)
  /\ \A k \in At(d, "link") : /\ outbox[d][k].uid \in accounts /\ Suits(d, k)
                              /\ \A l \in links : l[2] # outbox[d][k].uid
  /\ \A k \in At(d, "reading") : LET r == outbox[d][k].reading
                                 IN r.uid \in accounts /\ r.id <= clock /\ r \notin stored

RecordsInv ==
  /\ \A e \in Email : profiles[e] # None => e \in accounts
  /\ \A l \in links : l[2] \in accounts
  /\ \A r \in stored : r.id <= clock
  /\ \A d \in Device : Shape(d) /\ Means(d)
  /\ \A d, e \in Device : d # e => Busy(d) \cap Busy(e) = {}

(* The requests that have made an account, and the writes, of a phone      *)
(* after a step: which of those before it they are.                        *)
Carried(d, f) ==
  /\ \A k \in Made(d)' : f[k] \in Made(d) /\ auth'[d][k] = auth[d][f[k]]
  /\ \A j, k \in Made(d)' : f[j] = f[k] => j = k

Shifted(d, h) ==
  \A kind \in {"profile", "link", "reading"} : \A k \in At(d, kind)' :
    k + h \in At(d, kind) /\ outbox'[d][k] = outbox[d][k + h]

Coded(d) ==
  \A k \in 1..Len(auth[d]) : auth[d][k].kind # "login" =>
    auth[d][k].doctor \in DoctorsOf[auth[d][k].form]

LEMMA ShapeKept ==
  ASSUME TypeOK, TypeOK', NEW d \in Device, Shape(d), NEW f, NEW h \in Nat,
         Carried(d, f), Shifted(d, h), Coded(d)'
  PROVE  Shape(d)' /\ Busy(d)' \subseteq Busy(d)
<1>1. \A j, k \in Made(d)' :
        EmailOf[auth'[d][j].form] = EmailOf[auth'[d][k].form] => j = k
  BY DEF Carried, Shape
<1>2. \A k \in At(d, "profile")' : outbox'[d][k].uid = EmailOf[outbox'[d][k].form]
  BY DEF Shifted, Shape
<1>3. ASSUME NEW kind \in {"profile", "link"}
      PROVE  /\ \A j, k \in At(d, kind)' : outbox'[d][j].uid = outbox'[d][k].uid => j = k
             /\ \A j \in Made(d)', k \in At(d, kind)' :
                  EmailOf[auth'[d][j].form] # outbox'[d][k].uid
  <2>1. ASSUME NEW j \in At(d, kind)', NEW k \in At(d, kind)',
               outbox'[d][j].uid = outbox'[d][k].uid
        PROVE  j = k
    <3>1. j \in Nat /\ k \in Nat
      BY DEF At, TypeOK
    <3>2. j + h = k + h
      BY <2>1 DEF Shifted, Shape
    <3> QED
      BY <3>1, <3>2
  <2>2. ASSUME NEW j \in Made(d)', NEW k \in At(d, kind)'
        PROVE  EmailOf[auth'[d][j].form] # outbox'[d][k].uid
    BY DEF Carried, Shifted, Shape
  <2> QED
    BY <2>1, <2>2
<1>4. \A k \in At(d, "reading")' : outbox'[d][k].reading.on = d
  BY DEF Shifted, Shape
<1>5. ASSUME NEW j \in At(d, "reading")', NEW k \in At(d, "reading")', j < k
      PROVE  outbox'[d][j].reading.id < outbox'[d][k].reading.id
  <2>1. j \in Nat /\ k \in Nat
    BY DEF At, TypeOK
  <2>2. j + h < k + h
    BY <1>5, <2>1
  <2> QED
    BY <2>2 DEF Shifted, Shape
<1>6. Shape(d)'
  BY <1>1, <1>2, <1>3, <1>4, <1>5 DEF Shape, Coded
<1>7. Busy(d)' \subseteq Busy(d)
  BY DEF Busy, Carried, Shifted
<1> QED
  BY <1>6, <1>7

(* A phone that does not move, when nothing it signs up is touched.        *)
LEMMA OtherPhone ==
  ASSUME TypeOK, TypeOK', NEW e \in Device, Shape(e), Means(e),
         auth'[e] = auth[e], outbox'[e] = outbox[e], user'[e] = user[e],
         accounts \subseteq accounts', clock <= clock',
         \A x \in Busy(e) : /\ profiles'[x] = profiles[x]
                            /\ \A l \in links' : l[2] = x => l \in links,
         \A r \in stored' : r.on = e => r \in stored
  PROVE  Shape(e)' /\ Means(e)' /\ Busy(e)' = Busy(e)
<1>1. /\ Made(e)' = Made(e)
      /\ \A kind : At(e, kind)' = At(e, kind)
  BY DEF Made, At
<1>2. Shape(e)' /\ Busy(e)' = Busy(e)
  BY <1>1 DEF Shape, Busy
<1>3. \A x \in Busy(e) : Bare(x) => Bare(x)'
  BY DEF Bare
<1>4. \A k \in Made(e) : EmailOf[auth[e][k].form] \in Busy(e)
  BY DEF Busy
<1>5. \A k \in At(e, "profile") \cup At(e, "link") : outbox[e][k].uid \in Busy(e)
  BY DEF Busy
<1>6. \A k \in At(e, "link") : Suits(e, k) => Suits(e, k)'
  BY <1>1, <1>5 DEF Suits
<1>7. ASSUME NEW k \in At(e, "reading")
      PROVE  /\ outbox[e][k].reading.id <= clock'
             /\ outbox[e][k].reading \notin stored'
  <2>1. outbox[e][k] \in Op /\ outbox[e][k].op = "reading"
    BY ElementOfSeq DEF At, TypeOK
  <2>2. outbox[e][k].reading \in Reading
    BY <2>1, OpFields
  <2>3. outbox[e][k].reading.id \in Int /\ clock \in Int /\ clock' \in Int
    BY <2>2, AppAssumption DEF Reading, TypeOK
  <2>4. /\ outbox[e][k].reading.id <= clock /\ outbox[e][k].reading \notin stored
        /\ outbox[e][k].reading.on = e
    BY DEF Means, Shape
  <2> QED
    BY <2>3, <2>4
<1>8. Means(e)'
  BY <1>1, <1>3, <1>4, <1>5, <1>6, <1>7 DEF Means
<1> QED
  BY <1>2, <1>8

(* A step of one phone that touches the data of its own sign-ups only.     *)
LEMMA RecordsStep ==
  ASSUME TypeOK, TypeOK', RecordsInv, NEW d \in Device, Shape(d)', Means(d)',
         Busy(d)' \subseteq Busy(d) \cup (Email \ accounts),
         \A e \in Device \ {d} :
           auth'[e] = auth[e] /\ outbox'[e] = outbox[e] /\ user'[e] = user[e],
         accounts \subseteq accounts', clock <= clock',
         \A x \in accounts \ Busy(d) : /\ profiles'[x] = profiles[x]
                                       /\ \A l \in links' : l[2] = x => l \in links,
         \A r \in stored' : r \in stored \/ r.on = d,
         \A x \in Email : profiles'[x] # None => x \in accounts',
         \A l \in links' : l[2] \in accounts',
         \A r \in stored' : r.id <= clock'
  PROVE  RecordsInv'
<1>1. ASSUME NEW e \in Device
      PROVE  Busy(e) \subseteq accounts
  <2>1. Means(e)
    BY DEF RecordsInv
  <2> QED
    BY <2>1 DEF Busy, Means, Bare
<1>2. ASSUME NEW e \in Device \ {d}
      PROVE  Shape(e)' /\ Means(e)' /\ Busy(e)' = Busy(e)
  <2>1. Shape(e) /\ Means(e) /\ Busy(e) \cap Busy(d) = {}
    BY DEF RecordsInv
  <2>2. Busy(e) \subseteq accounts \ Busy(d)
    BY <1>1, <2>1
  <2> QED
    BY <1>2, <2>1, <2>2, OtherPhone
<1>3. ASSUME NEW a \in Device, NEW e \in Device, a # e
      PROVE  Busy(a)' \cap Busy(e)' = {}
  <2>1. CASE a # d /\ e # d
    BY <1>2, <1>3, <2>1 DEF RecordsInv
  <2>2. ASSUME NEW b \in Device \ {d}
        PROVE  Busy(b)' \cap Busy(d)' = {}
    BY <1>1, <1>2, <2>2 DEF RecordsInv
  <2> QED
    BY <1>3, <2>1, <2>2
<1> QED
  BY <1>2, <1>3 DEF RecordsInv

(* A step of one phone that leaves Firebase alone and makes no new writes. *)
LEMMA RecordsFrame ==
  ASSUME TypeOK, TypeOK', RecordsInv, NEW d \in Device, NEW f, NEW h \in Nat,
         Carried(d, f), Shifted(d, h), Coded(d)', user'[d] \in accounts \cup {None},
         \A k \in At(d, "link")', j \in At(d, "profile") :
           j < k + h => j > h /\ j - h \in At(d, "profile")'
                        /\ outbox'[d][j - h] = outbox[d][j],
         \A e \in Device \ {d} :
           auth'[e] = auth[e] /\ outbox'[e] = outbox[e] /\ user'[e] = user[e],
         UNCHANGED <<firebase, clock>>
  PROVE  RecordsInv'
<1>1. Shape(d) /\ Means(d)
  BY DEF RecordsInv
<1>2. Shape(d)' /\ Busy(d)' \subseteq Busy(d)
  BY <1>1, ShapeKept
<1>3. \A x : Bare(x) => Bare(x)'
  BY DEF Bare, firebase
<1>4. ASSUME NEW k \in At(d, "link")'
      PROVE  Suits(d, k)'
  <2>1. k + h \in At(d, "link") /\ outbox'[d][k] = outbox[d][k + h]
    BY DEF Shifted
  <2>2. Suits(d, k + h)
    BY <1>1, <2>1 DEF Means
  <2>3. CASE \E j \in At(d, "profile") :
               /\ j < k + h /\ outbox[d][j].uid = outbox[d][k + h].uid
               /\ outbox[d][k + h].doctor \in DoctorsOf[outbox[d][j].form]
    <3>1. PICK j \in At(d, "profile") :
               /\ j < k + h /\ outbox[d][j].uid = outbox[d][k + h].uid
               /\ outbox[d][k + h].doctor \in DoctorsOf[outbox[d][j].form]
      BY <2>3
    <3>2. j - h \in At(d, "profile")' /\ outbox'[d][j - h] = outbox[d][j]
      BY <3>1
    <3>3. j - h < k
      BY <3>1 DEF At, TypeOK
    <3> QED
      BY <2>1, <3>1, <3>2, <3>3 DEF Suits
  <2> QED
    BY <2>1, <2>2, <2>3 DEF Suits, firebase
<1>5. Means(d)'
  <2>1. \A k \in Made(d)' : Bare(EmailOf[auth[d][k].form])'
    BY <1>1, <1>3 DEF Means, Carried
  <2>2. \A k \in At(d, "profile")' : Bare(outbox[d][k].uid)'
    BY <1>1, <1>3 DEF Means, Shifted
  <2>3. \A k \in At(d, "link")' : /\ outbox'[d][k].uid \in accounts'
                                  /\ \A l \in links' : l[2] # outbox'[d][k].uid
    BY <1>1 DEF Means, Shifted, firebase
  <2>4. \A k \in At(d, "reading")' : LET r == outbox'[d][k].reading
                 IN r.uid \in accounts' /\ r.id <= clock' /\ r \notin stored'
    BY <1>1 DEF Means, Shifted, firebase
  <2> QED
    BY <1>4, <2>1, <2>2, <2>3, <2>4 DEF Means, firebase
<1>6. /\ accounts' = accounts /\ profiles' = profiles /\ links' = links
      /\ stored' = stored /\ clock' = clock /\ clock <= clock
  BY AppAssumption DEF firebase, TypeOK
<1>7. /\ \A x \in Email : profiles'[x] # None => x \in accounts'
      /\ \A l \in links' : l[2] \in accounts'
      /\ \A r \in stored' : r.id <= clock'
  BY <1>6 DEF RecordsInv
<1> QED
  BY <1>2, <1>5, <1>6, <1>7, RecordsStep

-----------------------------------------------------------------------------
(* The requests and the writes a step carries over.                        *)

LEMMA AuthSame ==
  ASSUME RecordsInv, NEW d \in Device, auth'[d] = auth[d]
  PROVE  (\E f : Carried(d, f)) /\ Coded(d)'
<1> DEFINE f == [k \in Made(d) |-> k]
<1>1. Made(d)' = Made(d)
  BY DEF Made
<1>2. Carried(d, f)
  BY <1>1 DEF Carried
<1>3. Shape(d)
  BY DEF RecordsInv
<1>4. Coded(d)'
  BY <1>3 DEF Coded, Shape
<1> QED
  BY <1>2, <1>4

LEMMA WithoutIs ==
  ASSUME NEW q \in Seq(Request), NEW k \in 1..Len(q)
  PROVE  /\ Len(Without(q, k)) = Len(q) - 1
         /\ \A i \in 1..(Len(q) - 1) :
              Without(q, k)[i] = q[IF i < k THEN i ELSE i + 1]
<1> DEFINE s == SubSeq(q, 1, k - 1)
           t == SubSeq(q, k + 1, Len(q))
<1>1. Len(q) \in Nat /\ \A i \in 1..Len(q) : q[i] \in Request
  BY LenProperties, ElementOfSeq
<1>2. /\ s \in Seq(Request) /\ Len(s) = k - 1
      /\ \A i \in 1..(k - 1) : s[i] = q[i]
  <2>1. \A i \in 1..(k - 1) : q[i] \in Request
    BY <1>1
  <2> QED
    BY <1>1, <2>1, SubSeqProperties
<1>3. /\ t \in Seq(Request) /\ Len(t) = Len(q) - k
      /\ \A i \in 1..(Len(q) - k) : t[i] = q[k + i]
  <2>1. \A i \in (k + 1)..Len(q) : q[i] \in Request
    BY <1>1
  <2> QED
    BY <1>1, <2>1, SubSeqProperties
<1>4. Without(q, k) = s \o t
  BY DEF Without
<1> HIDE DEF s, t
<1>5. /\ Len(s \o t) = Len(s) + Len(t)
      /\ \A i \in 1..(Len(s) + Len(t)) :
           (s \o t)[i] = IF i <= Len(s) THEN s[i] ELSE t[i - Len(s)]
  BY <1>2, <1>3, ConcatProperties
<1>6. ASSUME NEW i \in 1..(Len(q) - 1)
      PROVE  (s \o t)[i] = q[IF i < k THEN i ELSE i + 1]
  <2>1. CASE i < k
    BY <1>1, <1>2, <1>3, <1>5, <2>1
  <2>2. CASE ~(i < k)
    <3>1. i - (k - 1) \in 1..(Len(q) - k) /\ k + (i - (k - 1)) = i + 1
      BY <1>1, <2>2
    <3>2. t[i - (k - 1)] = q[i + 1]
      BY <1>3, <3>1
    <3>3. ~(i <= Len(s)) /\ i \in 1..(Len(s) + Len(t))
      BY <1>1, <1>2, <1>3, <2>2
    <3>4. (s \o t)[i] = t[i - (k - 1)]
      BY <1>2, <1>5, <3>3
    <3> QED
      BY <2>2, <3>2, <3>4
  <2> QED
    BY <2>1, <2>2
<1> QED
  BY <1>1, <1>2, <1>3, <1>4, <1>5, <1>6

(* The answered request, and no other, is gone.                            *)
LEMMA AuthAnswered ==
  ASSUME TypeOK, RecordsInv, NEW d \in Device, NEW k \in 1..Len(auth[d]),
         Answered(d, k)
  PROVE  /\ \E f : Carried(d, f) /\ \A i \in Made(d)' : f[i] # k
         /\ Coded(d)'
<1> DEFINE g(i) == IF i < k THEN i ELSE i + 1
           f == [i \in Made(d)' |-> g(i)]
<1>1. auth[d] \in Seq(Request) /\ Len(auth[d]) \in Nat
  BY DEF TypeOK
<1>2. auth'[d] = Without(auth[d], k)
  BY DEF Answered, TypeOK
<1>3. /\ Len(auth'[d]) = Len(auth[d]) - 1
      /\ \A i \in 1..Len(auth'[d]) : auth'[d][i] = auth[d][g(i)]
  BY <1>1, <1>2, WithoutIs
<1>4. \A i \in 1..Len(auth'[d]) : g(i) \in 1..Len(auth[d]) /\ g(i) # k
  BY <1>1, <1>3
<1>5. \A i, j \in 1..Len(auth'[d]) : g(i) = g(j) => i = j
  OBVIOUS
<1>6. Made(d)' \subseteq 1..Len(auth'[d])
  BY DEF Made
<1> HIDE DEF g
<1>7. Carried(d, f)
  BY <1>3, <1>4, <1>5, <1>6 DEF Carried, Made
<1>8. \A i \in Made(d)' : f[i] # k
  BY <1>4, <1>6
<1>9. Coded(d)
  BY DEF RecordsInv, Shape, Coded
<1>10. Coded(d)'
  BY <1>3, <1>4, <1>9 DEF Coded
<1> QED
  BY <1>7, <1>8, <1>10

LEMMA AuthAdded ==
  ASSUME TypeOK, RecordsInv, NEW d \in Device, NEW r \in Request,
         auth'[d] = Append(auth[d], r), r.kind # "created",
         r.kind = "create" => r.doctor \in DoctorsOf[r.form]
  PROVE  (\E f : Carried(d, f)) /\ Coded(d)'
<1> DEFINE f == [k \in Made(d) |-> k]
<1>1. auth[d] \in Seq(Request) /\ Len(auth[d]) \in Nat
  BY DEF TypeOK
<1>2. /\ Len(auth'[d]) = Len(auth[d]) + 1
      /\ \A k \in 1..Len(auth[d]) : auth'[d][k] = auth[d][k]
      /\ auth'[d][Len(auth[d]) + 1] = r
  BY <1>1, AppendProperties
<1>3. \A k \in 1..(Len(auth[d]) + 1) : k \in 1..Len(auth[d]) \/ k = Len(auth[d]) + 1
  BY <1>1
<1>4. Made(d)' = Made(d)
  BY <1>1, <1>2, <1>3 DEF Made
<1>5. Carried(d, f)
  BY <1>2, <1>4 DEF Carried, Made
<1>6. Shape(d) /\ r.kind \in {"login", "create", "created"}
  BY DEF RecordsInv, Request
<1>7. Coded(d)'
  BY <1>2, <1>3, <1>6 DEF Coded, Shape
<1> QED
  BY <1>5, <1>7

(* A link keeps the profile that is written before it.                     *)
Follows(d, h) ==
  \A k \in At(d, "link")', j \in At(d, "profile") :
    j < k + h => /\ j > h /\ j - h \in At(d, "profile")'
                 /\ outbox'[d][j - h] = outbox[d][j]

LEMMA BoxSame ==
  ASSUME TypeOK, NEW d \in Device, outbox'[d] = outbox[d]
  PROVE  Shifted(d, 0) /\ Follows(d, 0)
<1>1. \A kind : At(d, kind)' = At(d, kind)
  BY DEF At
<1>2. \A kind : \A k \in At(d, kind) : k \in Int /\ k > 0 /\ k + 0 = k /\ k - 0 = k
  BY DEF At, TypeOK
<1> QED
  BY <1>1, <1>2 DEF Shifted, Follows

LEMMA BoxEmpty ==
  ASSUME NEW d \in Device, outbox'[d] = <<>>
  PROVE  Shifted(d, 0) /\ Follows(d, 0)
<1>1. \A kind : At(d, kind)' = {}
  BY EmptySeq DEF At
<1> QED
  BY <1>1 DEF Shifted, Follows

(* New operations behind the old ones, whose writes stay where they are.   *)
Longer(d, ops) ==
  /\ \A kind \in {"profile", "link", "reading"} :
       /\ \A k \in At(d, kind) : k \in At(d, kind)' /\ outbox'[d][k] = outbox[d][k]
       /\ \A k \in At(d, kind)' :
            \/ k \in At(d, kind)
            \/ \E i \in 1..Len(ops) : k = Len(outbox[d]) + i /\ ops[i].op = kind
  /\ \A i \in 1..Len(ops) : outbox'[d][Len(outbox[d]) + i] = ops[i]
  /\ \A kind : \A i \in 1..Len(ops) :
       ops[i].op = kind => Len(outbox[d]) + i \in At(d, kind)'

LEMMA BoxLonger ==
  ASSUME TypeOK, NEW d \in Device, NEW q \in Seq(Op), NEW ops \in Seq(Op),
         Len(q) = Len(outbox[d]), outbox'[d] = q \o ops,
         \A k \in 1..Len(q) :
           q[k] = outbox[d][k] \/ (~IsWrite(q[k]) /\ ~IsWrite(outbox[d][k]))
  PROVE  Longer(d, ops)
<1>1. Len(q) \in Nat /\ Len(ops) \in Nat
  BY LenProperties
<1>2. /\ Len(outbox'[d]) = Len(q) + Len(ops)
      /\ \A k \in 1..(Len(q) + Len(ops)) :
           outbox'[d][k] = IF k <= Len(q) THEN q[k] ELSE ops[k - Len(q)]
  <2>1. /\ Len(q \o ops) = Len(q) + Len(ops)
        /\ \A k \in 1..(Len(q) + Len(ops)) :
             (q \o ops)[k] = IF k <= Len(q) THEN q[k] ELSE ops[k - Len(q)]
    BY ConcatProperties
  <2> QED
    BY <2>1
<1>3. \A k \in 1..Len(q) : outbox'[d][k] = q[k]
  BY <1>1, <1>2
<1>4. \A i \in 1..Len(ops) :
        Len(q) + i \in 1..Len(outbox'[d]) /\ outbox'[d][Len(q) + i] = ops[i]
  BY <1>1, <1>2
<1>5. \A k \in 1..Len(outbox'[d]) :
        k \in 1..Len(q) \/ \E i \in 1..Len(ops) : k = Len(q) + i
  <2> SUFFICES ASSUME NEW k \in 1..Len(outbox'[d]), k \notin 1..Len(q)
               PROVE  \E i \in 1..Len(ops) : k = Len(q) + i
    OBVIOUS
  <2>1. k - Len(q) \in 1..Len(ops) /\ k = Len(q) + (k - Len(q))
    BY <1>1, <1>2
  <2> QED
    BY <2>1
<1>6. 1..Len(q) \subseteq 1..Len(outbox'[d])
  BY <1>1, <1>2
<1>7. ASSUME NEW kind \in {"profile", "link", "reading"}, NEW k \in 1..Len(q)
      PROVE  /\ k \in At(d, kind)' <=> k \in At(d, kind)
             /\ k \in At(d, kind) => outbox'[d][k] = outbox[d][k]
  <2>1. /\ q[k].op = kind <=> outbox[d][k].op = kind
        /\ q[k].op = kind => q[k] = outbox[d][k]
    BY DEF IsWrite
  <2> QED
    BY <1>3, <1>6, <2>1 DEF At
<1>8. ASSUME NEW kind
      PROVE  At(d, kind) \subseteq 1..Len(q) /\ At(d, kind)' \subseteq 1..Len(outbox'[d])
  BY DEF At
<1>9. ASSUME NEW kind, NEW i \in 1..Len(ops)
      PROVE  Len(q) + i \in At(d, kind)' <=> ops[i].op = kind
  BY <1>4 DEF At
<1>10. ASSUME NEW kind \in {"profile", "link", "reading"}
       PROVE  /\ \A k \in At(d, kind) : k \in At(d, kind)' /\ outbox'[d][k] = outbox[d][k]
              /\ \A k \in At(d, kind)' :
                   \/ k \in At(d, kind)
                   \/ \E i \in 1..Len(ops) : k = Len(q) + i /\ ops[i].op = kind
  <2>1. \A k \in At(d, kind) : k \in At(d, kind)' /\ outbox'[d][k] = outbox[d][k]
    BY <1>7, <1>8
  <2>2. ASSUME NEW k \in At(d, kind)', k \notin At(d, kind)
        PROVE  \E i \in 1..Len(ops) : k = Len(q) + i /\ ops[i].op = kind
    <3>1. PICK i \in 1..Len(ops) : k = Len(q) + i
      BY <1>5, <1>7, <1>8, <2>2
    <3> QED
      BY <1>9, <3>1
  <2> QED
    BY <2>1, <2>2
<1>11. \A kind : \A i \in 1..Len(ops) :
         ops[i].op = kind => Len(q) + i \in At(d, kind)'
  BY <1>9
<1>12. Len(q) = Len(outbox[d])
  OBVIOUS
<1>13. \A i \in 1..Len(ops) : outbox'[d][Len(outbox[d]) + i] = ops[i]
  BY <1>4, <1>12
<1>14. \A kind : \A i \in 1..Len(ops) :
         ops[i].op = kind => Len(outbox[d]) + i \in At(d, kind)'
  BY <1>11, <1>12
<1>15. ASSUME NEW kind \in {"profile", "link", "reading"}
       PROVE  /\ \A k \in At(d, kind) : k \in At(d, kind)' /\ outbox'[d][k] = outbox[d][k]
              /\ \A k \in At(d, kind)' :
                   \/ k \in At(d, kind)
                   \/ \E i \in 1..Len(ops) : k = Len(outbox[d]) + i /\ ops[i].op = kind
  <2>1. \A k \in At(d, kind) : k \in At(d, kind)' /\ outbox'[d][k] = outbox[d][k]
    BY <1>10
  <2>2. ASSUME NEW k \in At(d, kind)', k \notin At(d, kind)
        PROVE  \E i \in 1..Len(ops) : k = Len(outbox[d]) + i /\ ops[i].op = kind
    <3>1. PICK i \in 1..Len(ops) : k = Len(q) + i /\ ops[i].op = kind
      BY <1>10, <2>2
    <3>2. k = Len(outbox[d]) + i
      BY <1>12, <3>1
    <3> QED
      BY <3>1, <3>2
  <2> QED
    BY <2>1, <2>2
<1> QED
  BY <1>13, <1>14, <1>15 DEF Longer

LEMMA UnseenWrites ==
  ASSUME NEW q \in Seq(Op)
  PROVE  /\ Unseen(q) \in Seq(Op) /\ Len(Unseen(q)) = Len(q)
         /\ \A k \in 1..Len(q) :
              Unseen(q)[k] = q[k] \/ (~IsWrite(Unseen(q)[k]) /\ ~IsWrite(q[k]))
<1>1. ~IsWrite(Stale)
  BY DEF IsWrite, Stale
<1>2. \A k \in 1..Len(q) : q[k].op = "fetch" => ~IsWrite(q[k])
  BY DEF IsWrite
<1> QED
  BY <1>1, <1>2, UnseenIs

LEMMA BoxQuiet ==
  ASSUME TypeOK, NEW d \in Device, NEW q \in Seq(Op), NEW ops \in Seq(Op),
         q = outbox[d] \/ q = Unseen(outbox[d]), outbox'[d] = q \o ops,
         \A i \in 1..Len(ops) : ~IsWrite(ops[i])
  PROVE  Shifted(d, 0) /\ Follows(d, 0)
<1>1. outbox[d] \in Seq(Op)
  BY DEF TypeOK
<1>2. /\ Len(q) = Len(outbox[d])
      /\ \A k \in 1..Len(q) :
           q[k] = outbox[d][k] \/ (~IsWrite(q[k]) /\ ~IsWrite(outbox[d][k]))
  BY <1>1, UnseenWrites
<1>3. Longer(d, ops)
  BY <1>2, BoxLonger
<1>4. ASSUME NEW kind \in {"profile", "link", "reading"}
      PROVE  /\ At(d, kind)' = At(d, kind)
             /\ \A k \in At(d, kind) : outbox'[d][k] = outbox[d][k]
  BY <1>3 DEF Longer, IsWrite
<1>5. \A kind : \A k \in At(d, kind) : k \in Int /\ k > 0 /\ k + 0 = k /\ k - 0 = k
  BY DEF At, TypeOK
<1>6. Shifted(d, 0)
  BY <1>4, <1>5 DEF Shifted
<1>7. Follows(d, 0)
  BY <1>4, <1>5 DEF Follows
<1> QED
  BY <1>6, <1>7

(* The oldest operation is gone.                                           *)
LEMMA BoxSent ==
  ASSUME TypeOK, NEW d \in Device, outbox[d] # <<>>, outbox'[d] = Tail(outbox[d])
  PROVE  /\ Shifted(d, 1)
         /\ \A kind : \A k \in At(d, kind) : k # 1 =>
              /\ k > 1 /\ k - 1 \in At(d, kind)' /\ outbox'[d][k - 1] = outbox[d][k]
         /\ 1 \in At(d, Head(outbox[d]).op) /\ outbox[d][1] = Head(outbox[d])
<1>1. /\ outbox[d] \in Seq(Op) /\ Len(outbox[d]) \in Nat /\ Len(outbox[d]) # 0
  BY EmptySeq DEF TypeOK
<1>2. /\ Head(outbox[d]) = outbox[d][1]
      /\ Len(outbox'[d]) = Len(outbox[d]) - 1
      /\ \A k \in 1..(Len(outbox[d]) - 1) : outbox'[d][k] = outbox[d][k + 1]
  BY <1>1, HeadTailProperties
<1>3. ASSUME NEW kind, NEW k \in At(d, kind)'
      PROVE  k + 1 \in At(d, kind) /\ outbox'[d][k] = outbox[d][k + 1]
  <2>1. k + 1 \in 1..Len(outbox[d]) /\ outbox'[d][k] = outbox[d][k + 1]
    BY <1>1, <1>2 DEF At
  <2> QED
    BY <2>1 DEF At
<1>4. ASSUME NEW kind, NEW k \in At(d, kind), k # 1
      PROVE  k > 1 /\ k - 1 \in At(d, kind)' /\ outbox'[d][k - 1] = outbox[d][k]
  <2>1. k > 1 /\ k - 1 \in 1..Len(outbox'[d]) /\ outbox'[d][k - 1] = outbox[d][k]
    BY <1>1, <1>2, <1>4 DEF At
  <2> QED
    BY <2>1 DEF At
<1>5. 1 \in At(d, Head(outbox[d]).op)
  BY <1>1, <1>2 DEF At
<1> QED
  BY <1>2, <1>3, <1>4, <1>5 DEF Shifted

-----------------------------------------------------------------------------
(* Each action keeps the invariant.  Most leave the records alone.         *)

(* What an action without an effect on Firebase has to show.               *)
LEMMA RecordsQuiet ==
  ASSUME TypeOK, TypeOK', RecordsInv, NEW d \in Device,
         (\E f : Carried(d, f)) /\ Coded(d)',
         \E h \in Nat : Shifted(d, h) /\ Follows(d, h),
         user'[d] \in accounts \cup {None},
         \A e \in Device \ {d} :
           auth'[e] = auth[e] /\ outbox'[e] = outbox[e] /\ user'[e] = user[e],
         UNCHANGED <<firebase, clock>>
  PROVE  RecordsInv'
BY RecordsFrame DEF Follows

LEMMA UserKept ==
  ASSUME RecordsInv, NEW d \in Device
  PROVE  user[d] \in accounts \cup {None}
BY DEF RecordsInv, Means

LEMMA StillRecords ==
  ASSUME TypeOK, TypeOK', RecordsInv, NEW d \in Device, Move(d) \/ Launch(d)
  PROVE  RecordsInv'
<1>1. UNCHANGED <<firebase, user, auth, outbox, clock>>
  BY DEF Move, Launch
<1> QED
  BY <1>1, AuthSame, BoxSame, UserKept, RecordsQuiet

LEMMA TapLoginRecords ==
  ASSUME TypeOK, TypeOK', RecordsInv, NEW d \in Device, NEW e \in Email, TapLogin(d, e)
  PROVE  RecordsInv'
<1> DEFINE r == [kind |-> "login", email |-> e]
<1>1. /\ UNCHANGED <<firebase, user, outbox, clock>>
      /\ auth'[d] = Append(auth[d], r)
      /\ \A c \in Device \ {d} : auth'[c] = auth[c]
  BY DEF TapLogin, TypeOK
<1>2. r \in Request /\ r.kind = "login"
  BY DEF Request
<1> HIDE DEF r
<1>3. (\E f : Carried(d, f)) /\ Coded(d)'
  BY <1>1, <1>2, AuthAdded
<1> QED
  BY <1>1, <1>3, BoxSame, UserKept, RecordsQuiet

LEMMA AuthFailsRecords ==
  ASSUME TypeOK, TypeOK', RecordsInv, NEW d \in Device, NEW k \in 1..Len(auth[d]),
         AuthFails(d, k)
  PROVE  RecordsInv'
<1>1. /\ UNCHANGED <<firebase, user, outbox, clock>>
      /\ \A c \in Device \ {d} : auth'[c] = auth[c]
  BY DEF AuthFails, Answered, TypeOK
<1>2. (\E f : Carried(d, f)) /\ Coded(d)'
  BY AuthAnswered DEF AuthFails
<1> QED
  BY <1>1, <1>2, BoxSame, UserKept, RecordsQuiet

(* The operations of these steps are questions.                            *)
LEMMA AskRecords ==
  ASSUME TypeOK, TypeOK', RecordsInv, NEW d \in Device, NEW o \in Op, ~IsWrite(o),
         NEW q \in Seq(Op), q = outbox[d] \/ q = Unseen(outbox[d]),
         outbox' = [outbox EXCEPT ![d] = q \o <<o>>],
         (\E f : Carried(d, f)) /\ Coded(d)',
         user'[d] \in accounts \cup {None},
         \A e \in Device \ {d} : auth'[e] = auth[e] /\ user'[e] = user[e],
         UNCHANGED <<firebase, clock>>
  PROVE  RecordsInv'
<1>1. /\ outbox'[d] = q \o <<o>>
      /\ \A e \in Device \ {d} : outbox'[e] = outbox[e]
  BY DEF TypeOK
<1>2. <<o>> \in Seq(Op) /\ \A i \in 1..Len(<<o>>) : ~IsWrite(<<o>>[i])
  BY DEF IsWrite
<1>3. Shifted(d, 0) /\ Follows(d, 0)
  BY <1>1, <1>2, BoxQuiet
<1> QED
  BY <1>1, <1>3, RecordsQuiet

LEMMA TapSignupRecords ==
  ASSUME TypeOK, TypeOK', RecordsInv, NEW d \in Device, NEW g \in Form, TapSignup(d, g)
  PROVE  RecordsInv'
<1> DEFINE o == [op |-> "query", form |-> g]
<1>1. o \in Op /\ ~IsWrite(o)
  BY DEF Op, IsWrite
<1>2. outbox' = [outbox EXCEPT ![d] = outbox[d] \o <<o>>] /\ outbox[d] \in Seq(Op)
  BY DEF TapSignup, Issue, TypeOK
<1>3. UNCHANGED <<firebase, user, auth, clock>>
  BY DEF TapSignup
<1> HIDE DEF o
<1> QED
  BY <1>1, <1>2, <1>3, AuthSame, UserKept, AskRecords

LEMMA FetchIs ==
  ASSUME NEW u \in Email \cup {None}
  PROVE  Fetch(u) \in Op /\ ~IsWrite(Fetch(u))
BY DEF Fetch, Op, IsWrite

LEMMA ToHistoryRecords ==
  ASSUME TypeOK, TypeOK', RecordsInv, NEW d \in Device, ToHistory(d)
  PROVE  RecordsInv'
<1> DEFINE o == Fetch(user[d])
<1>1. o \in Op /\ ~IsWrite(o)
  BY FetchIs DEF TypeOK
<1>2. <<>> \o <<o>> = <<o>>
  BY <1>1, ConcatEmptySeq
<1>3. outbox' = [outbox EXCEPT ![d] = outbox[d] \o <<o>>] /\ outbox[d] \in Seq(Op)
  BY <1>2 DEF ToHistory, Appear, Issue, TypeOK
<1>4. UNCHANGED <<firebase, user, auth, clock>>
  BY DEF ToHistory
<1> HIDE DEF o
<1> QED
  BY <1>1, <1>3, <1>4, AuthSame, UserKept, AskRecords

LEMMA LoggedInRecords ==
  ASSUME TypeOK, TypeOK', RecordsInv, NEW d \in Device, NEW k \in 1..Len(auth[d]),
         LoggedIn(d, k)
  PROVE  RecordsInv'
<1> DEFINE e == auth[d][k].email
           o == Fetch(e)
<1>1. e \in accounts /\ e \in Email
  BY DEF LoggedIn, TypeOK
<1>2. o \in Op /\ ~IsWrite(o)
  BY <1>1, FetchIs
<1>3. outbox[d] \in Seq(Op) /\ Unseen(outbox[d]) \in Seq(Op)
  BY UnseenIs DEF TypeOK
<1>4. outbox' = [outbox EXCEPT ![d] = Unseen(outbox[d]) \o <<o>>]
  BY DEF LoggedIn, Root
<1>5. /\ UNCHANGED <<firebase, clock>> /\ user' = [user EXCEPT ![d] = e]
      /\ \A c \in Device \ {d} : auth'[c] = auth[c]
  BY DEF LoggedIn, Become, Answered, TypeOK
<1>6. user'[d] \in accounts \cup {None} /\ \A c \in Device \ {d} : user'[c] = user[c]
  BY <1>1, <1>5 DEF TypeOK
<1>7. (\E f : Carried(d, f)) /\ Coded(d)'
  BY AuthAnswered DEF LoggedIn
<1> HIDE DEF o, e
<1> QED
  BY <1>2, <1>3, <1>4, <1>5, <1>6, <1>7, AskRecords

LEMMA LogoutRecords ==
  ASSUME TypeOK, TypeOK', RecordsInv, NEW d \in Device, Logout(d)
  PROVE  RecordsInv'
<1>1. outbox[d] \in Seq(Op) /\ Unseen(outbox[d]) \in Seq(Op)
  BY UnseenIs DEF TypeOK
<1>2. /\ UNCHANGED <<firebase, user, auth, clock>>
      /\ outbox'[d] = Unseen(outbox[d]) \o <<>>
      /\ \A e \in Device \ {d} : outbox'[e] = outbox[e]
  BY DEF Logout, Root, TypeOK
<1>3. <<>> \in Seq(Op) /\ \A i \in 1..Len(<<>>) : ~IsWrite(<<>>[i])
  BY EmptySeq
<1>4. Shifted(d, 0) /\ Follows(d, 0)
  BY <1>1, <1>2, <1>3, BoxQuiet
<1> QED
  BY <1>2, <1>4, AuthSame, UserKept, RecordsQuiet

LEMMA EndRecords ==
  ASSUME TypeOK, TypeOK', RecordsInv, NEW d \in Device, NEW s, End(d, s)
  PROVE  RecordsInv'
<1>1. /\ UNCHANGED <<firebase, clock>>
      /\ outbox'[d] = <<>> /\ auth'[d] = <<>> /\ user'[d] = None
      /\ \A e \in Device \ {d} :
           auth'[e] = auth[e] /\ outbox'[e] = outbox[e] /\ user'[e] = user[e]
  BY DEF End, TypeOK
<1>2. Made(d)' = {} /\ Len(auth'[d]) = 0
  BY <1>1, EmptySeq DEF Made
<1>3. (\E f : Carried(d, f)) /\ Coded(d)'
  BY <1>2 DEF Carried, Coded
<1> QED
  BY <1>1, <1>3, BoxEmpty, RecordsQuiet

(* An answer to a question.                                                *)
LEMMA AnswerRecords ==
  ASSUME TypeOK, TypeOK', RecordsInv, NEW d \in Device,
         CodeAnswered(d) \/ HistoryLoaded(d) \/ StaleAnswer(d)
  PROVE  RecordsInv'
<1>1. /\ outbox[d] # <<>> /\ Head(outbox[d]).op \in {"query", "fetch", "stale"}
      /\ outbox'[d] = Tail(outbox[d])
      /\ \A e \in Device \ {d} : outbox'[e] = outbox[e]
      /\ UNCHANGED <<firebase, user, clock>>
  BY DEF CodeAnswered, HistoryLoaded, StaleAnswer, Due, Sent, TypeOK
<1>2. Shifted(d, 1) /\ Follows(d, 1)
  <2>1. /\ Shifted(d, 1) /\ 1 \in At(d, Head(outbox[d]).op)
        /\ \A kind : \A k \in At(d, kind) : k # 1 =>
             /\ k > 1 /\ k - 1 \in At(d, kind)' /\ outbox'[d][k - 1] = outbox[d][k]
    BY <1>1, BoxSent
  <2>2. 1 \notin At(d, "profile")
    BY <1>1, <2>1 DEF At
  <2>3. Follows(d, 1)
    BY <2>1, <2>2 DEF Follows
  <2> QED
    BY <2>1, <2>3
<1>3. CASE auth' = auth
  BY <1>1, <1>2, <1>3, AuthSame, UserKept, RecordsQuiet
<1>4. CASE auth' # auth
  <2> DEFINE g == Head(outbox[d]).form
  <2>1. Due(d, "query") /\ DoctorsOf[g] # {}
    BY <1>4 DEF CodeAnswered, HistoryLoaded, StaleAnswer
  <2>2. PICK doctor \in DoctorsOf[g] :
          auth' = [auth EXCEPT ![d] = Append(@,
                     [kind |-> "create", form |-> g, doctor |-> doctor])]
    BY <1>4, <2>1 DEF CodeAnswered, HistoryLoaded, StaleAnswer
  <2> DEFINE r == [kind |-> "create", form |-> g, doctor |-> doctor]
  <2>3. g \in Form
    <3>1. Head(outbox[d]) \in Op
      BY <1>1, HeadTailProperties DEF TypeOK
    <3> QED
      BY <2>1, <3>1, OpFields DEF Due
  <2>4. r \in Request /\ r.kind = "create" /\ r.doctor \in DoctorsOf[r.form]
    BY <2>3, AppAssumption DEF Request
  <2>5. auth'[d] = Append(auth[d], r) /\ \A e \in Device \ {d} : auth'[e] = auth[e]
    BY <2>2 DEF TypeOK
  <2> HIDE DEF r
  <2>6. (\E f : Carried(d, f)) /\ Coded(d)'
    BY <2>4, <2>5, AuthAdded
  <2> QED
    BY <1>1, <1>2, <2>5, <2>6, UserKept, RecordsQuiet
<1> QED
  BY <1>3, <1>4

LEMMA PairIs ==
  ASSUME NEW a \in Op, NEW b \in Op
  PROVE  LET ops == <<a>> \o <<b>>
         IN ops \in Seq(Op) /\ Len(ops) = 2 /\ ops[1] = a /\ ops[2] = b
<1>1. <<a>> \in Seq(Op) /\ <<b>> \in Seq(Op) /\ Len(<<a>>) = 1 /\ Len(<<b>>) = 1
  OBVIOUS
<1> QED
  BY <1>1, ConcatProperties

LEMMA LongerSame ==
  ASSUME NEW d \in Device, NEW ops, Longer(d, ops),
         NEW kind \in {"profile", "link", "reading"},
         \A i \in 1..Len(ops) : ops[i].op # kind
  PROVE  /\ At(d, kind)' = At(d, kind)
         /\ \A k \in At(d, kind) : outbox'[d][k] = outbox[d][k]
<1>1. \A k \in At(d, kind) : k \in At(d, kind)' /\ outbox'[d][k] = outbox[d][k]
  BY DEF Longer
<1>2. \A k \in At(d, kind)' : k \in At(d, kind)
  BY DEF Longer
<1> QED
  BY <1>1, <1>2

(* The new reading has an account, and the newest key.                     *)
LEMMA SaveReadingRecords ==
  ASSUME AppInv, TypeOK', RecordsInv, NEW d \in Device, SaveReading(d)
  PROVE  RecordsInv'
<1> DEFINE r == [id |-> clock + 1, uid |-> user[d], by |-> patient[d], on |-> d]
           a == [op |-> "reading", reading |-> r]
           b == Fetch(user[d])
           ops == <<a>> \o <<b>>
           n == Len(outbox[d])
<1>1. TypeOK /\ Shape(d) /\ Means(d)
  BY DEF AppInv, RecordsInv
<1>2. user[d] \in accounts /\ user[d] \in Email
  <2>1. user[d] # None
    BY DEF AppInv, Private, SaveReading, Start
  <2> QED
    BY <1>1, <2>1, UserKept DEF TypeOK
<1>3. /\ clock \in Nat /\ clock' = clock + 1 /\ clock' \in Nat
      /\ outbox[d] \in Seq(Op) /\ n \in Nat
  BY <1>1, AppAssumption DEF TypeOK, SaveReading
<1>4. r \in Reading
  BY <1>1, <1>3 DEF Reading, TypeOK
<1>5. a \in Op /\ b \in Op /\ ~IsWrite(b) /\ a.op = "reading" /\ a.reading = r
  BY <1>2, <1>4, FetchIs DEF Op
<1>6. /\ r.id = clock + 1 /\ r.uid = user[d] /\ r.on = d
  OBVIOUS
<1>8. /\ UNCHANGED <<firebase, user, auth>> /\ auth' = auth
      /\ outbox'[d] = outbox[d] \o ops
      /\ \A e \in Device \ {d} : outbox'[e] = outbox[e]
  BY <1>1 DEF SaveReading, Appear, Issue, TypeOK
<1> HIDE DEF r, a, b
<1>9. /\ ops \in Seq(Op) /\ Len(ops) = 2 /\ ops[1] = a /\ ops[2] = b
  BY <1>5, PairIs
<1>10. Longer(d, ops)
  BY <1>1, <1>3, <1>8, <1>9, BoxLonger
<1> HIDE DEF ops
<1>11. ASSUME NEW kind \in {"profile", "link"}
       PROVE  /\ At(d, kind)' = At(d, kind)
              /\ \A k \in At(d, kind) : outbox'[d][k] = outbox[d][k]
  <2>1. \A i \in 1..Len(ops) : ops[i].op # kind
    BY <1>5, <1>9 DEF IsWrite
  <2> QED
    BY <1>10, <2>1, LongerSame
<1>12. ASSUME NEW k \in At(d, "reading")'
       PROVE  \/ k \in At(d, "reading") /\ outbox'[d][k] = outbox[d][k]
              \/ k = n + 1 /\ outbox'[d][k].reading = r
  <2>1. CASE k \in At(d, "reading")
    BY <1>10, <2>1 DEF Longer
  <2>2. CASE k \notin At(d, "reading")
    <3>1. PICK i \in 1..Len(ops) : k = n + i /\ ops[i].op = "reading"
      BY <1>10, <2>2 DEF Longer
    <3>2. i = 1
      BY <1>5, <1>9, <3>1 DEF IsWrite
    <3>3. outbox'[d][n + 1] = ops[1]
      BY <1>9, <1>10 DEF Longer
    <3> QED
      BY <1>5, <1>9, <3>1, <3>2, <3>3
  <2> QED
    BY <2>1, <2>2
<1>13. ASSUME NEW k \in At(d, "reading")
       PROVE  /\ k \in 1..n /\ outbox[d][k].reading.id \in Nat
              /\ outbox[d][k].reading.id <= clock
  <2>1. k \in 1..n /\ outbox[d][k] \in Op /\ outbox[d][k].op = "reading"
    BY <1>3, ElementOfSeq DEF At
  <2>2. outbox[d][k].reading \in Reading
    BY <2>1, OpFields
  <2> QED
    BY <1>1, <2>1, <2>2 DEF Means, Reading
<1>14. Made(d)' = Made(d)
  BY <1>8 DEF Made
<1>15. Shape(d)' /\ Busy(d)' = Busy(d)
  <2>1. \A k \in At(d, "reading")' : outbox'[d][k].reading.on = d
    BY <1>1, <1>6, <1>12 DEF Shape
  <2>2. ASSUME NEW j \in At(d, "reading")', NEW k \in At(d, "reading")', j < k
        PROVE  outbox'[d][j].reading.id < outbox'[d][k].reading.id
    <3>1. CASE j = n + 1
      BY <1>3, <1>12, <1>13, <2>2, <3>1
    <3>2. CASE j # n + 1 /\ k = n + 1
      <4>1. j \in At(d, "reading") /\ outbox'[d][j] = outbox[d][j]
        BY <1>12, <3>2
      <4>2. k \notin At(d, "reading")
        BY <1>3, <1>13, <3>2
      <4>3. outbox'[d][k].reading = r
        BY <1>12, <4>2
      <4> QED
        BY <1>3, <1>6, <1>13, <4>1, <4>3
    <3>3. CASE j # n + 1 /\ k # n + 1
      BY <1>1, <1>12, <2>2, <3>3 DEF Shape
    <3> QED
      BY <3>1, <3>2, <3>3
  <2>3. Busy(d)' = Busy(d)
    <3>1. /\ At(d, "profile")' = At(d, "profile") /\ At(d, "link")' = At(d, "link")
          /\ \A k \in At(d, "profile") \cup At(d, "link") : outbox'[d][k] = outbox[d][k]
      BY <1>11
    <3>2. {outbox'[d][k].uid : k \in At(d, "profile")' \cup At(d, "link")'}
            = {outbox[d][k].uid : k \in At(d, "profile") \cup At(d, "link")}
      BY <3>1
    <3> QED
      BY <1>8, <1>14, <3>2 DEF Busy
  <2>4. \A k \in At(d, "profile")' : outbox'[d][k].uid = EmailOf[outbox'[d][k].form]
    BY <1>1, <1>11 DEF Shape
  <2>5. /\ \A j, k \in Made(d)' : EmailOf[auth'[d][j].form] = EmailOf[auth'[d][k].form] => j = k
        /\ \A k \in 1..Len(auth'[d]) : auth'[d][k].kind # "login" =>
             auth'[d][k].doctor \in DoctorsOf[auth'[d][k].form]
    BY <1>1, <1>8, <1>14 DEF Shape
  <2>6. ASSUME NEW kind \in {"profile", "link"}
        PROVE  /\ \A j, k \in At(d, kind)' : outbox'[d][j].uid = outbox'[d][k].uid => j = k
               /\ \A j \in Made(d)', k \in At(d, kind)' :
                    EmailOf[auth'[d][j].form] # outbox'[d][k].uid
    <3>1. At(d, kind)' = At(d, kind) /\ \A k \in At(d, kind) : outbox'[d][k] = outbox[d][k]
      BY <1>11
    <3>2. /\ \A j, k \in At(d, kind) : outbox[d][j].uid = outbox[d][k].uid => j = k
          /\ \A j \in Made(d), k \in At(d, kind) :
               EmailOf[auth[d][j].form] # outbox[d][k].uid
      BY <1>1 DEF Shape
    <3>3. auth' = auth
      BY <1>8
    <3>4. ASSUME NEW j \in At(d, kind), NEW k \in At(d, kind),
                 outbox'[d][j].uid = outbox'[d][k].uid
          PROVE  j = k
      BY <3>1, <3>2, <3>4
    <3>5. ASSUME NEW j \in Made(d), NEW k \in At(d, kind)
          PROVE  EmailOf[auth'[d][j].form] # outbox'[d][k].uid
      BY <3>1, <3>2, <3>3
    <3> QED
      BY <1>14, <3>1, <3>4, <3>5
  <2> QED
    BY <2>1, <2>2, <2>3, <2>4, <2>5, <2>6 DEF Shape
<1>16. Means(d)'
  <2>1. \A k \in At(d, "link") : Suits(d, k) => Suits(d, k)'
    BY <1>8, <1>11 DEF Suits, firebase
  <2>2. r \notin stored
    <3>1. \A s \in stored : s.id <= clock
      BY DEF RecordsInv
    <3> QED
      BY <1>3, <1>6, <3>1
  <2>3. ASSUME NEW k \in At(d, "reading")'
        PROVE  LET s == outbox'[d][k].reading
               IN s.uid \in accounts' /\ s.id <= clock' /\ s \notin stored'
    <3>1. CASE k \in At(d, "reading") /\ outbox'[d][k] = outbox[d][k]
      BY <1>1, <1>3, <1>8, <1>13, <3>1 DEF Means, firebase
    <3>2. CASE outbox'[d][k].reading = r
      BY <1>2, <1>3, <1>6, <1>8, <2>2, <3>2 DEF firebase
    <3> QED
      BY <1>12, <3>1, <3>2
  <2>4. \A x : Bare(x) => Bare(x)'
    BY <1>8 DEF Bare, firebase
  <2>5. user'[d] \in accounts' \cup {None} /\ accounts' = accounts /\ links' = links
    BY <1>2, <1>8 DEF firebase
  <2> QED
    BY <1>1, <1>8, <1>11, <1>14, <2>1, <2>3, <2>4, <2>5 DEF Means
<1>17. /\ accounts' = accounts /\ profiles' = profiles /\ links' = links
       /\ stored' = stored /\ clock <= clock'
  BY <1>3, <1>8 DEF firebase
<1>18. /\ \A x \in Email : profiles'[x] # None => x \in accounts'
       /\ \A l \in links' : l[2] \in accounts'
       /\ \A s \in stored' : s.id <= clock'
  <2>1. \A s \in stored : s.id \in Nat /\ s.id <= clock
    BY <1>1 DEF RecordsInv, TypeOK, Reading
  <2> QED
    BY <1>3, <1>17, <2>1 DEF RecordsInv
<1> QED
  BY <1>1, <1>8, <1>15, <1>16, <1>17, <1>18, RecordsStep

(* The new account is nobody else's: nothing was known of the e-mail.      *)
LEMMA CreateUserRecords ==
  ASSUME TypeOK, TypeOK', RecordsInv, NEW d \in Device, NEW k \in 1..Len(auth[d]),
         CreateUser(d, k)
  PROVE  RecordsInv' /\ Records!Next
<1>0. PICK e : e = EmailOf[auth[d][k].form]
  OBVIOUS
<1>1. Shape(d) /\ Means(d)
  BY DEF RecordsInv
<1>2. /\ e \notin accounts /\ accounts' = accounts \cup {e} /\ auth[d][k].kind = "create"
      /\ UNCHANGED <<profiles, links, stored, user, outbox, clock>>
  BY <1>0 DEF CreateUser
<1>3. auth[d] \in Seq(Request) /\ auth[d][k] \in Request
  BY ElementOfSeq DEF TypeOK
<1>4. auth[d][k].form \in Form /\ e \in Email
  BY <1>0, <1>2, <1>3, RequestFields, AppAssumption
<1>5. /\ Len(auth'[d]) = Len(auth[d])
      /\ \A i \in 1..Len(auth[d]) : i # k => auth'[d][i] = auth[d][i]
      /\ auth'[d][k] = [auth[d][k] EXCEPT !.kind = "created"]
      /\ \A c \in Device \ {d} : auth'[c] = auth[c]
  <2> DEFINE q == [auth[d] EXCEPT ![k].kind = "created"]
  <2>1. q = [auth[d] EXCEPT ![k] = [auth[d][k] EXCEPT !.kind = "created"]]
    OBVIOUS
  <2>2. auth' = [auth EXCEPT ![d] = q]
    BY DEF CreateUser
  <2>3. /\ Len(q) = Len(auth[d])
        /\ \A i \in 1..Len(auth[d]) : i # k => q[i] = auth[d][i]
        /\ q[k] = [auth[d][k] EXCEPT !.kind = "created"]
    BY <1>3, <2>1
  <2> HIDE DEF q
  <2>4. auth'[d] = q /\ \A c \in Device \ {d} : auth'[c] = auth[c]
    BY <2>2 DEF TypeOK
  <2> QED
    BY <2>3, <2>4
<1>6. /\ auth'[d][k].kind = "created" /\ auth'[d][k].form = auth[d][k].form
      /\ auth'[d][k].doctor = auth[d][k].doctor
  BY <1>2, <1>3, <1>5 DEF Request
<1>7. Made(d)' = Made(d) \cup {k} /\ k \notin Made(d) /\ Made(d) \subseteq 1..Len(auth[d])
  <2>1. Made(d)' \subseteq 1..Len(auth[d])
    BY <1>5 DEF Made
  <2>2. \A i \in 1..Len(auth[d]) : i # k => (i \in Made(d)' <=> i \in Made(d))
    BY <1>5 DEF Made
  <2>3. k \in Made(d)' /\ k \notin Made(d)
    BY <1>2, <1>5, <1>6 DEF Made
  <2>4. Made(d) \subseteq 1..Len(auth[d])
    BY DEF Made
  <2> QED
    BY <2>1, <2>2, <2>3, <2>4
<1>8. \A i \in Made(d) : auth'[d][i] = auth[d][i]
  BY <1>5, <1>7
<1>9. \A kind : At(d, kind)' = At(d, kind)
  BY <1>2 DEF At
<1>10. Bare(e)'
  BY <1>2, <1>4 DEF Bare, RecordsInv
<1>11. \A x : Bare(x) => Bare(x)' /\ x # e
  BY <1>2 DEF Bare
<1>12. auth'[d][k].form = auth[d][k].form /\ EmailOf[auth'[d][k].form] = e
  BY <1>0, <1>6
<1>13. \A i \in Made(d) : EmailOf[auth'[d][i].form] # e /\ Bare(EmailOf[auth'[d][i].form])
  BY <1>1, <1>8, <1>11 DEF Means
<1>14. \A i \in At(d, "profile") \cup At(d, "link") : outbox[d][i].uid # e
  BY <1>1, <1>2, <1>11 DEF Means
<1>15. Shape(d)'
  <2>1. \A i, j \in Made(d)' : EmailOf[auth'[d][i].form] = EmailOf[auth'[d][j].form] => i = j
    BY <1>1, <1>7, <1>8, <1>12, <1>13 DEF Shape
  <2>2. \A i \in 1..Len(auth'[d]) : auth'[d][i].kind # "login" =>
          auth'[d][i].doctor \in DoctorsOf[auth'[d][i].form]
    BY <1>1, <1>2, <1>5, <1>6 DEF Shape
  <2>3. ASSUME NEW kind \in {"profile", "link"}
        PROVE  \A i \in Made(d)', j \in At(d, kind) :
                 EmailOf[auth'[d][i].form] # outbox[d][j].uid
    BY <1>1, <1>7, <1>8, <1>12, <1>14 DEF Shape
  <2>4. outbox' = outbox
    BY <1>2
  <2>5. /\ \A i \in At(d, "profile") : outbox[d][i].uid = EmailOf[outbox[d][i].form]
        /\ \A kind \in {"profile", "link"} :
             \A i, j \in At(d, kind) : outbox[d][i].uid = outbox[d][j].uid => i = j
        /\ \A i \in At(d, "reading") : outbox[d][i].reading.on = d
        /\ \A i, j \in At(d, "reading") :
             i < j => outbox[d][i].reading.id < outbox[d][j].reading.id
    BY <1>1 DEF Shape
  <2> QED
    BY <1>9, <2>1, <2>2, <2>3, <2>4, <2>5 DEF Shape
<1>16. Means(d)'
  <2>1. \A i \in Made(d)' : Bare(EmailOf[auth[d][i].form])'
    BY <1>7, <1>10, <1>11, <1>12, <1>13
  <2>2. \A i \in At(d, "profile")' : Bare(outbox[d][i].uid)'
    BY <1>1, <1>2, <1>9, <1>11 DEF Means
  <2>3. \A i \in At(d, "link") : Suits(d, i) => Suits(d, i)'
    BY <1>2, <1>9 DEF Suits
  <2>4. outbox' = outbox /\ user' = user /\ links' = links /\ stored' = stored
        /\ clock' = clock /\ accounts \subseteq accounts'
    BY <1>2
  <2> QED
    BY <1>1, <1>9, <2>1, <2>2, <2>3, <2>4 DEF Means
<1>17. Busy(d)' \subseteq Busy(d) \cup (Email \ accounts)
  <2>1. \A i \in Made(d)' : EmailOf[auth'[d][i].form] \in Busy(d) \cup {e}
    BY <1>7, <1>8, <1>12 DEF Busy
  <2> QED
    BY <1>2, <1>4, <1>9, <2>1 DEF Busy
<1>18. clock <= clock'
  BY <1>2, AppAssumption DEF TypeOK
<1>19. /\ \A x \in Email : profiles'[x] # None => x \in accounts'
       /\ \A l \in links' : l[2] \in accounts'
       /\ \A r \in stored' : r.id <= clock'
  BY <1>2 DEF RecordsInv
<1>20. RecordsInv'
  BY <1>1, <1>2, <1>5, <1>15, <1>16, <1>17, <1>18, <1>19, RecordsStep
<1>21. Records!Create(e)
  BY <1>2 DEF Records!Create
<1> QED
  BY <1>4, <1>20, <1>21 DEF Records!Next

(* The two writes of a sign-up replace the request that made the account.  *)
LEMMA SignedUpRecords ==
  ASSUME TypeOK, TypeOK', RecordsInv, NEW d \in Device, NEW k \in 1..Len(auth[d]),
         SignedUp(d, k)
  PROVE  RecordsInv'
<1>0. PICK r : r = auth[d][k]
  OBVIOUS
<1> DEFINE ops == Aspects(r)
           n == Len(outbox[d])
<1>1. PICK e : e = EmailOf[r.form]
  OBVIOUS
<1>2. Shape(d) /\ Means(d)
  BY DEF RecordsInv
<1>3. r \in Request /\ r.kind = "created" /\ k \in Made(d)
  BY <1>0, ElementOfSeq DEF SignedUp, Made, TypeOK
<1>4. r.form \in Form /\ r.doctor \in Doctor /\ e \in Email
  BY <1>1, <1>3, RequestFields, AppAssumption
<1>5. /\ r.doctor \in DoctorsOf[r.form] /\ Bare(e) /\ e \in Busy(d) /\ e \in accounts
      /\ \A i \in Made(d) : i # k => EmailOf[auth[d][i].form] # e
      /\ \A i \in At(d, "profile") \cup At(d, "link") : outbox[d][i].uid # e
  BY <1>0, <1>1, <1>2, <1>3 DEF Shape, Means, Busy, Bare
<1>6. /\ UNCHANGED <<accounts, profiles, links, stored, clock>>
      /\ user'[d] = e /\ outbox'[d] = Unseen(outbox[d]) \o ops
      /\ \A c \in Device \ {d} : /\ auth'[c] = auth[c] /\ outbox'[c] = outbox[c]
                                 /\ user'[c] = user[c]
  BY <1>0, <1>1 DEF SignedUp, Become, Root, Answered, TypeOK, firebase
<1>7. PICK f : Carried(d, f) /\ \A i \in Made(d)' : f[i] # k
  BY AuthAnswered DEF SignedUp
<1>8. Coded(d)'
  BY AuthAnswered DEF SignedUp
<1>9. /\ ops \in Seq(Op) /\ Len(ops) = 3
      /\ ops[1].op = "profile" /\ ops[1].uid = e /\ ops[1].form = r.form
      /\ ops[2].op = "link" /\ ops[2].uid = e /\ ops[2].doctor = r.doctor
      /\ ops[3].op = "fetch"
  <2>1. ops \in Seq(Op)
    BY <1>3, AspectOps, OpOfOp
  <2> QED
    BY <1>1, <2>1 DEF Aspects, Fetch
<1> HIDE DEF ops
<1>10. Longer(d, ops)
  <2>1. outbox[d] \in Seq(Op)
    BY DEF TypeOK
  <2> QED
    BY <1>6, <1>9, <2>1, UnseenWrites, BoxLonger
<1>11. n \in Nat /\ \A kind : \A i \in At(d, kind) : i \in 1..n
  BY DEF At, TypeOK
<1>12. /\ At(d, "reading")' = At(d, "reading")
       /\ \A i \in At(d, "reading") : outbox'[d][i] = outbox[d][i]
  <2>1. \A i \in 1..Len(ops) : ops[i].op # "reading"
    BY <1>9
  <2> QED
    BY <1>10, <2>1, LongerSame
<1>13. /\ At(d, "profile")' = At(d, "profile") \cup {n + 1}
       /\ \A i \in At(d, "profile") : outbox'[d][i] = outbox[d][i]
       /\ outbox'[d][n + 1].uid = e /\ outbox'[d][n + 1].form = r.form
  <2>1. \A i \in 1..Len(ops) : ops[i].op = "profile" => i = 1
    BY <1>9
  <2>2. /\ \A i \in At(d, "profile") : i \in At(d, "profile")' /\ outbox'[d][i] = outbox[d][i]
        /\ \A i \in At(d, "profile")' : i \in At(d, "profile") \/ i = n + 1
    BY <1>10, <2>1 DEF Longer
  <2>3. n + 1 \in At(d, "profile")' /\ outbox'[d][n + 1] = ops[1]
    BY <1>9, <1>10 DEF Longer
  <2> QED
    BY <1>9, <2>2, <2>3
<1>14. /\ At(d, "link")' = At(d, "link") \cup {n + 2}
       /\ \A i \in At(d, "link") : outbox'[d][i] = outbox[d][i]
       /\ outbox'[d][n + 2].uid = e /\ outbox'[d][n + 2].doctor = r.doctor
  <2>1. \A i \in 1..Len(ops) : ops[i].op = "link" => i = 2
    BY <1>9
  <2>2. /\ \A i \in At(d, "link") : i \in At(d, "link")' /\ outbox'[d][i] = outbox[d][i]
        /\ \A i \in At(d, "link")' : i \in At(d, "link") \/ i = n + 2
    BY <1>10, <2>1 DEF Longer
  <2>3. n + 2 \in At(d, "link")' /\ outbox'[d][n + 2] = ops[2]
    BY <1>9, <1>10 DEF Longer
  <2> QED
    BY <1>9, <2>2, <2>3
<1> HIDE DEF n
<1>15. \A i \in Made(d)' : /\ EmailOf[auth'[d][i].form] # e
                           /\ EmailOf[auth'[d][i].form] \in Busy(d)
                           /\ Bare(EmailOf[auth'[d][i].form])
                           /\ \A j \in At(d, "profile") \cup At(d, "link") :
                                EmailOf[auth'[d][i].form] # outbox[d][j].uid
  BY <1>2, <1>5, <1>7 DEF Carried, Busy, Means, Shape
<1>16. Shape(d)'
  <2>1. \A i, j \in Made(d)' : EmailOf[auth'[d][i].form] = EmailOf[auth'[d][j].form] => i = j
    BY <1>2, <1>7 DEF Carried, Shape
  <2>2. \A i \in At(d, "profile")' : outbox'[d][i].uid = EmailOf[outbox'[d][i].form]
    BY <1>1, <1>2, <1>13 DEF Shape
  <2>3. /\ \A i, j \in At(d, "profile")' : outbox'[d][i].uid = outbox'[d][j].uid => i = j
        /\ \A i \in Made(d)', j \in At(d, "profile")' :
             EmailOf[auth'[d][i].form] # outbox'[d][j].uid
    BY <1>2, <1>5, <1>13, <1>15 DEF Shape
  <2>4. /\ \A i, j \in At(d, "link")' : outbox'[d][i].uid = outbox'[d][j].uid => i = j
        /\ \A i \in Made(d)', j \in At(d, "link")' :
             EmailOf[auth'[d][i].form] # outbox'[d][j].uid
    BY <1>2, <1>5, <1>14, <1>15 DEF Shape
  <2>5. /\ \A i \in At(d, "reading")' : outbox'[d][i].reading.on = d
        /\ \A i, j \in At(d, "reading")' :
             i < j => outbox'[d][i].reading.id < outbox'[d][j].reading.id
    BY <1>2, <1>12 DEF Shape
  <2>6. \A i \in 1..Len(auth'[d]) : auth'[d][i].kind # "login" =>
          auth'[d][i].doctor \in DoctorsOf[auth'[d][i].form]
    BY <1>8 DEF Coded
  <2> QED
    BY <2>1, <2>2, <2>3, <2>4, <2>5, <2>6 DEF Shape
<1>17. Busy(d)' \subseteq Busy(d)
  <2>1. \A i \in At(d, "profile")' : outbox'[d][i].uid \in Busy(d)
    BY <1>5, <1>13 DEF Busy
  <2>2. \A i \in At(d, "link")' : outbox'[d][i].uid \in Busy(d)
    BY <1>5, <1>14 DEF Busy
  <2> QED
    BY <1>15, <2>1, <2>2 DEF Busy
<1>18. Means(d)'
  <2>1. \A x : Bare(x) => Bare(x)'
    BY <1>6 DEF Bare
  <2>2. \A i \in Made(d)' : Bare(EmailOf[auth[d][i].form])'
    BY <1>15, <2>1
  <2>3. \A i \in At(d, "profile")' : Bare(outbox[d][i].uid)'
    BY <1>2, <1>5, <1>13, <2>1 DEF Means
  <2>4. ASSUME NEW i \in At(d, "link")'
        PROVE  /\ outbox'[d][i].uid \in accounts' /\ Suits(d, i)'
               /\ \A l \in links' : l[2] # outbox'[d][i].uid
    <3>1. CASE i \in At(d, "link")
      <4>1. /\ outbox'[d][i] = outbox[d][i] /\ outbox[d][i].uid \in accounts /\ Suits(d, i)
            /\ \A l \in links : l[2] # outbox[d][i].uid
        BY <1>2, <1>14, <3>1 DEF Means
      <4>2. Suits(d, i)'
        BY <1>6, <1>13, <4>1 DEF Suits
      <4> QED
        BY <1>6, <4>1, <4>2
    <3>2. CASE i = n + 2
      <4>1. n + 1 \in At(d, "profile")' /\ n + 1 < i
        BY <1>11, <1>13, <3>2
      <4>2. Suits(d, i)'
        BY <1>5, <1>13, <1>14, <3>2, <4>1 DEF Suits
      <4>3. \A l \in links : l[2] # e
        BY <1>5 DEF Bare
      <4> QED
        BY <1>5, <1>6, <1>14, <3>2, <4>2, <4>3
    <3> QED
      BY <1>14, <3>1, <3>2
  <2>5. \A i \in At(d, "reading")' :
          LET s == outbox'[d][i].reading
          IN s.uid \in accounts' /\ s.id <= clock' /\ s \notin stored'
    BY <1>2, <1>6, <1>12 DEF Means
  <2>6. user'[d] \in accounts' \cup {None}
    BY <1>5, <1>6
  <2> QED
    BY <2>2, <2>3, <2>4, <2>5, <2>6 DEF Means
<1>19. clock <= clock'
  BY <1>6, AppAssumption DEF TypeOK
<1>20. /\ \A x \in Email : profiles'[x] # None => x \in accounts'
       /\ \A l \in links' : l[2] \in accounts'
       /\ \A s \in stored' : s.id <= clock'
  BY <1>6 DEF RecordsInv
<1> QED
  BY <1>6, <1>16, <1>17, <1>18, <1>19, <1>20, RecordsStep

(* Each write that is due is one step of what the records promise.         *)
LEMMA StoreProfileRecords ==
  ASSUME TypeOK, TypeOK', RecordsInv, NEW d \in Device, StoreProfile(d)
  PROVE  RecordsInv' /\ Records!Next
<1>0. PICK o : o = Head(outbox[d])
  OBVIOUS
<1>1. Shape(d) /\ Means(d)
  BY DEF RecordsInv
<1>2. /\ outbox[d] # <<>> /\ o.op = "profile" /\ outbox'[d] = Tail(outbox[d])
      /\ profiles' = [profiles EXCEPT ![o.uid] = o.form]
      /\ UNCHANGED <<accounts, links, stored, user, auth, clock>>
      /\ \A c \in Device \ {d} : outbox'[c] = outbox[c]
  BY <1>0 DEF StoreProfile, Due, Sent, TypeOK
<1>3. /\ Shifted(d, 1)
      /\ \A kind : \A k \in At(d, kind) : k # 1 =>
           k > 1 /\ k - 1 \in At(d, kind)' /\ outbox'[d][k - 1] = outbox[d][k]
      /\ 1 \in At(d, "profile") /\ outbox[d][1] = o
  BY <1>0, <1>2, BoxSent
<1>4. o.uid \in Email /\ o.form \in Form
  <2>1. o \in Op
    BY <1>0, <1>2, HeadTailProperties DEF TypeOK
  <2> QED
    BY <1>2, <2>1, OpFields
<1>5. /\ Bare(o.uid) /\ o.uid \in Busy(d) /\ o.uid = EmailOf[o.form]
      /\ \A k \in At(d, "profile") : outbox[d][k].uid = o.uid => k = 1
      /\ \A k \in Made(d) : EmailOf[auth[d][k].form] # o.uid
  BY <1>1, <1>3 DEF Means, Shape, Busy
<1>6. Shape(d)' /\ Busy(d)' \subseteq Busy(d)
  BY <1>1, <1>2, <1>3, AuthSame, ShapeKept
<1>7. /\ \A x \in Email \ {o.uid} : profiles'[x] = profiles[x]
      /\ profiles'[o.uid] = o.form /\ o.form # None
  BY <1>2, <1>4, AppAssumption DEF TypeOK
<1>8. \A x : Bare(x) /\ x # o.uid => Bare(x)'
  BY <1>2, <1>7 DEF Bare, TypeOK
<1>9. \A kind \in {"profile", "link", "reading"} : \A k \in At(d, kind)' :
        k \in Nat /\ k + 1 # 1 /\ k + 1 \in At(d, kind) /\ outbox'[d][k] = outbox[d][k + 1]
  BY <1>3 DEF Shifted, At, TypeOK
<1>10. ASSUME NEW k \in At(d, "link")'
       PROVE  /\ outbox'[d][k].uid \in accounts' /\ Suits(d, k)'
              /\ \A l \in links' : l[2] # outbox'[d][k].uid
  <2>0. PICK p : p = outbox[d][k + 1]
    OBVIOUS
  <2>1. /\ k \in Nat /\ outbox'[d][k] = p /\ p.uid \in accounts /\ Suits(d, k + 1)
        /\ \A l \in links : l[2] # p.uid
    BY <1>1, <1>9, <2>0 DEF Means
  <2>2. p.uid \in Email
    BY <2>1 DEF TypeOK
  <2>3. CASE profiles[p.uid] # None /\ p.doctor \in DoctorsOf[profiles[p.uid]]
    <3>1. profiles'[p.uid] = profiles[p.uid]
      BY <1>5, <1>7, <2>2, <2>3 DEF Bare
    <3> QED
      BY <1>2, <2>1, <2>3, <3>1 DEF Suits
  <2>4. CASE \E j \in At(d, "profile") : /\ j < k + 1 /\ outbox[d][j].uid = p.uid
                                         /\ p.doctor \in DoctorsOf[outbox[d][j].form]
    <3>1. PICK j \in At(d, "profile") : /\ j < k + 1 /\ outbox[d][j].uid = p.uid
                                        /\ p.doctor \in DoctorsOf[outbox[d][j].form]
      BY <2>4
    <3>2. CASE j = 1
      BY <1>2, <1>3, <1>7, <2>1, <3>1, <3>2 DEF Suits
    <3>3. CASE j # 1
      <4>1. j - 1 \in At(d, "profile")' /\ outbox'[d][j - 1] = outbox[d][j]
        BY <1>3, <3>3
      <4>2. j - 1 < k
        BY <2>1, <3>1 DEF At, TypeOK
      <4> QED
        BY <1>2, <2>1, <3>1, <4>1, <4>2 DEF Suits
    <3> QED
      BY <3>2, <3>3
  <2> QED
    BY <1>2, <2>0, <2>1, <2>3, <2>4 DEF Suits
<1>11. Means(d)'
  <2>1. Made(d)' = Made(d) /\ auth' = auth
    BY <1>2 DEF Made
  <2>2. \A k \in Made(d)' : Bare(EmailOf[auth[d][k].form])'
    BY <1>1, <1>5, <1>8, <2>1 DEF Means
  <2>3. \A k \in At(d, "profile")' : Bare(outbox[d][k].uid)'
    BY <1>1, <1>5, <1>8, <1>9 DEF Means
  <2>4. \A k \in At(d, "reading")' :
          LET r == outbox'[d][k].reading
          IN r.uid \in accounts' /\ r.id <= clock' /\ r \notin stored'
    BY <1>1, <1>2, <1>9 DEF Means
  <2>5. user'[d] \in accounts' \cup {None}
    BY <1>1, <1>2 DEF Means
  <2> QED
    BY <1>10, <2>2, <2>3, <2>4, <2>5 DEF Means
<1>12. clock <= clock'
  BY <1>2, AppAssumption DEF TypeOK
<1>13. /\ \A x \in Email : profiles'[x] # None => x \in accounts'
       /\ \A l \in links' : l[2] \in accounts'
       /\ \A r \in stored' : r.id <= clock'
  BY <1>2, <1>5, <1>7 DEF RecordsInv, Bare
<1>14. accounts \subseteq Email
  BY DEF TypeOK
<1>15. \A x \in accounts \ Busy(d) : profiles'[x] = profiles[x]
  BY <1>5, <1>7, <1>14
<1>16. RecordsInv'
  BY <1>2, <1>6, <1>11, <1>12, <1>13, <1>15, RecordsStep
<1>17. Records!Describe(o.form)
  BY <1>2, <1>5 DEF Records!Describe, Bare
<1> QED
  BY <1>4, <1>16, <1>17 DEF Records!Next

LEMMA StoreLinkRecords ==
  ASSUME TypeOK, TypeOK', RecordsInv, NEW d \in Device, StoreLink(d)
  PROVE  RecordsInv' /\ Records!Next
<1>0. PICK o : o = Head(outbox[d])
  OBVIOUS
<1>1. Shape(d) /\ Means(d)
  BY DEF RecordsInv
<1>2. /\ outbox[d] # <<>> /\ o.op = "link" /\ outbox'[d] = Tail(outbox[d])
      /\ links' = links \cup {<<o.doctor, o.uid>>}
      /\ UNCHANGED <<accounts, profiles, stored, user, auth, clock>>
      /\ \A c \in Device \ {d} : outbox'[c] = outbox[c]
  BY <1>0 DEF StoreLink, Due, Sent, TypeOK
<1>3. /\ Shifted(d, 1)
      /\ \A kind : \A k \in At(d, kind) : k # 1 =>
           k > 1 /\ k - 1 \in At(d, kind)' /\ outbox'[d][k - 1] = outbox[d][k]
      /\ 1 \in At(d, "link") /\ outbox[d][1] = o
  BY <1>0, <1>2, BoxSent
<1>4. /\ o.uid \in accounts /\ o.uid \in Email /\ o.uid \in Busy(d)
      /\ \A l \in links : l[2] # o.uid
      /\ \A k \in At(d, "link") : outbox[d][k].uid = o.uid => k = 1
      /\ \A k \in Made(d) : EmailOf[auth[d][k].form] # o.uid
  BY <1>1, <1>3 DEF Means, Shape, Busy, TypeOK
<1>5. profiles[o.uid] # None /\ o.doctor \in DoctorsOf[profiles[o.uid]]
  <2>1. Suits(d, 1)
    BY <1>1, <1>3 DEF Means
  <2>2. \A j \in At(d, "profile") : ~(j < 1)
    BY DEF At, TypeOK
  <2> QED
    BY <1>3, <2>1, <2>2 DEF Suits
<1>6. Shape(d)' /\ Busy(d)' \subseteq Busy(d)
  BY <1>1, <1>2, <1>3, AuthSame, ShapeKept
<1>7. \A l \in links' : l \in links \/ l[2] = o.uid
  BY <1>2
<1>8. \A x : Bare(x) /\ x # o.uid => Bare(x)'
  BY <1>2, <1>7 DEF Bare
<1>9. \A kind \in {"profile", "link", "reading"} : \A k \in At(d, kind)' :
        k \in Nat /\ k + 1 # 1 /\ k + 1 \in At(d, kind) /\ outbox'[d][k] = outbox[d][k + 1]
  BY <1>3 DEF Shifted, At, TypeOK
<1>10. ASSUME NEW k \in At(d, "link")'
       PROVE  /\ outbox'[d][k].uid \in accounts' /\ Suits(d, k)'
              /\ \A l \in links' : l[2] # outbox'[d][k].uid
  <2>0. PICK p : p = outbox[d][k + 1]
    OBVIOUS
  <2>1. /\ k \in Nat /\ outbox'[d][k] = p /\ p.uid \in accounts /\ Suits(d, k + 1)
        /\ \A l \in links : l[2] # p.uid
        /\ p.uid # o.uid
    BY <1>1, <1>4, <1>9, <2>0 DEF Means
  <2>2. CASE profiles[p.uid] # None /\ p.doctor \in DoctorsOf[profiles[p.uid]]
    BY <1>2, <1>7, <2>1, <2>2 DEF Suits
  <2>3. CASE \E j \in At(d, "profile") : /\ j < k + 1 /\ outbox[d][j].uid = p.uid
                                         /\ p.doctor \in DoctorsOf[outbox[d][j].form]
    <3>1. PICK j \in At(d, "profile") : /\ j < k + 1 /\ outbox[d][j].uid = p.uid
                                        /\ p.doctor \in DoctorsOf[outbox[d][j].form]
      BY <2>3
    <3>2. j # 1
      BY <1>2, <1>3, <3>1 DEF At
    <3>3. j - 1 \in At(d, "profile")' /\ outbox'[d][j - 1] = outbox[d][j]
      BY <1>3, <3>2
    <3>4. j - 1 < k
      BY <2>1, <3>1 DEF At, TypeOK
    <3>5. Suits(d, k)'
      BY <2>1, <3>1, <3>3, <3>4 DEF Suits
    <3> QED
      BY <1>2, <1>7, <2>1, <3>5
  <2> QED
    BY <2>0, <2>1, <2>2, <2>3 DEF Suits
<1>11. Means(d)'
  <2>1. Made(d)' = Made(d) /\ auth' = auth
    BY <1>2 DEF Made
  <2>2. \A k \in Made(d)' : Bare(EmailOf[auth[d][k].form])'
    BY <1>1, <1>4, <1>8, <2>1 DEF Means
  <2>3. \A x : Bare(x) => x # o.uid
    BY <1>5 DEF Bare
  <2>4. \A k \in At(d, "profile")' : Bare(outbox[d][k].uid)'
    BY <1>1, <1>8, <1>9, <2>3 DEF Means
  <2>5. \A k \in At(d, "reading")' :
          LET r == outbox'[d][k].reading
          IN r.uid \in accounts' /\ r.id <= clock' /\ r \notin stored'
    BY <1>1, <1>2, <1>9 DEF Means
  <2>6. user'[d] \in accounts' \cup {None}
    BY <1>1, <1>2 DEF Means
  <2> QED
    BY <1>10, <2>2, <2>4, <2>5, <2>6 DEF Means
<1>12. clock <= clock'
  BY <1>2, AppAssumption DEF TypeOK
<1>13. /\ \A x \in Email : profiles'[x] # None => x \in accounts'
       /\ \A l \in links' : l[2] \in accounts'
       /\ \A r \in stored' : r.id <= clock'
  BY <1>2, <1>4, <1>7 DEF RecordsInv
<1>14. \A x \in accounts \ Busy(d) : \A l \in links' : l[2] = x => l \in links
  BY <1>4, <1>7
<1>15. RecordsInv'
  BY <1>2, <1>6, <1>11, <1>12, <1>13, <1>14, RecordsStep
<1>16. Records!Assign(o.uid)
  BY <1>2, <1>4, <1>5 DEF Records!Assign
<1> QED
  BY <1>4, <1>15, <1>16 DEF Records!Next

LEMMA StoreReadingRecords ==
  ASSUME TypeOK, TypeOK', RecordsInv, NEW d \in Device, StoreReading(d)
  PROVE  RecordsInv' /\ Records!Next
<1>0. PICK r : r = Head(outbox[d]).reading
  OBVIOUS
<1>1. Shape(d) /\ Means(d)
  BY DEF RecordsInv
<1>2. /\ outbox[d] # <<>> /\ Head(outbox[d]).op = "reading"
      /\ outbox'[d] = Tail(outbox[d])
      /\ stored' = stored \cup {r}
      /\ UNCHANGED <<accounts, profiles, links, user, auth, clock>>
      /\ \A c \in Device \ {d} : outbox'[c] = outbox[c]
  BY <1>0 DEF StoreReading, Due, Sent, TypeOK
<1>3. /\ Shifted(d, 1)
      /\ \A kind : \A k \in At(d, kind) : k # 1 =>
           k > 1 /\ k - 1 \in At(d, kind)' /\ outbox'[d][k - 1] = outbox[d][k]
      /\ 1 \in At(d, "reading") /\ outbox[d][1].reading = r
  BY <1>0, <1>2, BoxSent
<1>4. /\ r.uid \in accounts /\ r.uid \in Email /\ r.id <= clock /\ r \notin stored
      /\ r.on = d
  BY <1>1, <1>3 DEF Means, Shape, TypeOK
<1>5. Shape(d)' /\ Busy(d)' \subseteq Busy(d)
  BY <1>1, <1>2, <1>3, AuthSame, ShapeKept
<1>6. \A x : Bare(x) => Bare(x)'
  BY <1>2 DEF Bare
<1>7. \A kind \in {"profile", "link", "reading"} : \A k \in At(d, kind)' :
        k \in Nat /\ k + 1 > 1 /\ k + 1 \in At(d, kind) /\ outbox'[d][k] = outbox[d][k + 1]
  BY <1>3 DEF Shifted, At, TypeOK
<1>8. \A k \in At(d, "profile") : k # 1
  BY <1>2, <1>3 DEF At
<1>9. ASSUME NEW k \in At(d, "link")'
      PROVE  /\ outbox'[d][k].uid \in accounts' /\ Suits(d, k)'
             /\ \A l \in links' : l[2] # outbox'[d][k].uid
  <2>0. PICK p : p = outbox[d][k + 1]
    OBVIOUS
  <2>1. /\ k \in Nat /\ outbox'[d][k] = p /\ p.uid \in accounts /\ Suits(d, k + 1)
        /\ \A l \in links : l[2] # p.uid
    BY <1>1, <1>7, <2>0 DEF Means
  <2>2. CASE profiles[p.uid] # None /\ p.doctor \in DoctorsOf[profiles[p.uid]]
    BY <1>2, <2>1, <2>2 DEF Suits
  <2>3. CASE \E j \in At(d, "profile") : /\ j < k + 1 /\ outbox[d][j].uid = p.uid
                                         /\ p.doctor \in DoctorsOf[outbox[d][j].form]
    <3>1. PICK j \in At(d, "profile") : /\ j < k + 1 /\ outbox[d][j].uid = p.uid
                                        /\ p.doctor \in DoctorsOf[outbox[d][j].form]
      BY <2>3
    <3>2. j - 1 \in At(d, "profile")' /\ outbox'[d][j - 1] = outbox[d][j]
      BY <1>3, <1>8
    <3>3. j - 1 < k
      BY <2>1, <3>1 DEF At, TypeOK
    <3>4. Suits(d, k)'
      BY <2>1, <3>1, <3>2, <3>3 DEF Suits
    <3> QED
      BY <1>2, <2>1, <3>4
  <2> QED
    BY <2>0, <2>1, <2>2, <2>3 DEF Suits
<1>10. ASSUME NEW k \in At(d, "reading")'
       PROVE  LET s == outbox'[d][k].reading
              IN s.uid \in accounts' /\ s.id <= clock' /\ s \notin stored'
  <2>0. PICK s : s = outbox[d][k + 1].reading
    OBVIOUS
  <2>1. k \in Nat /\ 1 < k + 1 /\ k + 1 \in At(d, "reading") /\ outbox'[d][k].reading = s
    BY <1>7, <2>0
  <2>2. s.uid \in accounts /\ s.id <= clock /\ s \notin stored
    BY <1>1, <2>0, <2>1 DEF Means
  <2>3. r.id < s.id
    BY <1>1, <1>3, <2>0, <2>1 DEF Shape
  <2>4. r.id \in Nat
    BY <1>2 DEF TypeOK, Reading
  <2>5. s # r
    BY <2>3, <2>4
  <2> QED
    BY <1>2, <2>1, <2>2, <2>5
<1>11. Means(d)'
  <2>1. Made(d)' = Made(d) /\ auth' = auth
    BY <1>2 DEF Made
  <2>2. \A k \in Made(d)' : Bare(EmailOf[auth[d][k].form])'
    BY <1>1, <1>6, <2>1 DEF Means
  <2>3. \A k \in At(d, "profile")' : Bare(outbox[d][k].uid)'
    BY <1>1, <1>6, <1>7 DEF Means
  <2>4. user'[d] \in accounts' \cup {None}
    BY <1>1, <1>2 DEF Means
  <2> QED
    BY <1>9, <1>10, <2>2, <2>3, <2>4 DEF Means
<1>12. clock <= clock'
  BY <1>2, AppAssumption DEF TypeOK
<1>13. /\ \A x \in Email : profiles'[x] # None => x \in accounts'
       /\ \A l \in links' : l[2] \in accounts'
       /\ \A s \in stored' : s.id <= clock'
  BY <1>2, <1>4 DEF RecordsInv
<1>14. \A s \in stored' : s \in stored \/ s.on = d
  BY <1>2, <1>4
<1>15. RecordsInv'
  BY <1>2, <1>5, <1>11, <1>12, <1>13, <1>14, RecordsStep
<1>16. Records!Store(r.uid, r) /\ r \in stored'
  BY <1>2, <1>4 DEF Records!Store
<1> QED
  BY <1>4, <1>15, <1>16 DEF Records!Next

-----------------------------------------------------------------------------
(* A step keeps the invariant, and is a step of the records or none.       *)
RecordsMove ==
  [Records!Next]_<<accounts, profiles, links, stored>>

LEMMA InitRecords == Init => RecordsInv
<1> SUFFICES ASSUME Init
             PROVE  RecordsInv
  OBVIOUS
<1>1. \A d \in Device : Len(auth[d]) = 0 /\ Len(outbox[d]) = 0
  BY EmptySeq DEF Init
<1>2. \A d \in Device : Made(d) = {} /\ \A kind : At(d, kind) = {}
  BY <1>1 DEF Made, At
<1>3. \A d \in Device : Busy(d) = {}
  BY <1>2 DEF Busy
<1>4. \A d \in Device : Shape(d)
  BY <1>1, <1>2 DEF Shape
<1>5. \A d \in Device : Means(d)
  BY <1>2 DEF Means, Init
<1> QED
  BY <1>3, <1>4, <1>5 DEF RecordsInv, Init

LEMMA NextRecords ==
  ASSUME AppInv, AppInv', RecordsInv, [Next]_vars
  PROVE  RecordsInv' /\ RecordsMove
<1>1. TypeOK /\ TypeOK'
  BY DEF AppInv
<1>2. CASE UNCHANGED vars
  <2>0. /\ UNCHANGED <<accounts, profiles, links, stored, user, auth, outbox, clock>>
        /\ clock <= clock'
    BY <1>1, <1>2, AppAssumption DEF vars, firebase, TypeOK
  <2>1. \A d \in Device : Shape(d)' /\ Means(d)' /\ Busy(d)' = Busy(d)
    BY <1>1, <2>0, OtherPhone DEF RecordsInv
  <2>2. RecordsInv'
    BY <2>0, <2>1 DEF RecordsInv
  <2> QED
    BY <2>0, <2>2 DEF RecordsMove
<1>3. ASSUME NEW d \in Device, Tap(d)
      PROVE  RecordsInv' /\ RecordsMove
  <2>1. RecordsMove
    BY <1>3 DEF Tap, TapLogin, TapSignup, Move, ToHistory, SaveReading, Logout,
       SaveCrashes, SendExport, Launch, End, firebase, RecordsMove
  <2>2. CASE \E e \in Email : TapLogin(d, e)
    BY <1>1, <2>1, <2>2, TapLoginRecords
  <2>3. CASE \E f \in Form : TapSignup(d, f)
    BY <1>1, <2>1, <2>3, TapSignupRecords
  <2>4. CASE Move(d) \/ Launch(d)
    BY <1>1, <2>1, <2>4, StillRecords
  <2>5. CASE ToHistory(d)
    BY <1>1, <2>1, <2>5, ToHistoryRecords
  <2>6. CASE SaveReading(d)
    BY <1>1, <2>1, <2>6, SaveReadingRecords
  <2>7. CASE Logout(d)
    BY <1>1, <2>1, <2>7, LogoutRecords
  <2>8. CASE SaveCrashes(d) \/ SendExport(d)
    BY <1>1, <2>1, <2>8, EndRecords DEF SaveCrashes, SendExport
  <2> QED
    BY <1>3, <2>1, <2>2, <2>3, <2>4, <2>5, <2>6, <2>7, <2>8 DEF Tap
<1>4. ASSUME NEW d \in Device, Answer(d)
      PROVE  RecordsInv' /\ RecordsMove
  <2> SUFFICES ASSUME NEW k \in 1..Len(auth[d]),
                      LoggedIn(d, k) \/ AuthFails(d, k) \/ CreateUser(d, k)
                        \/ SignedUp(d, k)
               PROVE  RecordsInv' /\ RecordsMove
    BY <1>4 DEF Answer
  <2>1. CASE LoggedIn(d, k)
    BY <1>1, <2>1, LoggedInRecords DEF RecordsMove, LoggedIn, firebase
  <2>2. CASE AuthFails(d, k)
    BY <1>1, <2>2, AuthFailsRecords DEF RecordsMove, AuthFails, firebase
  <2>3. CASE CreateUser(d, k)
    BY <1>1, <2>3, CreateUserRecords DEF RecordsMove
  <2>4. CASE SignedUp(d, k)
    BY <1>1, <2>4, SignedUpRecords DEF RecordsMove, SignedUp, firebase
  <2> QED
    BY <2>1, <2>2, <2>3, <2>4
<1>5. ASSUME NEW d \in Device, Serve(d)
      PROVE  RecordsInv' /\ RecordsMove
  <2>1. CASE CodeAnswered(d) \/ HistoryLoaded(d) \/ StaleAnswer(d)
    <3>1. UNCHANGED firebase
      BY <2>1 DEF CodeAnswered, HistoryLoaded, StaleAnswer
    <3> QED
      BY <1>1, <2>1, <3>1, AnswerRecords DEF RecordsMove, firebase
  <2>2. CASE StoreProfile(d)
    BY <1>1, <2>2, StoreProfileRecords DEF RecordsMove
  <2>3. CASE StoreLink(d)
    BY <1>1, <2>3, StoreLinkRecords DEF RecordsMove
  <2>4. CASE StoreReading(d)
    BY <1>1, <2>4, StoreReadingRecords DEF RecordsMove
  <2> QED
    BY <1>5, <2>1, <2>2, <2>3, <2>4 DEF Serve
<1>6. ASSUME NEW d \in Device, Kill(d)
      PROVE  RecordsInv' /\ RecordsMove
  <2>1. UNCHANGED firebase
    BY <1>6 DEF Kill, End
  <2> QED
    BY <1>1, <1>6, <2>1, EndRecords DEF Kill, RecordsMove, firebase
<1> QED
  BY <1>2, <1>3, <1>4, <1>5, <1>6 DEF Next

(* The phones together keep what PatientRecords promises of the Firebase   *)
(* data: each patient gets an account, one profile and one physician, in   *)
(* this order and the physician suiting the profile, and readings are only *)
(* added, to patients with an account, whatever is tapped twice, answered  *)
(* late or lost.                                                           *)
THEOREM RecordsAreKept == Spec => RecordsKept
<1>1. Init => Records!Init
  BY AppAssumption DEF Init, Records!Init
<1>2. Init => RecordsInv
  BY InitRecords
<1>3. AppInv /\ AppInv' /\ RecordsInv /\ [Next]_vars => RecordsInv' /\ RecordsMove
  BY NextRecords
<1> QED
  BY <1>1, <1>2, <1>3, AppInvariant, PTL DEF Spec, RecordsKept, Records!Spec, RecordsMove
=============================================================================
