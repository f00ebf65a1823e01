------------------------- MODULE WebAccountsProofs -------------------------
(***************************************************************************)
(* Theorems about WebAccounts, for every set of e-mails, passwords,        *)
(* browsers and requests, and every ValidateInterval and MaxDuration.      *)
(***************************************************************************)
EXTENDS WebAccounts, TLAPS

(* What a request at a step of a controller is there for, and that one yet *)
(* to be sent has nothing.                                                 *)
Steps ==
  \A r \in Request :
    /\ pc[r] = "insert" => Is(r, "register")
    /\ pc[r] = "save" => /\ who[r] # None
                         /\ Is(r, "change") \/ entity[r].password \in Password
    /\ pc[r] = "idle" => entity[r] = Untracked /\ ticket[r] = NoTicket

(* Whoever a cookie, a request, an answer or a row loaded names has an     *)
(* account.                                                                *)
Exists(e) == e # None => users[e].stamp # 0

(* A row a context tracks is an account's.                                 *)
Found(t) == t.email # None => Exists(t.email) /\ t.password \in Password

Known ==
  /\ \A b \in Browser : Exists(jar[b].email)
  /\ \A r \in Request : /\ Exists(cookie[r].email)
                        /\ Exists(who[r])
                        /\ Exists(ticket[r].email)
                        /\ Found(entity[r])

(* Stamps are given out once.                                              *)
Distinct ==
  /\ \A e \in Email : users[e].stamp <= stamps
  /\ \A x \in retired : 0 < x.stamp /\ x.stamp <= stamps
  /\ \A e, f \in Email :
       users[e].stamp = users[f].stamp /\ users[e].stamp # 0 => e = f
  /\ \A e \in Email, x \in retired : users[e].stamp # x.stamp

Timely ==
  /\ \A r \in Request :
       Running(r) => began[r] <= clock /\ clock <= began[r] + MaxDuration
  /\ \A b \in Browser : jar[b].issued <= clock
  /\ \A r \in Request : cookie[r].issued <= clock

(* What is still about of a stamp that was replaced: rows loaded and       *)
(* answers made by requests sent before that, and cookies those answers    *)
(* brought.                                                                *)
Loads == \A r \in Request, x \in retired :
           Running(r) /\ entity[r].stamp = x.stamp => began[r] <= x.at

Cookies ==
  \A x \in retired :
    /\ \A b \in Browser :
         jar[b].stamp = x.stamp => jar[b].issued <= x.at + MaxDuration
    /\ \A r \in Request :
         cookie[r].stamp = x.stamp => cookie[r].issued <= x.at + MaxDuration

WebInv == /\ TypeOK /\ Steps
          /\ Known /\ Distinct /\ Timely
          /\ Loads /\ SessionsWereGood /\ Cookies

-----------------------------------------------------------------------------
(* Forms, rows, tickets and cookies.                                       *)

(* What a form of each kind has in it.                                     *)
LEMMA FormFields ==
  ASSUME NEW f \in Post
  PROVE  /\ f.op \in {"login", "register"} => f.email \in Email
         /\ f.op \in {"login", "register", "change"} => f.password \in Password
         /\ f.op = "change" => f.new \in Password
BY DEF Post

LEMMA NoFormPost == NoForm \in Post
BY DEF NoForm, Post

LEMMA CookieFields ==
  ASSUME NEW c \in Cookie
  PROVE  /\ c.email \in Email \cup {None} /\ c.stamp \in Nat /\ c.issued \in Nat
         /\ c.stamp # 0 => c.email \in Email
         /\ c.email # None => c.stamp # 0
BY WebAssumption DEF Cookie, NoCookie

LEMMA TicketFields ==
  ASSUME NEW t \in Ticket
  PROVE  /\ t.email \in Email \cup {None} /\ t.stamp \in Nat
         /\ t.email # None => t.stamp # 0
BY WebAssumption DEF Ticket, NoTicket

LEMMA UserFields ==
  ASSUME NEW u \in UserRow
  PROVE  /\ u.stamp \in Nat
         /\ u.stamp # 0 => u.password \in Password
         /\ u.stamp = 0 <=> u = NoRow
         /\ u.password \in Password \cup {None}
BY DEF UserRow, NoRow

LEMMA TrackedFields ==
  ASSUME NEW t \in Tracked
  PROVE  /\ t.email \in Email \cup {None} /\ t.stamp \in Nat
         /\ t.password \in Password \cup {None}
BY DEF Tracked

LEMMA RetiredFields ==
  ASSUME NEW x \in Retirement
  PROVE  x.stamp \in Nat /\ x.at \in Nat
BY DEF Retirement

LEMMA NewTicket ==
  ASSUME NEW e \in Email, NEW s \in Nat, s # 0
  PROVE  [email |-> e, stamp |-> s] \in Ticket
BY DEF Ticket

LEMMA NewUser ==
  ASSUME NEW p \in Password, NEW s \in Nat, s # 0
  PROVE  [password |-> p, stamp |-> s] \in UserRow
BY DEF UserRow

LEMMA TicketCookie ==
  ASSUME NEW t \in Ticket, t.email # None, NEW n \in Nat
  PROVE  [email |-> t.email, stamp |-> t.stamp, issued |-> n] \in Cookie
BY TicketFields DEF Cookie

LEMMA Nothing ==
  /\ NoRow \in UserRow /\ NoTicket \in Ticket /\ NoCookie \in Cookie
  /\ Untracked \in Tracked
BY DEF UserRow, Ticket, Cookie, Tracked, NoRow, NoTicket, NoCookie, Untracked

(* A row just read is of the e-mail asked for, and has its stamp.          *)
LEMMA RowFields ==
  ASSUME TypeOK, NEW e \in Email
  PROVE  /\ Row(e) \in Tracked
         /\ Row(e).email = e /\ Row(e).stamp = users[e].stamp
         /\ e # None /\ Exists(e) => Found(Row(e))
<1>1. users[e] \in UserRow
  BY DEF TypeOK
<1> QED
  BY <1>1, UserFields DEF Row, Tracked, Found, Exists

LEMMA LoadedFields ==
  ASSUME TypeOK, NEW r \in Request, NEW e \in Email
  PROVE  /\ Loaded(r, e) \in Tracked /\ Loaded(r, e).email = e
         /\ Loaded(r, e).stamp \in {entity[r].stamp, users[e].stamp}
<1>1. entity[r] \in Tracked
  BY DEF TypeOK
<1> QED
  BY <1>1, RowFields DEF Loaded

-----------------------------------------------------------------------------
(* Each action keeps the invariant.                                        *)

LEMMA InitInv == Init => WebInv
<1> SUFFICES ASSUME Init PROVE WebInv
  OBVIOUS
<1>1. TypeOK
  BY Nothing, NoFormPost DEF Init, TypeOK
<1>2. Steps /\ Timely /\ Loads /\ SessionsWereGood /\ Cookies
  BY DEF Init, Steps, Timely, Loads, SessionsWereGood, Cookies, Running, Handling,
         NoCookie
<1>3. Known /\ Distinct
  BY DEF Init, Known, Found, Exists, Distinct, NoCookie, NoTicket, NoRow, Untracked
<1> QED
  BY <1>1, <1>2, <1>3 DEF WebInv

(* A step of a request that goes to l and only decides who the request is  *)
(* from (w), what it has loaded (t) and what it will answer (b and k).     *)
Works(r, l, w, t, b, k) ==
  /\ UNCHANGED <<accounts, jar, clock, input>>
  /\ Running(r) /\ l \in Handling \cup {"respond"} /\ Goto(r, l)
  /\ l = "insert" => Is(r, "register")
  /\ l = "save" => w # None /\ (Is(r, "change") \/ t.password \in Password)
  /\ w \in Email \cup {None} /\ who' = [who EXCEPT ![r] = w] /\ Exists(w)
  /\ t \in Tracked /\ entity' = [entity EXCEPT ![r] = t]
  /\ Found(t)
  /\ \A x \in retired : t.stamp = x.stamp => began[r] <= x.at
  /\ b \in BOOLEAN /\ sets' = [sets EXCEPT ![r] = b]
  /\ k \in Ticket /\ ticket' = [ticket EXCEPT ![r] = k] /\ Exists(k.email)
  /\ \A x \in retired : k.stamp = x.stamp => began[r] <= x.at

LEMMA WorkInv ==
  ASSUME WebInv, NEW r \in Request, NEW l, NEW w, NEW t, NEW b, NEW k,
         Works(r, l, w, t, b, k)
  PROVE  WebInv'
<1> USE DEF Works
<1>1. TypeOK
  BY DEF WebInv
<1>2. UNCHANGED <<users, stamps, retired, jar, clock, from, form, cookie, began>>
  BY DEF accounts, input
<1>3. TypeOK'
  BY <1>1, <1>2 DEF TypeOK, Goto
<1>4. pc \in [Request -> {"idle", "respond"} \cup Handling]
  BY <1>1 DEF TypeOK
<1>5. \A q \in Request : Running(q)' <=> Running(q)
  BY <1>4 DEF Running, Goto, Handling
<1>6. Steps'
  BY <1>1, <1>2, <1>4 DEF WebInv, Steps, Goto, Is, TypeOK, Handling
<1>7. Known'
  BY <1>1, <1>2 DEF WebInv, Known, Found, Exists, TypeOK
<1>8. Distinct'
  BY <1>2 DEF WebInv, Distinct
<1>9. Timely'
  BY <1>2, <1>5 DEF WebInv, Timely
<1>10. Loads'
  <2>1. entity \in [Request -> Tracked]
    BY <1>1 DEF TypeOK
  <2> QED
    BY <1>2, <1>5, <2>1 DEF WebInv, Loads
<1>11. SessionsWereGood'
  <2>1. ticket \in [Request -> Ticket]
    BY <1>1 DEF TypeOK
  <2> SUFFICES ASSUME NEW q \in Request, NEW x \in retired, Running(q),
                      ticket'[q].stamp = x.stamp
               PROVE  began[q] <= x.at
    BY <1>2, <1>5 DEF SessionsWereGood
  <2>2. CASE q = r
    BY <2>1, <2>2
  <2>3. CASE q # r
    BY <2>1, <2>3 DEF WebInv, SessionsWereGood
  <2> QED
    BY <2>2, <2>3
<1>12. Cookies'
  BY <1>2 DEF WebInv, Cookies
<1> QED
  BY <1>3, <1>6, <1>7, <1>8, <1>9, <1>10, <1>11, <1>12 DEF WebInv

(* The parts of the state a step may leave as they are.                    *)
LEMMA AsIs ==
  ASSUME WebInv, NEW r \in Request
  PROVE  /\ who = [who EXCEPT ![r] = who[r]] /\ who[r] \in Email \cup {None}
         /\ entity = [entity EXCEPT ![r] = entity[r]] /\ entity[r] \in Tracked
         /\ sets = [sets EXCEPT ![r] = sets[r]] /\ sets[r] \in BOOLEAN
         /\ ticket = [ticket EXCEPT ![r] = ticket[r]] /\ ticket[r] \in Ticket
         /\ Exists(who[r]) /\ Exists(ticket[r].email)
         /\ Found(entity[r])
         /\ cookie[r] \in Cookie /\ form[r] \in Post
<1>1. TypeOK
  BY DEF WebInv
<1> QED
  BY <1>1 DEF WebInv, Known, TypeOK

LEMMA OfRequest ==
  ASSUME WebInv, NEW r \in Request, Running(r)
  PROVE  \A x \in retired :
           /\ entity[r].stamp = x.stamp => began[r] <= x.at
           /\ ticket[r].stamp = x.stamp => began[r] <= x.at
BY DEF WebInv, Loads, SessionsWereGood

(* What is in the table has not been replaced.                             *)
LEMMA InTable ==
  ASSUME WebInv, NEW e \in Email
  PROVE  /\ \A x \in retired : users[e].stamp # x.stamp
         /\ users[e].stamp \in Nat /\ stamps \in Nat /\ users[e] \in UserRow
<1>1. users[e] \in UserRow /\ stamps \in Nat
  BY DEF WebInv, TypeOK
<1> QED
  BY <1>1, UserFields DEF WebInv, Distinct

LEMMA AtWork ==
  ASSUME NEW r \in Request, pc[r] \in Handling
  PROVE  Running(r)
BY DEF Running

LEMMA AnonymousInv ==
  ASSUME WebInv, NEW r \in Request, Anonymous(r)
  PROVE  WebInv'
<1>1. Running(r)
  BY AtWork DEF Anonymous, Handling
<1>2. /\ UNCHANGED <<accounts, jar, clock, input, who, entity, sets, ticket>>
      /\ Goto(r, "handle") /\ "handle" \in Handling
  BY DEF Anonymous, Handling
<1>3. Works(r, "handle", who[r], entity[r], sets[r], ticket[r])
  BY <1>1, <1>2, AsIs, OfRequest DEF Works
<1> QED
  BY <1>3, WorkInv

LEMMA BelievedInv ==
  ASSUME WebInv, NEW r \in Request, Believed(r)
  PROVE  WebInv'
<1>1. Running(r)
  BY AtWork DEF Believed, Handling
<1>2. /\ UNCHANGED <<accounts, jar, clock, input, entity, sets, ticket>>
      /\ Goto(r, "handle") /\ "handle" \in Handling
      /\ who' = [who EXCEPT ![r] = cookie[r].email]
  BY DEF Believed, Handling
<1>3. cookie[r].email \in Email \cup {None} /\ Exists(cookie[r].email)
  BY AsIs, CookieFields DEF WebInv, Known
<1>4. Works(r, "handle", cookie[r].email, entity[r], sets[r], ticket[r])
  BY <1>1, <1>2, <1>3, AsIs, OfRequest DEF Works
<1> QED
  BY <1>4, WorkInv

(* The row of the account a cookie names.                                  *)
LEMMA CookieRow ==
  ASSUME WebInv, NEW r \in Request, HasCookie(r)
  PROVE  LET e == cookie[r].email
         IN /\ e \in Email /\ e # None /\ Exists(e)
            /\ Row(e) \in Tracked /\ Found(Row(e))
            /\ \A x \in retired : Row(e).stamp # x.stamp
            /\ cookie[r].stamp \in Nat /\ cookie[r].stamp # 0
<1>1. /\ cookie[r].email \in Email /\ cookie[r].email # None
      /\ cookie[r].stamp \in Nat /\ cookie[r].stamp # 0
  BY AsIs, CookieFields DEF HasCookie
<1>2. Row(cookie[r].email) \in Tracked
      /\ Row(cookie[r].email).stamp = users[cookie[r].email].stamp
      /\ Found(Row(cookie[r].email)) /\ Exists(cookie[r].email)
  BY <1>1, RowFields DEF WebInv, Known
<1> QED
  BY <1>1, <1>2, InTable DEF WebInv, Known

LEMMA ValidatedInv ==
  ASSUME WebInv, NEW r \in Request, Validated(r)
  PROVE  WebInv'
<1> DEFINE e == cookie[r].email
           row == Row(e)
           k == [email |-> e, stamp |-> cookie[r].stamp]
<1>1. Running(r) /\ HasCookie(r) /\ Stamped(r)
  BY AtWork DEF Validated, Handling
<1>2. /\ UNCHANGED <<accounts, jar, clock, input>>
      /\ Goto(r, "handle") /\ "handle" \in Handling
      /\ who' = [who EXCEPT ![r] = e]
      /\ entity' = [entity EXCEPT ![r] = row]
      /\ sets' = [sets EXCEPT ![r] = TRUE]
      /\ ticket' = [ticket EXCEPT ![r] = k]
  BY DEF Validated, Handling
<1>3. /\ e \in Email /\ Exists(e) /\ row \in Tracked /\ Found(row)
      /\ \A x \in retired : row.stamp # x.stamp
  BY <1>1, CookieRow
<1>4. k \in Ticket /\ k.email = e
  BY <1>1, CookieRow, NewTicket
<1>5. \A x \in retired : k.stamp # x.stamp
  BY <1>1, <1>3, InTable DEF Stamped
<1> HIDE DEF k, row
<1>6. Works(r, "handle", e, row, TRUE, k)
  BY <1>1, <1>2, <1>3, <1>4, <1>5 DEF Works
<1> QED
  BY <1>6, WorkInv

LEMMA RejectedInv ==
  ASSUME WebInv, NEW r \in Request, Rejected(r)
  PROVE  WebInv'
<1> DEFINE e == cookie[r].email
           row == Row(e)
<1>1. Running(r) /\ HasCookie(r)
  BY AtWork DEF Rejected, Handling
<1>2. /\ UNCHANGED <<accounts, jar, clock, input, who, ticket>>
      /\ Goto(r, "handle") /\ "handle" \in Handling
      /\ entity' = [entity EXCEPT ![r] = row]
      /\ sets' = [sets EXCEPT ![r] = TRUE]
  BY DEF Rejected, Handling
<1>3. /\ row \in Tracked /\ Found(row)
      /\ \A x \in retired : row.stamp # x.stamp
  BY <1>1, CookieRow
<1> HIDE DEF row
<1>4. Works(r, "handle", who[r], row, TRUE, ticket[r])
  BY <1>1, <1>2, <1>3, AsIs, OfRequest DEF Works
<1> QED
  BY <1>4, WorkInv

LEMMA ShowInv ==
  ASSUME WebInv, NEW r \in Request, Show(r)
  PROVE  WebInv'
<1>1. Running(r)
  BY AtWork DEF Show
<1>2. /\ UNCHANGED <<accounts, jar, clock, input, who, entity, sets, ticket>>
      /\ Goto(r, "respond")
  BY DEF Show
<1>3. Works(r, "respond", who[r], entity[r], sets[r], ticket[r])
  BY <1>1, <1>2, AsIs, OfRequest DEF Works
<1> QED
  BY <1>3, WorkInv

(* A row a query returns was good when the request was sent or later.      *)
LEMMA LoadedGood ==
  ASSUME WebInv, NEW r \in Request, Running(r), NEW e \in Email
  PROVE  /\ Loaded(r, e) \in Tracked /\ Loaded(r, e).email = e
         /\ \A x \in retired : Loaded(r, e).stamp = x.stamp => began[r] <= x.at
         /\ Exists(e) => Found(Loaded(r, e))
<1>1. /\ Loaded(r, e) \in Tracked /\ Loaded(r, e).email = e
      /\ Loaded(r, e).stamp \in {entity[r].stamp, users[e].stamp}
  BY LoadedFields DEF WebInv
<1>2. Exists(e) => Found(Loaded(r, e))
  BY AsIs, RowFields, WebAssumption DEF WebInv, Loaded
<1> QED
  BY <1>1, <1>2, OfRequest, InTable

(* Whoever a row that was found belongs to has an account.                 *)
LEMMA LoadedExists ==
  ASSUME WebInv, NEW r \in Request, NEW e \in Email, Loaded(r, e).stamp # 0
  PROVE  Exists(e)
<1>1. Row(e).stamp = users[e].stamp
  BY RowFields DEF WebInv
<1> QED
  BY <1>1, AsIs DEF Loaded, Found, Exists

LEMMA LoginInv ==
  ASSUME WebInv, NEW r \in Request, Login(r)
  PROVE  WebInv'
<1> DEFINE e == form[r].email
           row == Loaded(r, e)
           k == [email |-> row.email, stamp |-> row.stamp]
<1>1. Running(r) /\ Is(r, "login") /\ row.stamp # 0
  BY AtWork DEF Login, Handling
<1>2. /\ UNCHANGED <<accounts, jar, clock, input, who, entity>>
      /\ Goto(r, "respond")
      /\ sets' = [sets EXCEPT ![r] = TRUE]
      /\ ticket' = (IF ticket[r] # NoTicket THEN ticket ELSE [ticket EXCEPT ![r] = k])
  BY DEF Login, SignIn
<1>3. e \in Email
  BY <1>1, AsIs, FormFields DEF Is
<1>4. /\ row \in Tracked /\ row.email = e
      /\ \A x \in retired : row.stamp = x.stamp => began[r] <= x.at
  BY <1>1, <1>3, LoadedGood
<1>5. row.stamp \in Nat
  BY <1>4, TrackedFields
<1>6. k \in Ticket /\ k.email = e /\ k.stamp = row.stamp
  BY <1>1, <1>3, <1>4, <1>5, NewTicket
<1>7. Exists(e)
  BY <1>1, <1>3, LoadedExists
<1> HIDE DEF k, row
<1>8. CASE ticket[r] = NoTicket
  <2>1. Works(r, "respond", who[r], entity[r], TRUE, k)
    BY <1>1, <1>2, <1>4, <1>6, <1>7, <1>8, AsIs, OfRequest DEF Works
  <2> QED
    BY <2>1, WorkInv
<1>9. CASE ticket[r] # NoTicket
  <2>1. Works(r, "respond", who[r], entity[r], TRUE, ticket[r])
    BY <1>1, <1>2, <1>9, AsIs, OfRequest DEF Works
  <2> QED
    BY <2>1, WorkInv
<1> QED
  BY <1>8, <1>9

LEMMA RegisterInv ==
  ASSUME WebInv, NEW r \in Request, Register(r)
  PROVE  WebInv'
<1>1. Running(r) /\ Is(r, "register")
  BY AtWork DEF Register, Handling
<1>2. /\ UNCHANGED <<accounts, jar, clock, input, who, entity, sets, ticket>>
      /\ Goto(r, "insert") /\ "insert" \in Handling
  BY DEF Register, Handling
<1>3. Works(r, "insert", who[r], entity[r], sets[r], ticket[r])
  BY <1>1, <1>2, AsIs, OfRequest DEF Works
<1> QED
  BY <1>3, WorkInv

(* The row of whoever a request is from.                                   *)
LEMMA OwnRow ==
  ASSUME WebInv, NEW r \in Request, Running(r), who[r] # None
  PROVE  /\ Loaded(r, who[r]) \in Tracked /\ Found(Loaded(r, who[r]))
         /\ Loaded(r, who[r]).password \in Password
         /\ \A x \in retired :
              Loaded(r, who[r]).stamp = x.stamp => began[r] <= x.at
<1>1. who[r] \in Email /\ Exists(who[r])
  BY AsIs
<1> QED
  BY <1>1, LoadedGood DEF Found

LEMMA ChangeInv ==
  ASSUME WebInv, NEW r \in Request, Change(r) \/ Settings(r)
  PROVE  WebInv'
<1> DEFINE row == Loaded(r, who[r])
<1>1. Running(r) /\ who[r] # None
  BY AtWork DEF Change, Settings, Handling
<1>2. /\ UNCHANGED <<accounts, jar, clock, input, who, sets, ticket>>
      /\ Goto(r, "save") /\ "save" \in Handling
      /\ entity' = [entity EXCEPT ![r] = row]
  BY DEF Change, Settings, Handling
<1>3. /\ row \in Tracked /\ Found(row) /\ row.password \in Password
      /\ \A x \in retired : row.stamp = x.stamp => began[r] <= x.at
  BY <1>1, OwnRow
<1> HIDE DEF row
<1>4. Works(r, "save", who[r], row, sets[r], ticket[r])
  BY <1>1, <1>2, <1>3, AsIs, OfRequest DEF Works
<1> QED
  BY <1>4, WorkInv

LEMMA LogOffInv ==
  ASSUME WebInv, NEW r \in Request, LogOff(r)
  PROVE  WebInv'
<1> DEFINE k == NoTicket
<1>1. Running(r)
  BY AtWork DEF LogOff, Handling
<1>2. /\ UNCHANGED <<accounts, jar, clock, input, who, entity>>
      /\ Goto(r, "respond")
      /\ sets' = [sets EXCEPT ![r] = TRUE]
      /\ ticket' = [ticket EXCEPT ![r] = k]
  BY DEF LogOff
<1>3. k \in Ticket /\ Exists(k.email)
  BY Nothing DEF NoTicket, Exists
<1>4. \A x \in retired : k.stamp # x.stamp
  BY DEF WebInv, Distinct, NoTicket
<1> HIDE DEF k
<1>5. Works(r, "respond", who[r], entity[r], TRUE, k)
  BY <1>1, <1>2, <1>3, <1>4, AsIs, OfRequest DEF Works
<1> QED
  BY <1>5, WorkInv

-----------------------------------------------------------------------------
(* Steps that write an account.                                            *)

(* A new stamp is nobody else's: it suits whatever kept the old invariant. *)
LEMMA WriteInv ==
  ASSUME WebInv, NEW r \in Request, pc[r] \in {"insert", "save"},
         NEW e \in Email, NEW p \in Password,
         users' = [users EXCEPT ![e] = [password |-> p, stamp |-> stamps + 1]],
         stamps' = stamps + 1,
         UNCHANGED <<jar, clock, input, who, entity>>,
         SignIn(r, e, stamps + 1), Goto(r, "respond"),
         \/ UNCHANGED retired
         \/ /\ users[e].stamp # 0
            /\ retired' = retired \cup {[stamp |-> users[e].stamp, at |-> clock]}
  PROVE  WebInv'
<1> DEFINE s == stamps + 1
           u == [password |-> p, stamp |-> s]
           k == [email |-> e, stamp |-> s]
           y == [stamp |-> users[e].stamp, at |-> clock]
<1>1. TypeOK
  BY DEF WebInv
<1>2. UNCHANGED <<jar, clock, from, form, cookie, began, who, entity>>
  BY DEF input
<1>3. s \in Nat /\ s # 0 /\ s > stamps /\ stamps \in Nat /\ clock \in Nat
  BY <1>1 DEF TypeOK
<1>4. users[e].stamp \in Nat
  BY InTable
<1>5. users' = [users EXCEPT ![e] = u] /\ u \in UserRow /\ u.stamp = s
  BY <1>3, NewUser
<1>6. /\ ticket' \in {ticket, [ticket EXCEPT ![r] = k]} /\ k \in Ticket
      /\ k.stamp = s /\ k.email = e
      /\ sets' = [sets EXCEPT ![r] = TRUE]
  BY <1>3, NewTicket DEF SignIn
<1>7. y \in Retirement /\ y.stamp = users[e].stamp /\ y.at = clock
  BY <1>3, <1>4 DEF Retirement
<1>8. retired' \subseteq Retirement
  BY <1>1, <1>7 DEF TypeOK
<1>9. TypeOK'
  BY <1>1, <1>2, <1>3, <1>5, <1>6, <1>8 DEF TypeOK, Goto
<1>10. users \in [Email -> UserRow] /\ ticket \in [Request -> Ticket]
       /\ pc \in [Request -> {"idle", "respond"} \cup Handling]
  BY <1>1 DEF TypeOK
<1>11. \A q \in Request : Running(q)' <=> Running(q)
  BY <1>10 DEF Running, Goto, Handling
<1>12. \A x \in retired' : x \in retired \/ (x = y /\ users[e].stamp # 0)
  OBVIOUS
<1>13. Steps'
  <2>1. /\ pc'[r] = "respond"
        /\ \A q \in Request \ {r} : pc'[q] = pc[q] /\ ticket'[q] = ticket[q]
    BY <1>6, <1>10 DEF Goto
  <2> QED
    BY <1>2, <2>1 DEF WebInv, Steps, Is
<1>14. \A f \in Email \cup {None} : Exists(f) => Exists(f)'
  BY <1>3, <1>5, <1>10 DEF Exists
<1>15. Known'
  <2>1. Exists(e)'
    BY <1>3, <1>5, <1>10 DEF Exists
  <2>2. /\ \A b \in Browser : jar[b].email \in Email \cup {None}
        /\ \A q \in Request : /\ cookie[q].email \in Email \cup {None}
                              /\ who[q] \in Email \cup {None}
                              /\ ticket[q].email \in Email \cup {None}
                              /\ entity[q].email \in Email \cup {None}
    BY <1>1, CookieFields, TicketFields, TrackedFields DEF TypeOK
  <2>3. ASSUME NEW b \in Browser
        PROVE  Exists(jar[b].email)'
    BY <1>2, <1>14, <2>2, <2>3 DEF WebInv, Known, Found, Exists
  <2>4. ASSUME NEW q \in Request
        PROVE  /\ Exists(cookie[q].email)' /\ Exists(who[q])'
               /\ Found(entity[q])'
    BY <1>2, <1>14, <2>2 DEF WebInv, Known, Found, Exists
  <2>5. ASSUME NEW q \in Request
        PROVE  Exists(ticket[q].email)'
    BY <1>6, <1>10, <1>14, <2>1, <2>2 DEF WebInv, Known, Found, Exists
  <2> QED
    BY <2>3, <2>4, <2>5 DEF Known
<1>16. Distinct'
  <2>1. \A f \in Email : users[f].stamp \in Nat
    BY InTable
  <2>2. \A f \in Email : users'[f].stamp = IF f = e THEN s ELSE users[f].stamp
    BY <1>5, <1>10
  <2>3. \A f \in Email : users'[f].stamp <= stamps'
    BY <1>3, <2>1, <2>2 DEF WebInv, Distinct
  <2>4. \A x \in retired : x.stamp \in Nat
    BY <1>1, RetiredFields DEF TypeOK
  <2>5. \A x \in retired' : 0 < x.stamp /\ x.stamp <= stamps
    BY <1>4, <1>7, <1>12 DEF WebInv, Distinct
  <2>6. \A x \in retired' : x.stamp \in Nat
    BY <1>8, RetiredFields
  <2>7. \A x \in retired' : x.stamp <= stamps'
    BY <1>3, <2>5, <2>6
  <2>8. \A f, g \in Email :
          users'[f].stamp = users'[g].stamp /\ users'[f].stamp # 0 => f = g
    BY <1>3, <2>1, <2>2 DEF WebInv, Distinct
  <2>9. \A f \in Email, x \in retired' : users'[f].stamp # x.stamp
    <3> SUFFICES ASSUME NEW f \in Email, NEW x \in retired'
                 PROVE  users'[f].stamp # x.stamp
      OBVIOUS
    <3>1. CASE f = e
      BY <1>3, <2>2, <2>5, <2>6, <3>1
    <3>2. CASE f # e
      BY <1>7, <1>12, <2>2, <3>2 DEF WebInv, Distinct
    <3> QED
      BY <3>1, <3>2
  <2> QED
    BY <2>3, <2>5, <2>7, <2>8, <2>9 DEF Distinct
<1>17. Timely'
  BY <1>2, <1>11 DEF WebInv, Timely
<1>18. \A q \in Request : Running(q) => began[q] <= clock
  BY DEF WebInv, Timely
<1>19. Loads'
  BY <1>2, <1>7, <1>11, <1>12, <1>18 DEF WebInv, Loads
<1>20. SessionsWereGood'
  <2> SUFFICES ASSUME NEW q \in Request, NEW x \in retired', Running(q),
                      ticket'[q].stamp = x.stamp
               PROVE  began[q] <= x.at
    BY <1>2, <1>11 DEF SessionsWereGood
  <2>1. x.stamp \in Nat /\ x.stamp <= stamps
    BY <1>4, <1>7, <1>8, <1>12, RetiredFields DEF WebInv, Distinct
  <2>2. ticket'[q] = ticket[q] \/ ticket'[q] = k
    BY <1>6, <1>10
  <2>3. ticket[q].stamp = x.stamp
    BY <1>3, <1>6, <2>1, <2>2
  <2>4. CASE x \in retired
    BY <2>3, <2>4 DEF WebInv, SessionsWereGood
  <2> QED
    BY <1>7, <1>12, <1>18, <2>4
<1>21. Cookies'
  <2>1. MaxDuration \in Nat
    BY WebAssumption
  <2>2. /\ \A b \in Browser : jar[b].issued \in Nat /\ jar[b].issued <= clock
        /\ \A q \in Request : cookie[q].issued \in Nat /\ cookie[q].issued <= clock
    BY <1>1, CookieFields DEF TypeOK, WebInv, Timely
  <2>3. \A x \in retired' : x \in retired \/ x.at = clock
    BY <1>7, <1>12
  <2> QED
    BY <1>2, <1>3, <2>1, <2>2, <2>3 DEF WebInv, Cookies
<1> QED
  BY <1>9, <1>13, <1>15, <1>16, <1>17, <1>19, <1>20, <1>21 DEF WebInv

LEMMA InsertInv ==
  ASSUME WebInv, NEW r \in Request, Insert(r)
  PROVE  WebInv'
<1>1. pc[r] = "insert" /\ Is(r, "register")
  BY DEF Insert, WebInv, Steps
<1>2. form[r].email \in Email /\ form[r].password \in Password
  BY <1>1, AsIs, FormFields DEF Is
<1> QED
  BY <1>1, <1>2, WriteInv DEF Insert

LEMMA SaveInv ==
  ASSUME WebInv, NEW r \in Request, Save(r)
  PROVE  WebInv'
<1> DEFINE p == IF Is(r, "change") THEN form[r].new ELSE entity[r].password
<1>1. /\ pc[r] = "save" /\ who[r] # None
      /\ Is(r, "change") \/ entity[r].password \in Password
  BY DEF Save, WebInv, Steps
<1>2. who[r] \in Email /\ users[who[r]].stamp # 0
  BY <1>1, AsIs DEF Exists
<1>3. p \in Password
  BY <1>1, AsIs, FormFields DEF Is
<1> QED
  BY <1>1, <1>2, <1>3, WriteInv DEF Save

-----------------------------------------------------------------------------
(* Requests and cookies that come and go.                                  *)

LEMMA SendInv ==
  ASSUME WebInv, NEW r \in Request, Send(r)
  PROVE  WebInv'
<1>1. PICK f \in Form, b \in Browser :
        /\ form' = [form EXCEPT ![r] = f]
        /\ from' = [from EXCEPT ![r] = b]
        /\ cookie' = [cookie EXCEPT ![r] = jar[b]]
  BY DEF Send
<1>2. /\ UNCHANGED <<users, stamps, retired, jar, clock, who, entity, sets, ticket>>
      /\ pc[r] = "idle" /\ pc' = [pc EXCEPT ![r] = "authenticate"]
      /\ began' = [began EXCEPT ![r] = clock]
  BY DEF Send, Goto, accounts
<1>3. TypeOK /\ clock \in Nat /\ MaxDuration \in Nat
  BY WebAssumption DEF WebInv, TypeOK
<1>4. /\ jar \in [Browser -> Cookie] /\ cookie \in [Request -> Cookie]
      /\ pc \in [Request -> {"idle", "respond"} \cup Handling]
      /\ began \in [Request -> Nat] /\ f \in Post /\ "authenticate" \in Handling
  BY <1>3, WebAssumption DEF TypeOK, Handling
<1>5. TypeOK'
  BY <1>1, <1>2, <1>3, <1>4 DEF TypeOK
<1>6. Steps'
  BY <1>1, <1>2, <1>4, <1>3 DEF WebInv, Steps, Is, TypeOK
<1>7. Known'
  BY <1>1, <1>2, <1>4 DEF WebInv, Known, Found, Exists
<1>8. Distinct'
  BY <1>2 DEF WebInv, Distinct
<1>9. \A q \in Request : q # r => (Running(q)' <=> Running(q))
  BY <1>2, <1>4 DEF Running
<1>10. Timely'
  BY <1>1, <1>2, <1>3, <1>4, <1>9 DEF WebInv, Timely
<1>11. entity[r].stamp = 0 /\ ticket[r].stamp = 0
       /\ \A x \in retired : x.stamp # 0
  <2>1. entity[r] = Untracked /\ ticket[r] = NoTicket
    BY <1>2 DEF WebInv, Steps
  <2>2. \A x \in retired : x.stamp # 0
    BY DEF WebInv, Distinct
  <2> QED
    BY <2>1, <2>2 DEF Untracked, NoTicket
<1>12. \A q \in Request : q # r => began'[q] = began[q]
  BY <1>2, <1>4
<1>13. Loads' /\ SessionsWereGood'
  BY <1>2, <1>9, <1>11, <1>12 DEF WebInv, Loads, SessionsWereGood
<1>14. Cookies'
  BY <1>1, <1>2, <1>4 DEF WebInv, Cookies
<1> QED
  BY <1>5, <1>6, <1>7, <1>8, <1>10, <1>13, <1>14 DEF WebInv

(* A request ends; the cookies its browser then has are good enough.       *)
LEMMA EndInv ==
  ASSUME WebInv, NEW r \in Request, End(r),
         jar' \in [Browser -> Cookie],
         \A b \in Browser :
           /\ Exists(jar'[b].email)
           /\ jar'[b].issued <= clock
           /\ \A x \in retired :
                jar'[b].stamp = x.stamp => jar'[b].issued <= x.at + MaxDuration
  PROVE  WebInv'
<1>1. TypeOK /\ clock \in Nat
  BY DEF WebInv, TypeOK
<1>2. /\ UNCHANGED <<users, stamps, retired, clock>>
      /\ pc' = [pc EXCEPT ![r] = "idle"]
      /\ from' = [from EXCEPT ![r] = None]
      /\ form' = [form EXCEPT ![r] = NoForm]
      /\ cookie' = [cookie EXCEPT ![r] = NoCookie]
      /\ began' = [began EXCEPT ![r] = 0]
      /\ who' = [who EXCEPT ![r] = None]
      /\ entity' = [entity EXCEPT ![r] = Untracked]
      /\ sets' = [sets EXCEPT ![r] = FALSE]
      /\ ticket' = [ticket EXCEPT ![r] = NoTicket]
  BY DEF End, Goto, accounts
<1>3. TypeOK'
  BY <1>1, <1>2, Nothing, NoFormPost DEF TypeOK
<1>4. /\ \A q \in Request \ {r} :
           /\ pc'[q] = pc[q] /\ form'[q] = form[q] /\ cookie'[q] = cookie[q]
           /\ began'[q] = began[q] /\ who'[q] = who[q] /\ entity'[q] = entity[q]
           /\ ticket'[q] = ticket[q]
      /\ pc'[r] = "idle" /\ cookie'[r] = NoCookie /\ who'[r] = None
      /\ entity'[r] = Untracked /\ ticket'[r] = NoTicket
  BY <1>1, <1>2 DEF TypeOK
<1>5. Steps'
  BY <1>4 DEF WebInv, Steps, Is
<1>6. Known'
  BY <1>2, <1>4 DEF WebInv, Known, Found, Exists, NoCookie, NoTicket, Untracked
<1>7. Distinct'
  BY <1>2 DEF WebInv, Distinct
<1>8. ~Running(r)' /\ \A q \in Request \ {r} : Running(q)' <=> Running(q)
  BY <1>4 DEF Running, Handling
<1>9. Timely'
  BY <1>1, <1>2, <1>4, <1>8 DEF WebInv, Timely, NoCookie
<1>10. Loads' /\ SessionsWereGood'
  BY <1>2, <1>4, <1>8 DEF WebInv, Loads, SessionsWereGood
<1>11. Cookies'
  <2>1. \A x \in retired : x.stamp # 0
    BY DEF WebInv, Distinct
  <2> QED
    BY <1>2, <1>4, <2>1 DEF WebInv, Cookies, NoCookie
<1> QED
  BY <1>3, <1>5, <1>6, <1>7, <1>9, <1>10, <1>11 DEF WebInv

(* The cookies browsers have.                                              *)
LEMMA JarGood ==
  ASSUME WebInv
  PROVE  /\ jar \in [Browser -> Cookie]
         /\ \A b \in Browser :
              /\ Exists(jar[b].email)
              /\ jar[b].issued <= clock
              /\ \A x \in retired :
                   jar[b].stamp = x.stamp => jar[b].issued <= x.at + MaxDuration
BY DEF WebInv, TypeOK, Known, Timely, Cookies

LEMMA NoCookieGood ==
  ASSUME WebInv
  PROVE  /\ NoCookie \in Cookie /\ Exists(NoCookie.email)
         /\ NoCookie.issued <= clock
         /\ \A x \in retired : NoCookie.stamp # x.stamp
<1>1. \A x \in retired : x.stamp # 0
  BY DEF WebInv, Distinct
<1>2. clock \in Nat
  BY DEF WebInv, TypeOK
<1> QED
  BY <1>1, <1>2, Nothing DEF NoCookie, Exists

LEMMA DieInv ==
  ASSUME WebInv, NEW r \in Request, Die(r)
  PROVE  WebInv'
BY JarGood, EndInv DEF Die

(* A new cookie is as old as its answer, and no request takes longer than  *)
(* MaxDuration.                                                            *)
LEMMA RespondInv ==
  ASSUME WebInv, NEW r \in Request, Respond(r)
  PROVE  WebInv'
<1> DEFINE t == ticket[r]
           c == IF t.email = None THEN NoCookie
                ELSE [email |-> t.email, stamp |-> t.stamp, issued |-> clock]
<1>1. End(r) /\ Running(r)
      /\ jar' = IF ~sets[r] THEN jar ELSE [jar EXCEPT ![from[r]] = c]
  BY DEF Respond, Running
<1>2. t \in Ticket /\ clock \in Nat /\ began[r] \in Nat /\ MaxDuration \in Nat
      /\ retired \subseteq Retirement
  BY WebAssumption DEF WebInv, TypeOK
<1>3. c \in Cookie
  BY <1>2, TicketCookie, Nothing
<1>4. Exists(c.email) /\ c.issued <= clock
  BY <1>2, AsIs, NoCookieGood
<1>5. ASSUME NEW x \in retired, c.stamp = x.stamp
      PROVE  c.issued <= x.at + MaxDuration
  <2>1. t.email # None /\ c.issued = clock /\ t.stamp = x.stamp
    BY <1>5, NoCookieGood
  <2>2. x.at \in Nat
    BY <1>2, RetiredFields
  <2>3. began[r] <= x.at /\ clock <= began[r] + MaxDuration
    BY <1>1, <2>1, OfRequest DEF WebInv, Timely
  <2> QED
    BY <1>2, <2>1, <2>2, <2>3
<1> HIDE DEF c, t
<1>6. /\ jar' \in [Browser -> Cookie]
      /\ \A b \in Browser : jar'[b] \in {jar[b], c}
  BY <1>1, <1>3, JarGood
<1>7. \A b \in Browser :
        /\ Exists(jar'[b].email)
        /\ jar'[b].issued <= clock
        /\ \A x \in retired :
             jar'[b].stamp = x.stamp => jar'[b].issued <= x.at + MaxDuration
  BY <1>4, <1>5, <1>6, JarGood
<1> QED
  BY <1>1, <1>6, <1>7, EndInv

LEMMA ForgetInv ==
  ASSUME WebInv, NEW b \in Browser, Forget(b)
  PROVE  WebInv'
<1>1. /\ UNCHANGED <<users, stamps, retired, clock, pc, from, form, cookie, began>>
      /\ UNCHANGED <<who, entity, sets, ticket>>
      /\ jar' = [jar EXCEPT ![b] = NoCookie]
  BY DEF Forget, accounts, input
<1>2. jar' \in [Browser -> Cookie] /\ \A a \in Browser : jar'[a] \in {jar[a], NoCookie}
  BY <1>1, JarGood, Nothing
<1>3. TypeOK'
  BY <1>1, <1>2 DEF WebInv, TypeOK
<1>4. Steps' /\ Distinct' /\ Loads' /\ SessionsWereGood'
  BY <1>1 DEF WebInv, Steps, Is, Distinct, Loads, SessionsWereGood, Running
<1>5. Known'
  BY <1>1, <1>2, NoCookieGood DEF WebInv, Known, Found, Exists
<1>6. Timely'
  BY <1>1, <1>2, NoCookieGood DEF WebInv, Timely, Running
<1>7. Cookies'
  BY <1>1, <1>2, NoCookieGood DEF WebInv, Cookies
<1> QED
  BY <1>3, <1>4, <1>5, <1>6, <1>7 DEF WebInv

LEMMA TickInv ==
  ASSUME WebInv, Tick
  PROVE  WebInv'
<1>1. /\ UNCHANGED <<users, stamps, retired, jar, pc, from, form, cookie, began>>
      /\ UNCHANGED <<who, entity, sets, ticket>>
      /\ clock' = clock + 1
      /\ \A r \in Request : Running(r) => clock < began[r] + MaxDuration
  BY DEF Tick, accounts, input
<1>2. TypeOK /\ clock \in Nat /\ MaxDuration \in Nat
  BY WebAssumption DEF WebInv, TypeOK
<1>3. TypeOK'
  BY <1>1, <1>2 DEF TypeOK
<1>4. Steps' /\ Known' /\ Distinct' /\ Loads' /\ SessionsWereGood' /\ Cookies'
  BY <1>1 DEF WebInv, Steps, Is, Known, Found, Exists, Distinct, Loads, SessionsWereGood,
              Cookies, Running
<1>5. /\ \A b \in Browser : jar[b].issued \in Nat
      /\ \A r \in Request : cookie[r].issued \in Nat /\ began[r] \in Nat
  BY <1>2, CookieFields DEF TypeOK
<1>6. Timely'
  BY <1>1, <1>2, <1>5 DEF WebInv, Timely, Running
<1> QED
  BY <1>3, <1>4, <1>6 DEF WebInv

LEMMA StutterInv ==
  ASSUME WebInv, UNCHANGED vars
  PROVE  WebInv'
<1>1. /\ UNCHANGED <<users, stamps, retired, jar, clock, pc, from, form, cookie>>
      /\ UNCHANGED <<began, who, entity, sets, ticket>>
  BY DEF vars, accounts, input
<1>2. TypeOK'
  BY <1>1 DEF WebInv, TypeOK
<1>3. Steps' /\ Known' /\ Distinct' /\ Timely' /\ Loads' /\ SessionsWereGood'
      /\ Cookies'
  BY <1>1 DEF WebInv, Steps, Is, Known, Found, Exists, Distinct, Timely, Loads,
              SessionsWereGood, Cookies, Running
<1> QED
  BY <1>2, <1>3 DEF WebInv

LEMMA NextInv == WebInv /\ [Next]_vars => WebInv'
<1> SUFFICES ASSUME WebInv, [Next]_vars PROVE WebInv'
  OBVIOUS
<1>1. CASE UNCHANGED vars
  BY <1>1, StutterInv
<1>2. ASSUME NEW r \in Request, Handle(r)
      PROVE  WebInv'
  BY <1>2, AnonymousInv, BelievedInv, ValidatedInv, RejectedInv, ShowInv, LoginInv,
     RegisterInv, InsertInv, ChangeInv, SaveInv, LogOffInv DEF Handle
<1>3. ASSUME NEW r \in Request, Send(r) \/ Respond(r) \/ Die(r)
      PROVE  WebInv'
  BY <1>3, SendInv, RespondInv, DieInv
<1>4. ASSUME NEW b \in Browser, Forget(b)
      PROVE  WebInv'
  BY <1>4, ForgetInv
<1> QED
  BY <1>1, <1>2, <1>3, <1>4, TickInv DEF Next

-----------------------------------------------------------------------------
(* The invariant of every reachable state of the site and its browsers.    *)
THEOREM WebInvariant == Spec => []WebInv
<1>1. Init => WebInv
  BY InitInv
<1>2. WebInv /\ [Next]_vars => WebInv'
  BY NextInv
<1> QED
  BY <1>1, <1>2, PTL DEF Spec

(* The state of the site and of the browsers keeps its type.               *)
THEOREM WebTypeCorrect == Spec => []TypeOK
<1>1. WebInv => TypeOK
  BY DEF WebInv
<1> QED
  BY <1>1, WebInvariant, PTL

(* A session that is given out was good when its request was sent or       *)
(* later, also when a log-in or a renewal overlaps a change of password.   *)
THEOREM SessionsGood == Spec => []SessionsWereGood
<1>1. WebInv => SessionsWereGood
  BY DEF WebInv
<1> QED
  BY <1>1, WebInvariant, PTL

(* A session of a stamp that was replaced is believed for ValidateInterval *)
(* and the time one request takes, and no longer.                          *)
LEMMA OldSession ==
  ASSUME WebInv, NEW r \in Request, NEW x \in retired,
         cookie[r].stamp = x.stamp, Believed(r) \/ Validated(r)
  PROVE  clock <= x.at + MaxDuration + ValidateInterval
<1>1. /\ cookie[r].issued \in Nat /\ clock \in Nat /\ x.at \in Nat
      /\ MaxDuration \in Nat /\ ValidateInterval \in Nat
  BY AsIs, CookieFields, RetiredFields, WebAssumption DEF WebInv, TypeOK
<1>2. cookie[r].issued <= x.at + MaxDuration
  BY DEF WebInv, Cookies
<1>3. CASE Believed(r)
  <2>1. clock - cookie[r].issued <= ValidateInterval
    BY <1>3 DEF Believed, Young
  <2> QED
    BY <1>1, <1>2, <2>1
<1>4. CASE Validated(r)
  <2>1. HasCookie(r) /\ users[cookie[r].email].stamp = x.stamp
    BY <1>4 DEF Validated, Stamped
  <2>2. cookie[r].email \in Email
    BY <2>1, CookieRow
  <2> QED
    BY <2>1, <2>2, InTable
<1> QED
  BY <1>3, <1>4

(* Once a password is changed, no other session of the account outlives    *)
(* the next look at the security stamp, however log-ins, renewals and      *)
(* changes overlap, and whatever the two times are.                        *)
THEOREM SessionsEnd == Spec => OldSessionsEnd
<1>1. WebInv /\ [Next]_vars =>
        [\A r \in Request, x \in retired :
           cookie[r].stamp = x.stamp /\ (Believed(r) \/ Validated(r))
             => clock <= x.at + MaxDuration + ValidateInterval]_vars
  BY OldSession
<1> QED
  BY <1>1, WebInvariant, PTL DEF Spec, OldSessionsEnd

(* A step that is no change of an account's password leaves the account as *)
(* it is once it exists.                                                   *)
LEMMA KeptRow ==
  ASSUME WebInv, [Next]_vars, NEW e \in Email, users[e] # NoRow,
         users'[e] # users[e]
  PROVE  \E r \in Request : pc[r] = "save" /\ who[r] = e
<1>1. users[e].stamp # 0 /\ users \in [Email -> UserRow]
  BY InTable, UserFields DEF WebInv, TypeOK
<1>2. PICK r \in Request : Insert(r) \/ Save(r)
  BY DEF Next, Handle, vars, accounts, Send, Anonymous, Believed, Validated,
         Rejected, Show, Login, Register, Change, Settings, LogOff, Respond, Die, End,
         Forget, Tick
<1>3. CASE Insert(r)
  <2>1. users[form[r].email].stamp = 0
        /\ \E u : users' = [users EXCEPT ![form[r].email] = u]
    BY <1>3 DEF Insert
  <2> QED
    BY <1>1, <2>1
<1>4. CASE Save(r)
  <2>1. pc[r] = "save" /\ \E u : users' = [users EXCEPT ![who[r]] = u]
    BY <1>4 DEF Save
  <2> QED
    BY <1>1, <2>1
<1> QED
  BY <1>2, <1>3, <1>4

(* Of two registrations of one e-mail, one fails: what is in an account    *)
(* changes only with its password.                                         *)
THEOREM NamesUnique == Spec => RegisteredOnce
<1>1. WebInv /\ [Next]_vars =>
        [\A e \in Email :
           users[e] # NoRow /\ users'[e] # users[e] =>
             \E r \in Request : pc[r] = "save" /\ who[r] = e]_users
  BY KeptRow
<1> QED
  BY <1>1, WebInvariant, PTL DEF Spec, RegisteredOnce
=============================================================================
