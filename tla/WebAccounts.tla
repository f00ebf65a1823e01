---------------------------- MODULE WebAccounts ----------------------------
(***************************************************************************)
(* Sign-in on the web site (AccountController, ManageController).          *)
(*                                                                         *)
(* A browser keeps one session cookie for all its tabs.  A request carries *)
(* the cookie the browser had when it was sent; the cookie middleware      *)
(* decides who it is from, looking at the account only when the cookie is  *)
(* older than ValidateInterval; the controller reads and writes the row of *)
(* the account through one DbContext; the answer may set the cookie.       *)
(* Requests of all browsers, and of the tabs of one, overlap.  A step ends *)
(* at a query, a SaveChanges or the arrival of the answer.                 *)
(*                                                                         *)
(* Accounts have no external logins, confirmed e-mails or phone numbers:   *)
(* no provider is registered and the e-mail and SMS services send nothing. *)
(* The pages that need them change no state and are requests like any other*)
(* page (op "page"); the ones that only store a setting are op "settings". *)
(***************************************************************************)
EXTENDS Integers, FiniteSets

CONSTANTS
  Email,
  Password,
  Browser,
  Request,           \* the requests that may be under way at once
  Form,              \* what users may submit
  ValidateInterval,  \* 30 minutes in the code
  MaxDuration,       \* assumption: how long a request may take
  MaxClock,          \* bound: the time a behaviour lasts
  MaxStamps,         \* bound: sign-ups and changes of a behaviour
  None

Post == [op : {"login", "register"}, email : Email, password : Password]
          \cup [op : {"change"}, password : Password, new : Password]
          \cup [op : {"settings", "logoff", "page"}]

ASSUME WebAssumption ==
  /\ Form \subseteq Post
  /\ ValidateInterval \in Nat /\ MaxDuration \in Nat
  /\ MaxClock \in Nat /\ MaxStamps \in Nat
  /\ None \notin Email \cup Password \cup Browser

VARIABLES
  users,    \* AspNetUsers by e-mail; security stamps are numbered, 0 is no row
  stamps,   \* the last security stamp given out
  retired,  \* (history) stamps that were replaced, and when
  jar,      \* the session cookie of each browser
  clock,
  pc,       \* where each request is
  from,     \* the browser that sent it
  form,     \* what it posts
  cookie,   \* the session cookie it carries
  began,    \* when it was sent
  who,      \* User.Identity
  entity,   \* the row its DbContext tracks
  sets,     \* whether its answer sets the cookie
  ticket    \* to what; no e-mail deletes it

accounts == <<users, stamps, retired>>
input == <<from, form, cookie, began>>
vars == <<accounts, jar, clock, pc, input, who, entity, sets, ticket>>

NoRow == [password |-> None, stamp |-> 0]
NoCookie == [email |-> None, stamp |-> 0, issued |-> 0]
NoForm == [op |-> "page"]
NoTicket == [email |-> None, stamp |-> 0]
Untracked == [email |-> None, password |-> None, stamp |-> 0]

Handling == {"authenticate", "handle", "insert", "save"}
Running(r) == pc[r] \in Handling \cup {"respond"}

Init ==
  /\ users = [e \in Email |-> NoRow]
  /\ stamps = 0 /\ retired = {} /\ clock = 0
  /\ jar = [b \in Browser |-> NoCookie]
  /\ pc = [r \in Request |-> "idle"]
  /\ from = [r \in Request |-> None]
  /\ form = [r \in Request |-> NoForm]
  /\ cookie = [r \in Request |-> NoCookie]
  /\ began = [r \in Request |-> 0]
  /\ who = [r \in Request |-> None]
  /\ entity = [r \in Request |-> Untracked]
  /\ sets = [r \in Request |-> FALSE]
  /\ ticket = [r \in Request |-> NoTicket]

Goto(r, label) == pc' = [pc EXCEPT ![r] = label]
Is(r, op) == form[r].op = op

-----------------------------------------------------------------------------
(* Sending a request and the cookie middleware.                            *)

Send(r) ==
  /\ pc[r] = "idle"
  /\ \E f \in Form, b \in Browser :
       /\ form' = [form EXCEPT ![r] = f]
       /\ from' = [from EXCEPT ![r] = b]
       /\ cookie' = [cookie EXCEPT ![r] = jar[b]]
  /\ began' = [began EXCEPT ![r] = clock]
  /\ Goto(r, "authenticate")
  /\ UNCHANGED <<accounts, jar, clock, who, entity, sets, ticket>>

HasCookie(r) == cookie[r].email # None

(* Mutant: the security stamp is never looked at.                          *)
Young_Always(r) == TRUE
Young(r) == clock - cookie[r].issued <= ValidateInterval

(* Mutant: any account that exists is good enough.                         *)
Stamped_Any(r) == users[cookie[r].email].stamp # 0
Stamped(r) == users[cookie[r].email].stamp = cookie[r].stamp

Row(e) == [email |-> e, password |-> users[e].password, stamp |-> users[e].stamp]

Anonymous(r) ==
  /\ pc[r] = "authenticate" /\ ~HasCookie(r)
  /\ Goto(r, "handle")
  /\ UNCHANGED <<accounts, jar, clock, input, who, entity, sets, ticket>>

(* A cookie younger than ValidateInterval is believed.                     *)
Believed(r) ==
  /\ pc[r] = "authenticate" /\ HasCookie(r) /\ Young(r)
  /\ who' = [who EXCEPT ![r] = cookie[r].email]
  /\ Goto(r, "handle")
  /\ UNCHANGED <<accounts, jar, clock, input, entity, sets, ticket>>

(* An older one is checked against the account and then made afresh.       *)
Validated(r) ==
  /\ pc[r] = "authenticate" /\ HasCookie(r) /\ ~Young(r) /\ Stamped(r)
  /\ who' = [who EXCEPT ![r] = cookie[r].email]
  /\ entity' = [entity EXCEPT ![r] = Row(cookie[r].email)]
  /\ sets' = [sets EXCEPT ![r] = TRUE]
  /\ ticket' = [ticket EXCEPT ![r] = [email |-> cookie[r].email,
                                      stamp |-> cookie[r].stamp]]
  /\ Goto(r, "handle")
  /\ UNCHANGED <<accounts, jar, clock, input>>

Rejected(r) ==
  /\ pc[r] = "authenticate" /\ HasCookie(r) /\ ~Young(r) /\ ~Stamped(r)
  /\ entity' = [entity EXCEPT ![r] = Row(cookie[r].email)]
  /\ sets' = [sets EXCEPT ![r] = TRUE]
  /\ Goto(r, "handle")
  /\ UNCHANGED <<accounts, jar, clock, input, who, ticket>>

-----------------------------------------------------------------------------
(* The controllers.                                                        *)

(* A query returns the row the context tracks already, with the values it  *)
(* was loaded with, and the row of the table otherwise.                    *)
Loaded(r, e) == IF entity[r].email = e THEN entity[r] ELSE Row(e)

(* The identity is added to those of a grant that is pending, and the      *)
(* cookie is made of the first: after a renewal, of the one renewed.       *)
SignIn(r, e, stamp) ==
  /\ sets' = [sets EXCEPT ![r] = TRUE]
  /\ ticket' = IF ticket[r] # NoTicket THEN ticket
               ELSE [ticket EXCEPT ![r] = [email |-> e, stamp |-> stamp]]

(* The answer shows a page: an invalid form, a wrong password, a name that *)
(* is taken, a redirect to the log-in, an anti-forgery token made for      *)
(* another user, an error of the database, or just the page.               *)
Show(r) ==
  /\ pc[r] \in Handling \ {"authenticate"}
  /\ Goto(r, "respond")
  /\ UNCHANGED <<accounts, jar, clock, input, who, entity, sets, ticket>>

Login(r) ==
  /\ pc[r] = "handle" /\ Is(r, "login")
  /\ LET row == Loaded(r, form[r].email)
     IN /\ row.stamp # 0
        /\ row.password = form[r].password
        /\ SignIn(r, row.email, row.stamp)
  /\ Goto(r, "respond")
  /\ UNCHANGED <<accounts, jar, clock, input, who, entity>>

(* CreateAsync looks for the name and the e-mail first, ...                *)
Register(r) ==
  /\ pc[r] = "handle" /\ Is(r, "register")
  /\ users[form[r].email].stamp = 0
  /\ Goto(r, "insert")
  /\ UNCHANGED <<accounts, jar, clock, input, who, entity, sets, ticket>>

(* Mutant: nothing but the query keeps names unique.                       *)
Insert_NoIndex(r) ==
  LET e == form[r].email
  IN /\ pc[r] = "insert" /\ stamps < MaxStamps
     /\ users' = [users EXCEPT ![e] = [password |-> form[r].password,
                                       stamp |-> stamps + 1]]
     /\ stamps' = stamps + 1
     /\ SignIn(r, e, stamps + 1)
     /\ Goto(r, "respond")
     /\ UNCHANGED <<retired, jar, clock, input, who, entity>>

(* ... and then inserts; the name has a unique index.                      *)
Insert(r) ==
  LET e == form[r].email
  IN /\ pc[r] = "insert" /\ stamps < MaxStamps
     /\ users[e].stamp = 0
     /\ users' = [users EXCEPT ![e] = [password |-> form[r].password,
                                       stamp |-> stamps + 1]]
     /\ stamps' = stamps + 1
     /\ SignIn(r, e, stamps + 1)
     /\ Goto(r, "respond")
     /\ UNCHANGED <<retired, jar, clock, input, who, entity>>

(* The two-factor and phone settings, and logins removed: nothing of them  *)
(* is in the model but that they write the row with a new stamp.           *)
Settings(r) ==
  /\ pc[r] = "handle" /\ Is(r, "settings") /\ who[r] # None
  /\ entity' = [entity EXCEPT ![r] = Loaded(r, who[r])]
  /\ Goto(r, "save")
  /\ UNCHANGED <<accounts, jar, clock, input, who, sets, ticket>>

(* ChangePasswordAsync checks the old password, ...                        *)
Change(r) ==
  /\ pc[r] = "handle" /\ Is(r, "change") /\ who[r] # None
  /\ LET row == Loaded(r, who[r])
     IN /\ row.password = form[r].password
        /\ entity' = [entity EXCEPT ![r] = row]
  /\ Goto(r, "save")
  /\ UNCHANGED <<accounts, jar, clock, input, who, sets, ticket>>

(* ... and then, as for a setting, the whole row is written, with a new    *)
(* stamp, whatever the table has by then.                                  *)
Save(r) ==
  LET e == who[r]
      password == IF Is(r, "change") THEN form[r].new ELSE entity[r].password
  IN /\ pc[r] = "save" /\ stamps < MaxStamps
     /\ users' = [users EXCEPT ![e] = [password |-> password,
                                       stamp |-> stamps + 1]]
     /\ stamps' = stamps + 1
     /\ retired' = retired \cup {[stamp |-> users[e].stamp, at |-> clock]}
     /\ SignIn(r, e, stamps + 1)
     /\ Goto(r, "respond")
     /\ UNCHANGED <<jar, clock, input, who, entity>>

(* Mutant: the cookie is emptied instead of deleted.                       *)
LogOff_Empties(r) ==
  /\ pc[r] = "handle" /\ Is(r, "logoff") /\ who[r] # None
  /\ sets' = [sets EXCEPT ![r] = TRUE]
  /\ ticket' = [ticket EXCEPT ![r] = [email |-> who[r], stamp |-> 0]]
  /\ Goto(r, "respond")
  /\ UNCHANGED <<accounts, jar, clock, input, who, entity>>

(* SignOut takes the identities of a pending grant back.                   *)
LogOff(r) ==
  /\ pc[r] = "handle" /\ Is(r, "logoff") /\ who[r] # None
  /\ sets' = [sets EXCEPT ![r] = TRUE]
  /\ ticket' = [ticket EXCEPT ![r] = NoTicket]
  /\ Goto(r, "respond")
  /\ UNCHANGED <<accounts, jar, clock, input, who, entity>>

-----------------------------------------------------------------------------
(* The answer arrives, or the request dies with its connection or server.  *)

(* Nothing of a request outlives it.                                       *)
End(r) ==
  /\ Goto(r, "idle")
  /\ from' = [from EXCEPT ![r] = None]
  /\ form' = [form EXCEPT ![r] = NoForm]
  /\ cookie' = [cookie EXCEPT ![r] = NoCookie]
  /\ began' = [began EXCEPT ![r] = 0]
  /\ who' = [who EXCEPT ![r] = None]
  /\ entity' = [entity EXCEPT ![r] = Untracked]
  /\ sets' = [sets EXCEPT ![r] = FALSE]
  /\ ticket' = [ticket EXCEPT ![r] = NoTicket]
  /\ UNCHANGED <<accounts, clock>>

Respond(r) ==
  /\ pc[r] = "respond"
  /\ jar' = IF ~sets[r] THEN jar
            ELSE [jar EXCEPT ![from[r]] =
                    IF ticket[r].email = None THEN NoCookie
                    ELSE [email |-> ticket[r].email, stamp |-> ticket[r].stamp,
                          issued |-> clock]]
  /\ End(r)

Die(r) ==
  /\ Running(r)
  /\ End(r)
  /\ UNCHANGED jar

(* The cookie expires, or the browser is closed.                           *)
Forget(b) ==
  /\ jar[b] # NoCookie
  /\ jar' = [jar EXCEPT ![b] = NoCookie]
  /\ UNCHANGED <<accounts, clock, pc, input, who, entity, sets, ticket>>

(* No request takes longer than MaxDuration.                               *)
Tick ==
  /\ clock < MaxClock
  /\ \A r \in Request : Running(r) => clock < began[r] + MaxDuration
  /\ clock' = clock + 1
  /\ UNCHANGED <<accounts, jar, pc, input, who, entity, sets, ticket>>

-----------------------------------------------------------------------------
Handle(r) ==
  \/ Anonymous(r) \/ Believed(r) \/ Validated(r) \/ Rejected(r)
  \/ Show(r) \/ Login(r) \/ Register(r) \/ Insert(r)
  \/ Change(r) \/ Settings(r) \/ Save(r) \/ LogOff(r)

Next ==
  \/ \E r \in Request : Send(r) \/ Handle(r) \/ Respond(r) \/ Die(r)
  \/ \E b \in Browser : Forget(b)
  \/ Tick

Spec == Init /\ [][Next]_vars
-----------------------------------------------------------------------------
(* Correctness.                                                            *)

UserRow == {NoRow} \cup [password : Password, stamp : Nat \ {0}]
Ticket == {NoTicket} \cup [email : Email, stamp : Nat \ {0}]
Cookie == {NoCookie} \cup [email : Email, stamp : Nat \ {0}, issued : Nat]
Tracked == [email : Email \cup {None}, password : Password \cup {None}, stamp : Nat]
Retirement == [stamp : Nat, at : Nat]

(* The type of the state of the site and of the browsers: a cookie has an  *)
(* e-mail and a stamp or neither.                                          *)
TypeOK ==
  /\ users \in [Email -> UserRow]
  /\ stamps \in Nat
  /\ retired \subseteq Retirement
  /\ jar \in [Browser -> Cookie]
  /\ clock \in Nat
  /\ pc \in [Request -> {"idle", "respond"} \cup Handling]
  /\ from \in [Request -> Browser \cup {None}]
  /\ form \in [Request -> Post]
  /\ cookie \in [Request -> Cookie]
  /\ began \in [Request -> Nat]
  /\ who \in [Request -> Email \cup {None}]
  /\ entity \in [Request -> Tracked]
  /\ sets \in [Request -> BOOLEAN]
  /\ ticket \in [Request -> Ticket]

(* A session that is given out was good when the request was sent or later:*)
(* its stamp was replaced, if at all, only after that.  It covers a log-in *)
(* and a renewal that overlap a change of the password.                    *)
SessionsWereGood ==
  \A r \in Request, x \in retired :
    Running(r) /\ ticket[r].stamp = x.stamp => began[r] <= x.at

(* "the security stamp ... is used when you change a password": once a     *)
(* password is changed, no other session of the account is believed longer *)
(* than ValidateInterval and the time one request takes, no matter how     *)
(* renewals, log-ins and changes in other tabs and browsers overlap it.    *)
OldSessionsEnd ==
  [][\A r \in Request, x \in retired :
       cookie[r].stamp = x.stamp /\ (Believed(r) \/ Validated(r))
         => clock <= x.at + MaxDuration + ValidateInterval]_vars

(* Two registrations of one e-mail do not both get it: what is in an       *)
(* account changes only when the account changes its password.             *)
RegisteredOnce ==
  [][\A e \in Email :
       users[e] # NoRow /\ users'[e] # users[e] =>
         \E r \in Request : pc[r] = "save" /\ who[r] = e]_users

(* The "Current password" asked for on the change form is the password the *)
(* account has when it is changed.                                         *)
ChangedByOwner ==
  [][\A r \in Request :
       Is(r, "change") /\ Save(r) => users[who[r]].password = form[r].password]_vars
=============================================================================
