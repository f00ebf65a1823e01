----------------------------- MODULE PatientApp -----------------------------
(***************************************************************************)
(* The iOS app of the patients on top of Firebase.                         *)
(*                                                                         *)
(* Every phone runs one process: a root screen, the static                 *)
(* FirebaseHelper.user, the requests to Firebase Auth that have not been   *)
(* answered and the operations on the Firebase database that have not been *)
(* sent.  Requests to Auth are independent HTTPS calls and are answered in *)
(* any order; database operations go over one connection in the order in   *)
(* which they were issued, while the app goes on at once.  Nothing of this *)
(* survives the process.  An account's uid is its e-mail here.             *)
(***************************************************************************)
EXTENDS Integers, Sequences, FiniteSets

CONSTANTS
  Device,
  Email,
  Form,         \* what patients may fill in on the sign-up screen
  EmailOf,      \* the e-mail of a form
  Doctor,
  DoctorsOf,    \* the entries of Users that have the code of a form
  Registered,   \* accounts there are from the start
  PageSize,     \* readings the history asks for (10 in the code)
  MaxReadings,  \* bound: readings saved in a behaviour
  MaxRequests,  \* bound: log-ins and sign-ups of a phone without an answer
  MaxQueue,     \* bound: database operations of a phone not yet sent
  None

ASSUME AppAssumption ==
  /\ EmailOf \in [Form -> Email]
  /\ DoctorsOf \in [Form -> SUBSET Doctor]
  /\ Registered \subseteq Email
  /\ PageSize \in Nat \ {0}
  /\ MaxReadings \in Nat /\ MaxRequests \in Nat /\ MaxQueue \in Nat
  /\ None \notin Email \cup Form \cup Doctor

VARIABLES
  accounts,  \* Firebase Auth: the e-mails with an account
  profiles,  \* database, Users/<uid>: the form it was written from
  links,     \* database, Physicians/<doctor>/<uid>
  stored,    \* database, Patients/<uid>/<id>
  screen,    \* what each phone shows
  user,      \* FirebaseHelper.user
  patient,   \* (history) whose log-in or sign-up opened the start screen
  auth,      \* unanswered requests to Firebase Auth
  outbox,    \* database operations not sent yet, oldest first
  shown,     \* HistoryViewController.measurements of the current screen
  clock      \* readings saved so far; childByAutoId keys grow with time

firebase == <<accounts, profiles, links, stored>>
vars == <<firebase, screen, user, patient, auth, outbox, shown, clock>>

Start == {"history", "measure", "export", "account"}
Stopped == {"off", "crashed"}
Screen == {"login", "signup"} \cup Start \cup Stopped

(* Patients/<uid>/<id>; by and on are history: the patient on whose start  *)
(* screen it was typed, and the phone.                                     *)
Reading == [id : Nat, uid : Email \cup {None}, by : Email \cup {None}, on : Device]

Request ==
  [kind : {"login"}, email : Email]
    \cup [kind : {"create", "created"}, form : Form, doctor : Doctor]

Op ==
  [op : {"query"}, form : Form]
    \cup [op : {"profile"}, uid : Email, form : Form]
    \cup [op : {"link"}, uid : Email, doctor : Doctor]
    \cup [op : {"reading"}, reading : Reading]
    \cup [op : {"fetch"}, uid : Email \cup {None}]
    \cup [op : {"stale"}]

Fetch(uid) == [op |-> "fetch", uid |-> uid]
Stale == [op |-> "stale"]

Init ==
  /\ accounts = Registered
  /\ profiles = [e \in Email |-> None]
  /\ links = {} /\ stored = {}
  /\ screen = [d \in Device |-> "login"]
  /\ user = [d \in Device |-> None]
  /\ patient = [d \in Device |-> None]
  /\ auth = [d \in Device |-> <<>>]
  /\ outbox = [d \in Device |-> <<>>]
  /\ shown = [d \in Device |-> {}]
  /\ clock = 0

Show(d, s) == screen' = [screen EXCEPT ![d] = s]
Issue(d, ops) == outbox' = [outbox EXCEPT ![d] = @ \o ops]
Roomy(d) == Len(outbox[d]) < MaxQueue
Waiting(d) ==
  Len(auth[d]) + Cardinality({k \in 1..Len(outbox[d]) : outbox[d][k].op = "query"})
Without(q, k) == SubSeq(q, 1, k - 1) \o SubSeq(q, k + 1, Len(q))
Answered(d, k) == auth' = [auth EXCEPT ![d] = Without(@, k)]

IsWrite(o) == o.op \in {"profile", "link", "reading"}

(* Mutant: the screens share their readings and keep listening.            *)
Root_Shared(d, s, ops) ==
  /\ Show(d, s)
  /\ outbox' = [outbox EXCEPT ![d] = @ \o ops]
  /\ UNCHANGED shown

(* Mutant: the connection is purged with the screen.                       *)
Root_Purges(d, s, ops) ==
  /\ Show(d, s)
  /\ shown' = [shown EXCEPT ![d] = {}]
  /\ outbox' = [outbox EXCEPT ![d] = ops]

(* window.rootViewController = vs: the screen there was is gone, and the   *)
(* answers to its queries change a table nobody sees any more.  A query of *)
(* sign-up is not affected: its callback belongs to FirebaseHelper.        *)
Unseen(q) == [k \in 1..Len(q) |-> IF q[k].op = "fetch" THEN Stale ELSE q[k]]

Root(d, s, ops) ==
  /\ Show(d, s)
  /\ shown' = [shown EXCEPT ![d] = {}]
  /\ outbox' = [outbox EXCEPT ![d] = Unseen(@) \o ops]

-----------------------------------------------------------------------------
(* Log-in and sign-up.                                                     *)

TapLogin(d, e) ==
  /\ screen[d] = "login" /\ Waiting(d) < MaxRequests /\ Roomy(d)
  /\ auth' = [auth EXCEPT ![d] = Append(@, [kind |-> "login", email |-> e])]
  /\ UNCHANGED <<firebase, screen, user, patient, outbox, shown, clock>>

(* Mutant: the user of an earlier session stays.                           *)
Become_First(d, e) ==
  /\ user' = IF user[d] = None THEN [user EXCEPT ![d] = e] ELSE user
  /\ patient' = [patient EXCEPT ![d] = e]

Become(d, e) ==
  /\ user' = [user EXCEPT ![d] = e]
  /\ patient' = [patient EXCEPT ![d] = e]

(* signIn succeeds: the start screen opens whatever was on, and its        *)
(* history loads when it appears.                                          *)
LoggedIn(d, k) ==
  /\ auth[d][k].kind = "login"
  /\ auth[d][k].email \in accounts
  /\ Become(d, auth[d][k].email)
  /\ Root(d, "history", <<Fetch(auth[d][k].email)>>)
  /\ Answered(d, k)
  /\ UNCHANGED <<firebase, clock>>

(* Firebase Auth refuses, or the answer is lost, or both: printed only.  A *)
(* createUser whose answer is lost has made the account all the same.      *)
AuthFails(d, k) ==
  /\ Answered(d, k)
  /\ UNCHANGED <<firebase, screen, user, patient, outbox, shown, clock>>

TapSignup(d, f) ==
  /\ screen[d] = "signup" /\ Waiting(d) < MaxRequests /\ Roomy(d)
  /\ Issue(d, <<[op |-> "query", form |-> f]>>)
  /\ UNCHANGED <<firebase, screen, user, patient, auth, shown, clock>>

(* Mutant: the error "already in use" is taken for a success.              *)
CreateUser_AnyEmail(d, k) ==
  LET r == auth[d][k]
  IN /\ r.kind = "create"
     /\ accounts' = accounts \cup {EmailOf[r.form]}
     /\ auth' = [auth EXCEPT ![d][k].kind = "created"]
     /\ UNCHANGED <<profiles, links, stored, screen, user, patient, outbox,
                    shown, clock>>

(* createUser reaches Firebase Auth.                                       *)
CreateUser(d, k) ==
  LET r == auth[d][k]
  IN /\ r.kind = "create"
     /\ EmailOf[r.form] \notin accounts
     /\ accounts' = accounts \cup {EmailOf[r.form]}
     /\ auth' = [auth EXCEPT ![d][k].kind = "created"]
     /\ UNCHANGED <<profiles, links, stored, screen, user, patient, outbox,
                    shown, clock>>

(* Mutant: the physician is written first.                                 *)
Aspects_Swapped(r) ==
  LET uid == EmailOf[r.form]
  IN <<[op |-> "link", uid |-> uid, doctor |-> r.doctor],
       [op |-> "profile", uid |-> uid, form |-> r.form], Fetch(uid)>>

(* Mutant: the physician is forgotten.                                     *)
Aspects_NoLink(r) ==
  LET uid == EmailOf[r.form]
  IN <<[op |-> "profile", uid |-> uid, form |-> r.form], Fetch(uid)>>

(* "register other aspects": two writes, and the history of the new screen.*)
Aspects(r) ==
  LET uid == EmailOf[r.form]
  IN <<[op |-> "profile", uid |-> uid, form |-> r.form],
       [op |-> "link", uid |-> uid, doctor |-> r.doctor], Fetch(uid)>>

(* Mutant: self.user = user is gone.                                       *)
SignedUp_NoUser(d, k) ==
  /\ auth[d][k].kind = "created"
  /\ Root(d, "history", Aspects(auth[d][k]))
  /\ Answered(d, k)
  /\ UNCHANGED <<firebase, user, patient, clock>>

SignedUp(d, k) ==
  /\ auth[d][k].kind = "created"
  /\ Become(d, EmailOf[auth[d][k].form])
  /\ Root(d, "history", Aspects(auth[d][k]))
  /\ Answered(d, k)
  /\ UNCHANGED <<firebase, clock>>

-----------------------------------------------------------------------------
(* The screens.                                                            *)

(* Going to a screen that loads nothing: the links of the storyboard.      *)
Moves == {<<"login", "signup">>, <<"signup", "login">>, <<"history", "measure">>,
          <<"history", "export">>, <<"history", "account">>}

Move(d) ==
  /\ \E m \in Moves : screen[d] = m[1] /\ Show(d, m[2])
  /\ UNCHANGED <<firebase, user, patient, auth, outbox, shown, clock>>

(* Mutant: the history is loaded when the screen is made, not when it      *)
(* appears.                                                                *)
Appear_Once(d, ops) ==
  /\ Show(d, "history")
  /\ Issue(d, ops)

(* viewDidAppear of the history: it asks for the readings of user!.        *)
Appear(d, ops) ==
  /\ Show(d, "history")
  /\ Issue(d, ops \o <<Fetch(user[d])>>)

ToHistory(d) ==
  /\ screen[d] \in {"measure", "export", "account"} /\ Roomy(d)
  /\ Appear(d, <<>>)
  /\ UNCHANGED <<firebase, user, patient, auth, shown, clock>>

(* Save with a number in the text field.                                   *)
SaveReading(d) ==
  /\ screen[d] = "measure" /\ Roomy(d)
  /\ clock < MaxReadings
  /\ clock' = clock + 1
  /\ Appear(d, <<[op |-> "reading",
                  reading |-> [id |-> clock + 1, uid |-> user[d],
                               by |-> patient[d], on |-> d]]>>)
  /\ UNCHANGED <<firebase, user, patient, auth, shown>>

(* Log out: the root screen changes, FirebaseHelper.user does not.         *)
Logout(d) ==
  /\ screen[d] = "account"
  /\ Root(d, "login", <<>>)
  /\ UNCHANGED <<firebase, user, patient, auth, clock>>

(* The process ends: everything but Firebase is lost.                      *)
End(d, s) ==
  /\ screen' = [screen EXCEPT ![d] = s]
  /\ user' = [user EXCEPT ![d] = None]
  /\ patient' = [patient EXCEPT ![d] = None]
  /\ auth' = [auth EXCEPT ![d] = <<>>]
  /\ outbox' = [outbox EXCEPT ![d] = <<>>]
  /\ shown' = [shown EXCEPT ![d] = {}]
  /\ UNCHANGED <<firebase, clock>>

(* Save with "1.2.3", which the decimal pad lets one type: Double(text)!.  *)
SaveCrashes(d) == screen[d] = "measure" /\ End(d, "crashed")

(* Send on the export screen: POSTrequest unwraps TacPacServer.token, which*)
(* is set by TacPacServer.login alone, and nothing calls that any more.    *)
SendExport(d) == screen[d] = "export" /\ End(d, "crashed")

Kill(d) == screen[d] \notin Stopped /\ End(d, "off")

Launch(d) ==
  /\ screen[d] \in Stopped
  /\ Show(d, "login")
  /\ UNCHANGED <<firebase, user, patient, auth, outbox, shown, clock>>

-----------------------------------------------------------------------------
(* The database connection: the oldest operation is sent, and what its     *)
(* answer makes the app do is done.  The answers come back in the order of *)
(* the operations, so the two are one step; only a reading that another    *)
(* phone stores in between is shown by an answer that might have missed it.*)

Due(d, op) == outbox[d] # <<>> /\ Head(outbox[d]).op = op
Sent(d) == outbox' = [outbox EXCEPT ![d] = Tail(@)]

(* The answer to the query for the code: any of the physicians that have   *)
(* it, allKeys[0] being in no order, or "code does not exist!".            *)
CodeAnswered(d) ==
  /\ Due(d, "query")
  /\ LET f == Head(outbox[d]).form
     IN IF DoctorsOf[f] = {} THEN UNCHANGED auth
        ELSE \E doctor \in DoctorsOf[f] :
               auth' = [auth EXCEPT ![d] = Append(@,
                          [kind |-> "create", form |-> f, doctor |-> doctor])]
  /\ Sent(d)
  /\ UNCHANGED <<firebase, screen, user, patient, shown, clock>>

StoreProfile(d) ==
  /\ Due(d, "profile")
  /\ LET o == Head(outbox[d])
     IN profiles' = [profiles EXCEPT ![o.uid] = o.form]
  /\ Sent(d)
  /\ UNCHANGED <<accounts, links, stored, screen, user, patient, auth, shown, clock>>

(* Mutant: Physicians/<uid>/<doctor>.                                      *)
StoreLink_Swapped(d) ==
  /\ Due(d, "link")
  /\ LET o == Head(outbox[d]) IN links' = links \cup {<<o.uid, o.doctor>>}
  /\ Sent(d)
  /\ UNCHANGED <<accounts, profiles, stored, screen, user, patient, auth, shown, clock>>

StoreLink(d) ==
  /\ Due(d, "link")
  /\ LET o == Head(outbox[d]) IN links' = links \cup {<<o.doctor, o.uid>>}
  /\ Sent(d)
  /\ UNCHANGED <<accounts, profiles, stored, screen, user, patient, auth, shown, clock>>

StoreReading(d) ==
  /\ Due(d, "reading")
  /\ stored' = stored \cup {Head(outbox[d]).reading}
  /\ Sent(d)
  /\ UNCHANGED <<accounts, profiles, links, screen, user, patient, auth, shown, clock>>

Pending(d) ==
  {outbox[d][k].reading : k \in {i \in 1..Len(outbox[d]) : outbox[d][i].op = "reading"}}

(* queryLimited(toFirst:): the readings with the smallest keys, that is,   *)
(* the oldest ones.                                                        *)
Page(readings) ==
  {r \in readings : Cardinality({q \in readings : q.id < r.id}) < PageSize}

(* The client adds the writes it has not sent to what the database says.   *)
HistoryLoaded(d) ==
  /\ Due(d, "fetch")
  /\ LET mine == {r \in stored \cup Pending(d) : r.uid = Head(outbox[d]).uid}
     IN shown' = [shown EXCEPT ![d] = Page(mine)]
  /\ Sent(d)
  /\ UNCHANGED <<firebase, screen, user, patient, auth, clock>>

StaleAnswer(d) ==
  /\ Due(d, "stale")
  /\ Sent(d)
  /\ UNCHANGED <<firebase, screen, user, patient, auth, shown, clock>>

Serve(d) ==
  CodeAnswered(d) \/ StoreProfile(d) \/ StoreLink(d) \/ StoreReading(d)
    \/ HistoryLoaded(d) \/ StaleAnswer(d)

-----------------------------------------------------------------------------
Answer(d) ==
  \E k \in 1..Len(auth[d]) :
    LoggedIn(d, k) \/ AuthFails(d, k) \/ CreateUser(d, k) \/ SignedUp(d, k)

Tap(d) ==
  \/ \E e \in Email : TapLogin(d, e)
  \/ \E f \in Form : TapSignup(d, f)
  \/ Move(d) \/ ToHistory(d) \/ SaveReading(d) \/ Logout(d)
  \/ SaveCrashes(d) \/ SendExport(d) \/ Launch(d)

Next == \E d \in Device : Tap(d) \/ Answer(d) \/ Serve(d) \/ Kill(d)

Spec == Init /\ [][Next]_vars

(* The Firebase client keeps its connection up and sends what it has; no   *)
(* patient has to do anything.                                             *)
FairSpec == Spec /\ \A d \in Device : WF_vars(Serve(d))
-----------------------------------------------------------------------------
(* Correctness.                                                            *)

(* The type of the state of the phones and of the Firebase data.           *)
TypeOK ==
  /\ accounts \subseteq Email
  /\ profiles \in [Email -> Form \cup {None}]
  /\ links \subseteq Doctor \X Email
  /\ stored \subseteq Reading
  /\ screen \in [Device -> Screen]
  /\ user \in [Device -> Email \cup {None}]
  /\ patient \in [Device -> Email \cup {None}]
  /\ auth \in [Device -> Seq(Request)]
  /\ outbox \in [Device -> Seq(Op)]
  /\ shown \in [Device -> SUBSET Reading]
  /\ clock \in 0..MaxReadings

(* The start screen is open only when FirebaseHelper.user is set, so that  *)
(* the user! of saveReading and getMeasurements never ends the app.        *)
UserKnownOnStart ==
  \A d \in Device : screen[d] \in Start => user[d] # None

(* Late answers, double taps and two phones signing up with one e-mail     *)
(* never give a patient a second profile or physician, a physician the     *)
(* code in the profile does not belong to, or readings without an account. *)
Records == INSTANCE PatientRecords
RecordsKept == Records!Spec

(* A reading is filed under the patient whose start screen it was typed    *)
(* on, although logging out leaves FirebaseHelper.user as it is and other  *)
(* answers of Firebase Auth may still come.                                *)
ReadingsUnderOwner ==
  \A r \in stored \cup UNION {Pending(d) : d \in Device} : r.uid = r.by

(* The history shows readings of the patient who opened it and no other's, *)
(* whoever used the phone before and whatever queries are on their way.    *)
ShownBelongToOwner ==
  \A d \in Device : \A r \in shown[d] : r.uid = patient[d]

Writes(d) == {outbox[d][k] : k \in {i \in 1..Len(outbox[d]) : IsWrite(outbox[d][i])}}

Arrived(o) ==
  CASE o.op = "profile" -> profiles[o.uid] = o.form
    [] o.op = "link"    -> <<o.doctor, o.uid>> \in links
    [] o.op = "reading" -> o.reading \in stored

(* A write the app has issued is lost only with the process: logging out,  *)
(* another log-in or a change of screen does not take it back.             *)
WritesSurvive ==
  [][\A d \in Device : \A o \in Writes(d) :
       o \in Writes(d)' \/ Arrived(o)' \/ screen'[d] \in Stopped]_vars

Complete(e) == profiles[e] # None /\ \E l \in links : l[2] = e

Registering(d, e) ==
  \/ \E k \in 1..Len(auth[d]) :
       auth[d][k].kind = "created" /\ EmailOf[auth[d][k].form] = e
  \/ \E o \in Writes(d) : o.op \in {"profile", "link"} /\ o.uid = e

(* A new account gets its profile and its physician, whatever else happens *)
(* on the phone, unless the app ends or never learns that createUser did   *)
(* it: those leave an account no physician sees and no sign-up can repair. *)
SignupCarriesThrough ==
  [][\A d \in Device, e \in Email :
       Registering(d, e) =>
         \/ Registering(d, e)' \/ Complete(e)'
         \/ screen'[d] \in Stopped
         \/ \E k \in 1..Len(auth[d]) : AuthFails(d, k)]_vars

Saved(d, n) == \E r \in Pending(d) : r.id = n /\ r.uid = user[d]

(* A patient who saves a reading and stays on the history gets to see it,  *)
(* as long as a page holds all the readings there are.                     *)
SavedReadingIsShown ==
  \A d \in Device, e \in Email, n \in 1..MaxReadings :
    Saved(d, n) /\ screen[d] = "history" /\ user[d] = e
      ~> \/ \E r \in shown[d] : r.id = n
         \/ screen[d] # "history" \/ user[d] # e

Latest(d) ==
  {r \in stored : /\ r.on = d /\ r.uid = user[d]
                  /\ \A q \in stored : q.on = d /\ q.uid = user[d] => q.id <= r.id}

(* "update data when new is acquired": with nothing left to send or load,  *)
(* the history shows the last reading the patient saved on this phone.     *)
HistoryShowsLatest ==
  \A d \in Device :
    screen[d] = "history" /\ outbox[d] = <<>> => Latest(d) \subseteq shown[d]

(* Send on the export screen "sends patients data to specified email", so  *)
(* it leaves the app running.                                              *)
ExportSends ==
  [][\A d \in Device : screen[d] = "export" => screen'[d] # "crashed"]_vars
=============================================================================
