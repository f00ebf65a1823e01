----------------------------- MODULE ApiClient -----------------------------
(***************************************************************************)
(* TacPacServer.swift, the client of the web API, together with the API.   *)
(*                                                                         *)
(* The client is the class with all its functions: the app itself calls    *)
(* only export (see PatientApp for what comes of that).  Calls are not     *)
(* awaited, so those of one phone overlap and share the static token.  A   *)
(* call carries the token there is when it is made, and its completion     *)
(* handler is called when the answer comes, if it is called at all.        *)
(***************************************************************************)
EXTENDS MobileApi

CONSTANTS Phone

ASSUME ClientAssumption == None \notin Phone

VARIABLES
  token,  \* TacPacServer.token of each phone
  state,  \* of each call, as its caller sees it
  phone,  \* the phone that made it
  began   \* (history) the rows the table had when it was made

client == <<token, state, phone, began>>
vars == <<server, client>>

Init ==
  /\ ApiInit
  /\ token = [p \in Phone |-> NoToken]
  /\ state = [c \in Call |-> "unused"]
  /\ phone = [c \in Call |-> None]
  /\ began = [c \in Call |-> 0]

-----------------------------------------------------------------------------
(* The functions of the client.                                            *)

Send(c, p, o, t, a) ==
  /\ \A d \in 1..(c - 1) : state[d] # "unused"
  /\ Receive(c, o, t, a)
  /\ state' = [state EXCEPT ![c] = "waiting"]
  /\ phone' = [phone EXCEPT ![c] = p]
  /\ began' = [began EXCEPT ![c] = Len(table)]
  /\ UNCHANGED token

(* POSTrequest unwraps the token: without one the app ends (see Kill).     *)
POSTrequest(c, p, o, a) ==
  /\ token[p] # NoToken
  /\ Send(c, p, o, token[p], a)

(* u is the account of the name and the password that were typed, if any.  *)
Login(c, p) == \E u \in User \cup {None} : Send(c, p, "token", NoToken, u)
Signup(c, p) == Send(c, p, "register", NoToken, None)
UploadMeasurement(c, p) == POSTrequest(c, p, "addMeasurement", None)
GetMeasurements(c, p) == \E a \in Amount : POSTrequest(c, p, "getPastMeasurement", a)
Export(c, p) == POSTrequest(c, p, "sendEmail", None)
CheckToken(c, p) == POSTrequest(c, p, "checkToken", None)

-----------------------------------------------------------------------------
(* The answers.                                                            *)

Code(c) == answer[c].code

(* A sign-up that is answered 200 does not call its completion handler.    *)
Complete(c) ==
  /\ state[c] = "waiting" /\ pc[c] = "answered"
  /\ state' = [state EXCEPT ![c] =
                 IF op[c] = "register" /\ Code(c) = 200 THEN "silent" ELSE "completed"]
  /\ token' = IF op[c] = "token" /\ Code(c) = 200
              THEN [token EXCEPT ![phone[c]] = answer[c].token] ELSE token
  /\ UNCHANGED <<server, phone, began>>

(* What the completion handlers are told.                                  *)

(* Mutant: only a refusal is an error.                                     *)
ExportError_Refusals(c) == Code(c) \in 400..499
ExportError(c) == Code(c) # 200
TokenWorks(c) == Code(c) = 200

(* The process ends: the static token is gone and nobody waits any more.   *)
(* (The copy of the token in the Keychain is never read.)                  *)
Exit(p) ==
  /\ token' = [token EXCEPT ![p] = NoToken]
  /\ state' = [c \in Call |-> IF phone[c] = p /\ state[c] = "waiting"
                              THEN "silent" ELSE state[c]]
  /\ UNCHANGED <<server, phone, began>>

(* The request or its answer is lost, or takes too long: the handler is    *)
(* not called, ...                                                         *)
NetworkError(c) ==
  /\ state[c] = "waiting" /\ op[c] # "token"
  /\ state' = [state EXCEPT ![c] = "silent"]
  /\ UNCHANGED <<server, token, phone, began>>

(* ... and a log-in ends the app: an Error is no String.                   *)
LoginCrash(c) ==
  /\ state[c] = "waiting" /\ op[c] = "token"
  /\ Exit(phone[c])

(* iOS or the user ends the app, or it unwraps a token it does not have.   *)
Kill(p) == Exit(p)

-----------------------------------------------------------------------------
Make(c, p) ==
  \/ Login(c, p) \/ Signup(c, p) \/ UploadMeasurement(c, p)
  \/ GetMeasurements(c, p) \/ Export(c, p) \/ CheckToken(c, p)

Next ==
  \/ \E c \in Call, p \in Phone : Make(c, p)
  \/ \E c \in Call : Complete(c) \/ NetworkError(c) \/ LoginCrash(c)
  \/ \E p \in Phone : Kill(p)
  \/ \E c \in Call : Handle(c) /\ UNCHANGED client
  \/ \E c \in Call : Die(c) /\ UNCHANGED client
  \/ Tick /\ UNCHANGED client

Spec == Init /\ [][Next]_vars

(* A thread of the server keeps running and its statements time out, an    *)
(* answer arrives unless it is lost, and a broken connection is noticed.   *)
Proceed(c) ==
  /\ state[c] = "waiting"
  /\ \/ Handle(c) /\ UNCHANGED client
     \/ Complete(c)
     \/ pc[c] = "lost" /\ (NetworkError(c) \/ LoginCrash(c))

FairSpec == Spec /\ \A c \in Call : WF_vars(Proceed(c))
-----------------------------------------------------------------------------
(* Correctness.                                                            *)

Token == {NoToken} \cup [user : User, expires : Nat]
Answer == [code : {0, 200, 400, 401, 500}, token : Token, list : SUBSET Nat]
Measurement == [owner : Patient, by : Call \cup {None}]

(* The type of the state of the API and of its clients.                    *)
TypeOK ==
  /\ table \in Seq(Measurement)
  /\ mails \subseteq [by : Call, list : SUBSET Nat]
  /\ clock \in Nat
  /\ pc \in [Call -> {"idle", "answered", "lost"} \cup Handling]
  /\ op \in [Call -> {"token"} \cup AccountOps \cup TacpacOps]
  /\ bearer \in [Call -> Token]
  /\ arg \in [Call -> User \cup {None} \cup Int]
  /\ loaded \in [Call -> SUBSET Nat]
  /\ answer \in [Call -> Answer]
  /\ token \in [Phone -> Token]
  /\ state \in [Call -> {"unused", "waiting", "completed", "silent"}]
  /\ phone \in [Call -> Phone \cup {None}]
  /\ began \in [Call -> Nat]

(* An upload adds its measurement once at most, whatever fails and however *)
(* uploads overlap, and once exactly if its caller is told 200.            *)
UploadsKept ==
  \A c \in Call :
    /\ \A i, j \in 1..Len(table) : table[i].by = c /\ table[j].by = c => i = j
    /\ op[c] = "addMeasurement" /\ state[c] = "completed" /\ Code(c) = 200 =>
         \E i \in 1..Len(table) : table[i].by = c

LoggedIn(p, u) ==
  \E l \in Call : /\ op[l] = "token" /\ phone[l] = p /\ arg[l] = u
                  /\ state[l] = "completed" /\ Code(l) = 200

(* A measurement that is in the table belongs to an account its phone has  *)
(* logged in to, also when another log-in replaces the static token while  *)
(* the upload is under way.                                                *)
ReadingsByTheLoggedIn ==
  \A i \in 1..Len(table) :
    table[i].by # None => LoggedIn(phone[table[i].by], table[i].owner)

Newest(S, n) == {i \in S : Cardinality({j \in S : j > i}) < n}

(* "gets measurement from server": the list a caller is given has the last *)
(* amount measurements of the account of the token, as they were at some   *)
(* moment between the call and its answer; so it has every measurement     *)
(* acknowledged before the call, or that many newer ones.  An amount that  *)
(* is negative or no Int32 gets nothing or everything.                     *)
ListsWereCurrent ==
  \A c \in Call :
    op[c] = "getPastMeasurement" /\ state[c] = "completed" /\ Code(c) = 200 =>
      \E k \in began[c]..Len(table) :
        LET readings == Readings(bearer[c].user, k)
        IN IF arg[c] \in 0..MaxInt
           THEN answer[c].list = Newest(readings, arg[c])
           ELSE answer[c].list \in {{}, readings}

(* "if OK, then no error occured": an export that is reported without an   *)
(* error was mailed, with every measurement the patient had at some moment *)
(* after the call, and no mail has fewer or those of somebody else.        *)
ExportsWereMailed ==
  /\ \A c \in Call :
       op[c] = "sendEmail" /\ state[c] = "completed" /\ ~ExportError(c) =>
         \E m \in mails : m.by = c
  /\ \A m \in mails : \E k \in began[m.by]..Len(table) :
       m.list = Readings(bearer[m.by].user, k)

(* Every call ends: with its completion handler, with a network error or   *)
(* with the app.                                                           *)
CallsEnd == \A c \in Call : state[c] = "waiting" ~> state[c] # "waiting"

(* "function that ensures that the token is still valid": a caller that is *)
(* told that it is not has one that has expired.                           *)
CheckTellsValidity ==
  \A c \in Call :
    op[c] = "checkToken" /\ state[c] = "completed" /\ ~TokenWorks(c) => ~Valid(c)
=============================================================================
