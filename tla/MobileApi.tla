----------------------------- MODULE MobileApi -----------------------------
(***************************************************************************)
(* The web API of the phones: the token endpoint, TacpacController and     *)
(* AccountController.                                                      *)
(*                                                                         *)
(* A request is answered on a thread of its own with database contexts of  *)
(* its own.  A bearer token is an encrypted ticket with its user and the   *)
(* time it expires: the server keeps none of it, and no account changes,   *)
(* because the controller that registers and changes accounts cannot be    *)
(* constructed.  Accounts and their rows in Patients are therefore         *)
(* constants, and the table of measurements only grows.  A step ends at a  *)
(* query, a SaveChanges or the sending of the mail.                        *)
(***************************************************************************)
EXTENDS Integers, Sequences, FiniteSets

CONSTANTS
  User,      \* the accounts (AspNetUsers)
  Patient,   \* the accounts with a row in Patients
  MaxCalls,  \* bound: the requests of a behaviour
  Stored,    \* the owners of the measurements already in the table
  Amount,    \* how many measurements a caller may ask for
  MaxInt,    \* Int32.MaxValue
  Lifetime,  \* of a token: 14 days
  MaxClock,  \* bound: the time a behaviour lasts
  None

(* Requests are numbered in the order in which the client makes them.      *)
Call == 1..MaxCalls

ASSUME ApiAssumption ==
  /\ Patient \subseteq User
  /\ MaxInt \in Nat \ {0}
  /\ Stored \in Seq(Patient) /\ Len(Stored) <= MaxInt
  /\ Amount \subseteq Int
  /\ Lifetime \in Nat /\ MaxClock \in Nat /\ MaxCalls \in Nat
  /\ None \notin User \cup Int

VARIABLES
  table,   \* Measurements by id: the owner and (history) the call that added it
  mails,   \* the e-mails handed to the mail server
  clock,
  pc,      \* where each request is
  op,      \* the endpoint it is for
  bearer,  \* the token it carries
  arg,     \* the account a log-in finds, or an amount
  loaded,  \* the measurements its context has loaded, by id
  answer   \* what it is answered

store == <<table, mails>>
request == <<op, bearer, arg>>
server == <<store, clock, pc, request, loaded, answer>>

NoToken == [user |-> None, expires |-> 0]
NoAnswer == [code |-> 0, token |-> NoToken, list |-> {}]

AccountOps == {"register", "checkToken"}
TacpacOps == {"addMeasurement", "getPastMeasurement", "sendEmail"}
Handling == {"received", "insert", "mail"}

ApiInit ==
  /\ table = [i \in 1..Len(Stored) |-> [owner |-> Stored[i], by |-> None]]
  /\ mails = {} /\ clock = 0
  /\ pc = [c \in Call |-> "idle"]
  /\ op = [c \in Call |-> "token"]
  /\ bearer = [c \in Call |-> NoToken]
  /\ arg = [c \in Call |-> None]
  /\ loaded = [c \in Call |-> {}]
  /\ answer = [c \in Call |-> NoAnswer]

(* The client sends a request.                                             *)
Receive(c, o, token, a) ==
  /\ pc[c] = "idle"
  /\ op' = [op EXCEPT ![c] = o]
  /\ bearer' = [bearer EXCEPT ![c] = token]
  /\ arg' = [arg EXCEPT ![c] = a]
  /\ pc' = [pc EXCEPT ![c] = "received"]
  /\ UNCHANGED <<store, clock, loaded, answer>>

Reply(c, code, token, list) ==
  /\ answer' = [answer EXCEPT ![c] = [code |-> code, token |-> token, list |-> list]]
  /\ pc' = [pc EXCEPT ![c] = "answered"]
  /\ UNCHANGED <<clock, request>>

-----------------------------------------------------------------------------
(* Tokens and accounts.                                                    *)

Ticket(u) == [user |-> u, expires |-> clock + Lifetime]

Valid(c) == bearer[c].user # None /\ clock <= bearer[c].expires

(* FindAsync finds the account of the name and the password.               *)
Grant(c) ==
  /\ pc[c] = "received" /\ op[c] = "token" /\ arg[c] # None
  /\ Reply(c, 200, Ticket(arg[c]), {})
  /\ UNCHANGED <<store, loaded>>

Refuse(c) ==
  /\ pc[c] = "received" /\ op[c] = "token" /\ arg[c] = None
  /\ Reply(c, 400, NoToken, {})
  /\ UNCHANGED <<store, loaded>>

(* No constructor of AccountController is one the framework can call.      *)
AccountRoute(c) ==
  /\ pc[c] = "received" /\ op[c] \in AccountOps
  /\ Reply(c, 500, NoToken, {})
  /\ UNCHANGED <<store, loaded>>

(* [Authorize]: no token, or one that has expired.                         *)
Deny(c) ==
  /\ pc[c] = "received" /\ op[c] \in TacpacOps /\ ~Valid(c)
  /\ Reply(c, 401, NoToken, {})
  /\ UNCHANGED <<store, loaded>>

-----------------------------------------------------------------------------
(* The last n measurements.  Ids are handed out in the order of insertion  *)
(* and a list is in the order of the ids, so a list is the set of its ids. *)

(* C# subtracts modulo 2^32; one turn is all two Int32 can be off.         *)
Int32(n) ==
  IF n > MaxInt THEN n - 2 * (MaxInt + 1)
  ELSE IF n < -MaxInt - 1 THEN n + 2 * (MaxInt + 1)
  ELSE n

(* A number that is no Int32 does not bind and leaves the default, 0.      *)
Bound(a) == IF a \in (-MaxInt - 1)..MaxInt THEN a ELSE 0

Skip(S, k) == {i \in S : Cardinality({j \in S : j < i}) >= k}

(* Mutant: Take where the code has Skip.                                   *)
LastOf_Take(S, amount) ==
  {i \in S : Cardinality({j \in S : j < i}) < amount}

(* Skip(Math.Max(0, Count - amount))                                       *)
LastOf(S, amount) ==
  LET d == Int32(Cardinality(S) - amount)
  IN Skip(S, IF d > 0 THEN d ELSE 0)

Readings(u, k) == {i \in 1..k : table[i].owner = u}

-----------------------------------------------------------------------------
(* TacpacController.                                                       *)

Owner(c) == bearer[c].user

Authorized(c) == op[c] \in TacpacOps /\ Valid(c)

(* Mutant: a row of Patients is taken for granted.                         *)
Found_Always(c) == Authorized(c)

(* Patients.Find returns null for an account without a row: the handler    *)
(* then throws.                                                            *)
Found(c) == Authorized(c) /\ Owner(c) \in Patient

(* addMeasurement and sendEmail load the measurements of the patient.      *)
Load(c) ==
  /\ pc[c] = "received" /\ Found(c)
  /\ op[c] # "getPastMeasurement"
  /\ loaded' = [loaded EXCEPT ![c] = Readings(Owner(c), Len(table))]
  /\ pc' = [pc EXCEPT ![c] = IF op[c] = "sendEmail" THEN "mail" ELSE "insert"]
  /\ UNCHANGED <<store, clock, request, answer>>

Past(c) ==
  LET readings == Readings(Owner(c), Len(table))
  IN /\ pc[c] = "received" /\ Found(c)
     /\ op[c] = "getPastMeasurement"
     /\ loaded' = [loaded EXCEPT ![c] = readings]
     /\ Reply(c, 200, NoToken, LastOf(readings, Bound(arg[c])))
     /\ UNCHANGED store

(* Mutant: whoever is first in Patients.                                   *)
NewRow_First(c) == [owner |-> CHOOSE p \in Patient : TRUE, by |-> c]
NewRow(c) == [owner |-> Owner(c), by |-> c]

(* SaveChanges inserts the one entity that was added, whatever else the    *)
(* collection has; the id is an Int32.                                     *)
Insert(c) ==
  /\ pc[c] = "insert" /\ Len(table) < MaxInt
  /\ table' = Append(table, NewRow(c))
  /\ Reply(c, 200, NoToken, {})
  /\ UNCHANGED <<mails, loaded>>

Letter(c) == [by |-> c, list |-> loaded[c]]

Mail(c) ==
  /\ pc[c] = "mail"
  /\ mails' = mails \cup {Letter(c)}
  /\ Reply(c, 200, NoToken, {})
  /\ UNCHANGED <<table, loaded>>

(* The row may be there after an error of SaveChanges.                     *)
MayInsert(c) ==
  \/ UNCHANGED table
  \/ Len(table) < MaxInt /\ table' = Append(table, NewRow(c))

(* Mutant: SaveChanges is attempted until it succeeds, also when the ids   *)
(* have run out.                                                           *)
InsertThrows_Retries(c) ==
  /\ pc[c] = "insert"
  /\ MayInsert(c)
  /\ UNCHANGED <<mails, clock, pc, request, loaded, answer>>

InsertThrows(c) ==
  /\ pc[c] = "insert"
  /\ MayInsert(c)
  /\ Reply(c, 500, NoToken, {})
  /\ UNCHANGED <<mails, loaded>>

MailThrows(c) ==
  /\ pc[c] = "mail"
  /\ mails' \in {mails, mails \cup {Letter(c)}}
  /\ Reply(c, 500, NoToken, {})
  /\ UNCHANGED <<table, loaded>>

(* An error before: of the database, of an account that is no patient, of  *)
(* an address that does not parse.                                         *)
Throw(c) ==
  /\ pc[c] = "received"
  /\ op[c] = "token" \/ Authorized(c)
  /\ Reply(c, 500, NoToken, {})
  /\ UNCHANGED <<store, loaded>>

-----------------------------------------------------------------------------
(* The connection breaks or the application pool is recycled: there will   *)
(* be no answer.                                                           *)
Die(c) ==
  /\ pc[c] \in Handling
  /\ pc' = [pc EXCEPT ![c] = "lost"]
  /\ UNCHANGED <<store, clock, request, loaded, answer>>

Tick ==
  /\ clock < MaxClock
  /\ clock' = clock + 1
  /\ UNCHANGED <<store, pc, request, loaded, answer>>

Handle(c) ==
  \/ Grant(c) \/ Refuse(c) \/ AccountRoute(c) \/ Deny(c)
  \/ Load(c) \/ Past(c) \/ Insert(c) \/ Mail(c)
  \/ InsertThrows(c) \/ MailThrows(c) \/ Throw(c)
=============================================================================
