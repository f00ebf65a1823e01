# TLA+ models of TacPac

TacPac lets patients record the concentrations they measure with a phone.
The repository holds an iOS app, two ASP.NET applications and, inside one of
them, a GroupMe bot that keeps the points of a student group. This directory
models the parts that keep state and meet concurrency, failures or late
answers, model-checks them with TLC on small instances, and proves theorems
about them with TLAPS for every value of the constants.

Paths below are relative to `src/`. Abbreviations:
`app/` = `TacPac/TacPac/`, `api/` = `TacPac WebApp/TacPac WebApp/`,
`site/` = `Tacpac webapplication/Tacpac webapplication/`.

## 1. The system

| part | code | state | operations | interacts with |
|---|---|---|---|---|
| GroupMe webhook | `api/Controllers/GroupmeController.cs`, `api/Models/Groupme*.cs`, `ConsoleModel.cs`, `IdentityModels.cs` (`GroupmeDbContext`) | the `Phikeia` table, the static log, one database context per call | `msg` (register, award, list, fixed reply), `sendMsg`, `Index` | GroupMe calls `msg` and takes the replies; replies come back as calls; MySQL |
| iOS app: session and Firebase access | `app/FirebaseHelper.swift`, `AppDelegate.swift`, `LoginViewController.swift`, `SignupViewController.swift`, `TempViewController.swift` | static `user`, root screen, requests and writes under way | log in, sign up, log out, launch | Firebase Auth and Database, by callbacks |
| iOS app: readings and history | `app/MeasurementScreenController.swift`, `HistoryViewController.swift` | the table of the current screen | save a reading, load the history | Firebase Database |
| iOS app: export and API client | `app/ExportViewController.swift`, `TacPacServer.swift` | static `token` | export; log in, sign up, send and load measurements, check the token | the mobile web API over HTTPS |
| iOS app: tab bar, text fields | `app/CustomTab*.swift`, `UnderlinedTextField.swift` | the selected index | layout, animation | UIKit |
| Mobile web API: accounts | `api/Controllers/AccountController.cs`, `Providers/`, `App_Start/Startup.Auth.cs` | users, patients, bearer tokens | `/Token`, register, check a token, ... | the API client |
| Mobile web API: measurements | `api/Controllers/TacpacController.cs` | measurements of a patient | add, the last n, send an e-mail | the API client |
| Web site: accounts | `site/Controllers/AccountController.cs`, `ManageController.cs`, `site/App_Start/` | user rows, session cookies | register, log in, change password, settings, log off | browsers; ASP.NET Identity |
| Start-up, routing, static pages; generated help pages; empty test templates; vendored libraries | `Global.asax.cs`, `Areas/HelpPage`, `TacPacTests`, `Pods`, `packages` | none of their own | | |

Hard behaviours and what would make each part correct:

* **Webhook.** Calls of `msg` overlap. Each loads rows, changes them in memory,
  posts the reply with a blocking HTTP request and saves last, absolute values
  and no version check. A failed post or save drops everything loaded. The
  log is a `List` nobody locks. The bot's replies are messages too. Correct
  means: what is saved was announced; only mentioned members change; rows of
  one member do not drift apart; a call that no other call overtakes acts as a
  ledger, and points are lost nowhere else; when the bot can talk to itself for
  ever is known; every call ends.
* **App.** Answers of Firebase Auth come in any order and at any time, after a
  log-out or another log-in as well, and each replaces the static user and the
  root screen. Writes are not awaited. A sign-up is a query, an account and
  two writes. The process may be killed at any point. Correct means: readings
  are filed and shown under the right patient; no start screen lacks a user;
  no write is lost but with the process; a new account gets the right profile
  and physician; a saved reading is shown.
* **Site.** The tabs of a browser share a cookie, which is believed without a
  look at the account for half an hour; requests and their answers overlap.
  Correct means: after a change of password other sessions end; one
  registration of an e-mail wins; a change is made with the current password.
* **Mobile API and its client.** Calls are not awaited and share a static
  token that a log-in replaces; answers are lost, and the work may be done all
  the same; tokens expire; accounts and patients are separate rows; the last-n
  query has boundaries; the controller for accounts cannot be constructed.
  Correct means: an upload adds one measurement, once, under an account its
  phone logged in to; a list or a mail has what the patient had at one moment
  of the call; an export without an error was mailed; every call ends; the
  check of a token says whether it is valid.

`PROJECT.json` has the components, the hazards with their lines, and the lines
of source each definition stands for.

## 2. Modules

| module | what it is |
|---|---|
| `GroupmeBot` | the webhook: one action per step of `msg` |
| `GroupmeOvertakes` | `GroupmeBot` with history variables: which call was overtaken at which row, which calls have saved |
| `PointsLedger` | abstract specification: a list of members and points on which every message acts at once |
| `MCGroupmeBot` | instances of `GroupmeBot`: messages, nicknames, seed rows |
| `MCGroupmeOvertakes` | instances of `GroupmeOvertakes`, with the same messages |
| `GroupmeBotProofs` | theorems about `GroupmeBot` |
| `GroupmeAnnounceProofs` | what `GroupmeBot` saves was announced first |
| `GroupmeLedgerProofs` | a call nobody overtook acts on the ledger as if alone, and points are lost only where a call was overtaken |
| `PatientApp` | the iOS app on top of Firebase: screens, user, requests, writes |
| `PatientRecords` | abstract specification of the data of the patients |
| `MCPatientApp` | instances of `PatientApp`: forms and physicians |
| `PatientAppProofs` | theorems about `PatientApp` |
| `PatientRecordsProofs` | `PatientApp` implements `PatientRecords` |
| `PatientSignupProofs` | a sign-up of `PatientApp` is carried through |
| `WebAccounts` | requests, cookies and accounts of the web site |
| `MCWebAccounts` | instances of `WebAccounts`: sets of forms |
| `WebAccountsProofs` | theorems about `WebAccounts` |
| `MobileApi` | the server behind the phones: token endpoint, measurements, accounts |
| `ApiClient` | `TacPacServer`, the client, composed with `MobileApi` |
| `MCApiClient` | instances of `ApiClient`: stored measurements, amounts |
| `ApiClientProofs` | theorems about `ApiClient` |

With one call at a time `GroupmeBot` implements `PointsLedger`, and `PatientApp`
implements `PatientRecords`, each through an `INSTANCE` with a refinement mapping. The
bot, the app on Firebase, the web site and the mobile API share no state (they
use different databases), so no module composes them; the mobile API and its
client do, and `ApiClient` extends `MobileApi` for that.

### GroupmeBot

A delivery is one execution of `msg`. A step ends where another call can come
in: a query, an HTTP request, `SaveChanges`, a read or a write of the static
log. The code runs on MySQL/InnoDB (`api/Web.config` 24-25), so a single query
and a `SaveChanges` are atomic.

| state | code |
|---|---|
| `rows` | the `Phikeia` table; index = primary key; rows are never deleted. `by` (history) names the call that inserted it |
| `seen`, `cur` | the tracked rows of a call's context, as loaded and as changed in memory |
| `added` | the rows it has added and not saved |
| `lines`, `line` | the reply under construction; the position of the loops over the mentions |
| `log`, `size` | the size of the static log; what a call read of it (`List.Add` is a load and a store) |
| `chat`, `echoed` | replies posted; replies handed back to `msg` |

`LogLoad`, `LogStore`, `LogThrows` are the unlocked `Add` at the top of `msg`;
`Register*`, `Merit*`, `Score*`, `Andre` its four blocks in their order;
`Post`/`PostFails` `sendMsg`; `Save`/`SaveFails` `SaveChanges`; `Restart` the
recycling of the application pool. `Echo` is GroupMe calling `msg` with a reply
of the bot. A text is the set of the substrings `msg` searches for; a nickname
is one too, because the replies repeat it: with the "@" of the mention in a merit
reply (`MeritText`), and as it is stored, without that "@", in the other two
(`NickText`, `RegisteredText`; lines 110, 163, 191). So a nickname that begins with
"bot" spells "@bot" in a merit reply only, and one with an "@bot" of its own
does so everywhere. A message may have a mentions attachment that names nobody
(`blank`): it is tagged, its loops run zero times, and an empty text is posted
(`RegisterNobody`, `MeritNobody`).

`GroupmeOvertakes` adds two history variables and no behaviour. A call is
`Holding` from the query of the first mention it awards to its `SaveChanges`.
When another call saves a row of one of its members in that time, the pair of
the call and the row goes into `overtaken`: that row's value in memory is stale
from then on, or, if the row is new and the loop is past the member, the row
will miss its point. `saved` has the calls whose `SaveChanges` has written.

### PatientApp

Each phone has a screen, `FirebaseHelper.user`, the unanswered requests to
Firebase Auth (`auth`) and the database operations not sent yet (`outbox`).
Auth requests are independent HTTPS calls and are answered in any order;
database operations go over one connection in the order in which they were
issued, so the answer of one is handled before the next is sent. `Root`
replaces the root screen, after which the answers of the queries of the screen
that is gone change nothing one can see. `Kill` and the crashes lose `user`,
`auth` and `outbox` (persistence is off). `patient`, and `by` and `on` of a
reading, are history. The uid of an account is its e-mail. The
screens of the second tab hold no state and count as a plain screen. Of the
API client only the export is in this module: it is the only call the app still
makes, and it unwraps a token that nothing sets. `ApiClient` has the rest.

### WebAccounts

A request is sent with the cookie its browser has (`Send`), is authenticated by
the cookie middleware (`Anonymous`, `Believed`, `Validated`, `Rejected`), is
handled by a controller, and its answer may set the cookie (`Respond`).

| state | code |
|---|---|
| `users` | `AspNetUsers`: password and security stamp; stamps are numbered in the order in which they are made |
| `entity` | the row tracked by the context of the request: later queries return it as it was loaded |
| `sets`, `ticket` | the sign-in or sign-out pending in the OWIN context |
| `jar`, `cookie` | the cookie of the browser; the one the request carries |
| `retired` | history: stamps that were replaced, and when |

`Login`, `Register`/`Insert`, `Change`/`Save`, `LogOff` are the actions of the
two controllers; a `CreateAsync` and a `ChangePasswordAsync` are two database
operations each, a check and a write. `Settings`/`Save` stands for the
endpoints that store a setting and a new stamp (two-factor, phone number,
external log-in); no page posts them at present. `Show` is every answer that
changes nothing.
ASP.NET Identity and the OWIN cookie middleware are libraries: they are
modelled from the way the code configures and calls them. The unique index on
the user name comes with their schema.

### MobileApi and ApiClient

Every request runs on a thread of its own with contexts of its own; a step ends
at a query, a `SaveChanges` or the sending of the mail.

| state | code |
|---|---|
| `table` | `Measurements`: the index is the id; `by` (history) is the call that added the row, `None` for those that were there |
| `mails` | what the mail server has taken |
| `pc`, `op`, `bearer`, `arg` | each request: where it is, its route, its token, and its argument: an amount, or the account `FindAsync` finds for the name and password |
| `loaded` | the measurements its context has loaded |
| `answer` | status code, token and list |
| `token` | `TacPacServer.token` of a phone |
| `state`, `phone` | each call: waiting, completed, or `silent`, when its completion handler will never be called |
| `began` | history: the length of the table when the call was made |

`Grant`/`Refuse` are `GrantResourceOwnerCredentials`; `AccountRoute` is every
action of `AccountController`; `Deny` is `[Authorize]`; `Load` then
`Insert`/`InsertThrows` is `addMeasurement`, `Past` is `getPastMeasurement`,
`Load` then `Mail`/`MailThrows` is `sendEmail`; `Throw` is an exception before
the effect. An error of `SaveChanges` or of `Send` may come before or after the
effect. `Die` is a request that is never answered. On the phone, `Login`,
`Signup`, `UploadMeasurement`, `GetMeasurements`, `Export` and `CheckToken` are
the functions of the class, `Complete` the answer, `NetworkError` the guard that
returns without calling the handler, `LoginCrash` the cast of an `Error` to a
`String`, and `Kill` the end of the app, also by `self.token!`.

Accounts and patients are constants, because nothing can register: `Register` is
an action of `AccountController`. A ticket is its user and the time it expires;
the server keeps none. The cookie the token endpoint sets as well is of no use
to a route that takes bearer tokens only, and the copy of the token in the
Keychain is never read. A list is in the order of the ids, which is how the rows
of a patient come back, so it is the set of its ids. `Int32` subtracts modulo
`2 * (MaxInt + 1)`, and an amount that is no Int32 does not bind and stays 0.

## 3. What TLC checks

| run | size | what it asks |
|---|---|---|
| `bot_concurrent` | 3 calls, 2 at once; two rows of one member; 690 000 states | type, the loops inside their mentions (`TypeOK`); no row has more points than lines announced (`PointsWereAnnounced`); two rows of a member that were inserted together agree (`TwinRowsAgree`); only mentioned members change (`BystandersKeepPoints`); what is saved was announced first (`AnnouncedBeforeSaved`); a save of a call nobody overtook is its message's effect on the ledger (`SavesTakeEffect`); a row has the points its saved calls announced, unless one of them was overtaken at it (`PointsLostOnlyIfOvertaken`) |
| `bot_serial` | 4 calls, one at a time, replies fed back, nicknames with every word of interest; 500 000 states | the table implements `PointsLedger` (`LedgerKept`); a chain of the bot's answers to itself is at most three long, unless the names in the table spell "@bot" and "score" (`ReplyChainEnds`) |
| `bot_ends` | 2 calls, fairness; 11 000 states | every call ends (`EveryDeliveryEnds`) |
| `bot_lost_update` | 2 calls | **violated**: announced points add up when all calls have ended well |
| `app_signup` | 2 phones, 2 forms for one e-mail; 41 000 states | type; a user on every start screen; the data implement `PatientRecords`; a sign-up is carried through |
| `app_readings` | 1 phone, 2 patients, 2 requests and 3 operations waiting, fairness; 160 000 states | readings filed and shown under the right patient; writes survive; `PatientRecords`; a saved reading is shown |
| `app_page` | pages of 2, 3 readings | **violated**: the history shows the latest reading |
| `app_export` | 1 phone | **violated**: Send sends |
| `web_sessions` | 2 browsers, 2 requests at once, 5 forms, 2 stamps, 2 ticks; 966 000 states | type; sessions handed out were good; old sessions end; an e-mail is registered once |
| `web_stale_change` | 2 requests | **violated**: a change is made with the current password |
| `api_calls` | 1 phone, 3 calls, 3 accounts of which 2 are patients, 2 stored measurements, `MaxInt` 4, amounts 1 and -5, fairness; 390 000 states | type; an upload adds once, and does if it is acknowledged (`UploadsKept`); under an account the phone logged in to (`ReadingsByTheLoggedIn`); lists are the last n at one moment of the call (`ListsWereCurrent`); exports without an error were mailed (`ExportsWereMailed`); every call ends (`CallsEnd`) |
| `api_check` | 1 phone | **violated**: the check of a token tells whether it is valid |

The bounds are the smallest at which the interesting cases happen, and for each
property a plausible bug in the code was tried and found within them
(`PROJECT.json`, "mutants"; the mutated definitions stand beside the originals
and no action uses them). Two calls at once are all a race on a row needs,
and the third follows up on what they left. A chain of replies needs one call
for each, hence four: a message, a reply that asks for the scores, the list, and
a reminder or the fixed reply. One of the two nicknames begins with "bot" and
has "score"; the other has an "@bot" of its own and is in the table only when a
message registers it, so the run has states on both sides of the exception in
`ReplyChainEnds`. Two sign-ups for one e-mail, or two log-ins of
different patients, are the collisions the app can have; `MaxRequests`,
`MaxQueue` and `MaxReadings` are guards of the taps that start something, so
answers are never held back. A page of 2 readings with 3 saved stands for 10
and 11. Three calls of the API are a log-in and two calls that overlap, of which one
may be another log-in; the amount -5 is the one at which the difference wraps
for `MaxInt` = 4, and a token lives no tick, so it expires at the first. In
`web_sessions` the clock goes far enough for a cookie to be handed
out late, grow old and be used after the account has changed; `MaxStamps` and
`MaxClock` are guards of the writes and of time, and the proofs hold for all
their values. Actions that are not in one run of a module are in another.

Two configurations have a `VIEW`, which takes states that behave alike for one:
`Alive` leaves out, with one call at a time, the size of the log and what a call
that has ended still had in memory, which nobody reads again; `Live` keeps of a
request only what its handling can still use.

Deadlock is checked in the bot's and the app's runs, where a step is
always possible (`Restart`, taps). In `WebAccounts` the last stamp can be given out
and time be over with nothing left to do, so those runs say
`CHECK_DEADLOCK FALSE`. Symmetry is used for calls, phones, requests and
browsers, over which every definition quantifies alike, and never in a run
with a liveness property (nor for calls of the API, which are numbered in the
order in which they are made).

### Fairness

`GroupmeBot!FairSpec` has weak fairness of `Step(d)`: a thread that runs keeps
running, and a blocking request or statement returns or times out (the web
request and the database command have default time limits). Nothing is assumed
of the people who type or of `Restart`. `PatientApp!FairSpec` has weak fairness
of `Serve(d)`: the Firebase client reconnects and sends what it has in order.
Nothing is assumed of taps, of Auth or of kills. `ApiClient!FairSpec` has weak
fairness of `Proceed(c)`: a thread of the server keeps running and its queries
and `Send` time out; an answer arrives, and if there will be none, the client
notices (`URLSession` gives up after a minute). It is not assumed that an
answer is not lost.

## 4. What TLAPS proves

All theorems are for every value of the constants under the named assumptions
in the modules (`BotAssumption`, `AppAssumption`, `WebAssumption`, `ApiAssumption`,
`ClientAssumption`), which only
give the constants their types and require a bound where the code has one.

| theorem | statement | argument |
|---|---|---|
| `GroupmeBotProofs!TypeCorrect` | `[]TypeOK` | `Typed` and `LineOK` (the loops stay inside their mentions); one lemma for each action |
| `GroupmeBotProofs!ChainsEnd` | `[]ReplyChainEnds` | `ChainInv`: the first reply may say anything a nickname says; a reply that is fed back mentions nobody, so the reply to it is the list of scores or a fixed phrase, and that asks for the scores again only if the names in the table do; the reply to that one has nothing `msg` looks for |
| `GroupmeBotProofs!BystandersKept` | `BystandersKeepPoints` | `ContextInv`: a context tracks a prefix of the table, and the rows it has changed belong to members its message mentions; the table only grows |
| `GroupmeBotProofs!TwinsAgree` | `[]TwinRowsAgree` | `TwinInv`: two rows of a member inserted together are equal in the table and in every context, and are loaded, awarded and written together |
| `GroupmeBotProofs!PointsAnnounced` | `[]PointsWereAnnounced` | `AwardInv`, see below |
| `GroupmeAnnounceProofs!AnnouncedFirst` | `AnnouncedBeforeSaved` | `ToldInv`, see below |
| `GroupmeLedgerProofs!SavesTakeEffectAlways` | `SavesTakeEffect`, of `HSpec` | `HeldInv`, see below |
| `GroupmeLedgerProofs!PointsLostOnlyWhereOvertaken` | `[]PointsLostOnlyIfOvertaken`, of `HSpec` | `SumInv`, see below |
| `PatientAppProofs!AppTypeCorrect` | `[]TypeOK` | part of `AppInv` |
| `PatientAppProofs!UserKnown` | `[]UserKnownOnStart` | `AppInv`: the user of a phone is the patient who opened the screen |
| `PatientAppProofs!ReadingsFiled` | `[]ReadingsUnderOwner` | the same: what waits in the outbox was filed under who typed it |
| `PatientAppProofs!HistoryPrivate` | `[]ShownBelongToOwner` | the same: every query that still counts asks for the patient of the screen |
| `PatientAppProofs!WritesAreKept` | `WritesSurvive` | a screen that goes turns questions, never writes, into stale ones; the rest only appends, or sends the oldest operation |
| `PatientRecordsProofs!RecordsAreKept` | `RecordsKept` | `RecordsInv`, see below |
| `PatientSignupProofs!SignupsCarryThrough` | `SignupCarriesThrough` | `CarryInv`, see below |
| `WebAccountsProofs!WebTypeCorrect` | `[]TypeOK` | part of `WebInv` |
| `WebAccountsProofs!SessionsGood` | `[]SessionsWereGood` | `WebInv`, see below |
| `WebAccountsProofs!SessionsEnd` | `OldSessionsEnd` | `WebInv`, see below |
| `WebAccountsProofs!NamesUnique` | `RegisteredOnce` | an insert needs a name without a row; any other write is its owner's change |
| `ApiClientProofs!LastIsNewest` | `Skip(Max(0, Count - amount))` on Int32 numbers is the newest, or nothing or everything | counting: an element has Count - amount elements before it exactly if it has fewer than amount after it (`Around`) |
| `ApiClientProofs!TypeCorrect` | `[]TypeOK` | `ApiInv`: a handler gets past its query only for a patient |
| `ApiClientProofs!UploadsAreKept` | `[]UploadsKept` | `ApiInv`, see below |
| `ApiClientProofs!ReadingsAreOwned` | `[]ReadingsByTheLoggedIn` | the same: a call bears a token of a log-in of its phone |
| `ApiClientProofs!ListsAreCurrent` | `[]ListsWereCurrent` | the same, with `LastIsNewest` |
| `ApiClientProofs!ExportsAreMailed` | `[]ExportsWereMailed` | the same |

`PointsWereAnnounced` compares a row with the whole chat, but a row is written
from the memory of one call, which loaded it at another time. `AwardInv` bounds
both: what is in the table is within the announced lines (`RowsAwarded`), and
what a call holds in memory is within the announced lines and the lines the call
has written and not yet posted (`CallAward`). Posting moves lines from the second
count to the first, and a call posts its merit reply once (`PostedOnce`), so no
line counts twice. A save may write old values back; those were within fewer
lines, and the announced lines only become more (`GivenGrows`).

`AnnouncedBeforeSaved` looks at the step of a save, but what makes it true
happened at the posts before. `ToldInv` follows it from the loop on: while a
call is in the merit loop, its lines end with the total of the last row of every
member it has changed (`Told`), and from the post on one of its replies in the
chat does; rows wait to be inserted only if "Registered!" is posted
(`CallEntered`). The loop would break `Told` if a second mention could undo the
change of the first, because that row would then be announced and not written; a
message awards or takes, never both, so its changes go one way (`Signed`).

With overlapping calls the table is no ledger and announced points get lost
(`bot_lost_update`). The two theorems of `GroupmeLedgerProofs` say where the
harm ends, for any number of workers and of calls: at the calls, and the rows,
that were overtaken. `HeldInv` says what a call has in memory for the rows at
which nobody has overtaken it: as loaded, what the table still has; as changed,
`Gain` more, counted over the mentions the loop has passed (`RowHeld`). A row
another call has inserted meanwhile counts as overtaken if it is of a mentioned
member. The rows the call will insert are the mentions that register, in their
order (`EnteredRight`). So when a call saves that nobody overtook, every
mention has been passed, each row of a mentioned member gets its gain, every
other row is left alone, and the step is `Handle` of the message. The ledger
counts over sets of mentions where the code loops over a list: `TimesStep` and
`EnteredStep` are one turn of either loop, and `RanksDiffer` makes the i-th mention that
registers unique.

`SumInv` follows the points announced to the points saved, for the rows that
were there from the start (`Old`). The lines a call has written and not posted
are worth what its mentions so far award (`DueRight`), because a member with a
row gets a line with a total at each mention; from the post to the save, so are
its lines in the chat (`PaidRight`); and at a row where no call that saved was
overtaken, the points are those of the lines of the calls that saved
(`RowRight`). A save moves its call's lines into that sum and, by `HeldInv`,
adds as much to the row. A call that fails after its reply is out leaves lines
nobody saved, which is why the sum is over `saved`.

`RecordsKept` is a refinement: the four Firebase variables of `PatientApp` are
those of `PatientRecords`, `CreateUser`, `StoreProfile`, `StoreLink` and
`StoreReading` are `Create`, `Describe`, `Assign` and `Store`, and every other
action stutters. What an abstract step requires of the data was true when the
phone made the request, much earlier. `RecordsInv` says what a waiting request
or write still means. `Means`: an answered `createUser` and a waiting profile
are of an account without profile and physician; a waiting physician is of one
without physician, whose profile with the code is stored or waits before it
(`Suits`); a waiting reading is not stored. `Shape`: a phone signs a patient up
once, be it as a request or as writes, and its readings wait in the order of
their keys. No two phones sign up the same patient (`Busy`): the account was new
to Firebase when one of them made it. So a step disturbs only what its own phone
says (`RecordsStep`).

`SignupCarriesThrough` needs more than `RecordsInv`: that a waiting profile has
its physician waiting too (`Paired`), that every physician stored is of a
patient with a profile, and that a phone that is off has nothing under way
(`Off`). By `WritesAreKept` the physician of a waiting profile stays or arrives,
and it cannot have arrived, because the patient of a waiting profile has none
yet.

`SessionsWereGood` and `OldSessionsEnd` are not inductive: a row that was
loaded long ago can become a ticket, and a ticket a cookie. `WebInv` follows a
replaced stamp through all the places it can still be. `Distinct`: stamps are
given out once and a replaced one is in no row. `Loads` and
`SessionsWereGood`: a row tracked, or a ticket made, by a request has a
replaced stamp only if the request was sent before the replacement. `Timely`:
no request is older than `MaxDuration`. `Cookies`: hence a cookie with a
replaced stamp was issued at most `MaxDuration` after the replacement, and an
old one no longer matches. `Known` says that cookies name accounts that exist,
so that a replaced stamp is never the stamp of "no row".

What the properties of the API say of completed calls, `ApiInv` says of every
stage of a call. `Rows`: a row is added only by the handler of an upload that
is then over, so none can add two. `Handled`: past its query, a handler has the
owner it found and the readings of one moment since the call began. `Answered`:
what an answer of 200 says is so. `Tokens` and `Begun`: a token, on the phone or
in a request, is of a log-in that has succeeded. Nothing of this is lost when
another call moves, because the table and the mails only grow (`Frame`); and
all handlers that reply do so by one lemma (`ReplyStep`).

Only model-checked: liveness (`EveryDeliveryEnds`, `SavedReadingIsShown`,
`CallsEnd`), which TLAPS cannot prove under fairness, and `LedgerKept`, the
refinement of `PointsLedger` when one call runs at a time: nothing in the code
or in ASP.NET makes calls wait for each other, so what is proved is
`SavesTakeEffect`, which assumes no such thing. Every other property that holds is
the statement of a theorem.

## 5. What the code does not do

Five runs end in a violation of what a comment, a label or a reply of the code
says:

* `bot_lost_update`: the group is told two new totals, and one of the two points is
  lost, because overlapping calls save absolute values
  (`GroupmeController.cs:196`).
* `app_page`: the history asks for the *first* ten readings, so from the
  eleventh on a saved reading never appears (`FirebaseHelper.swift:92`,
  against `HistoryViewController.swift:110`).
* `app_export`: Send ends the app, because nothing sets the token
  (`TacPacServer.swift:199`, against `:153`).
* `web_stale_change`: two overlapping changes of password both succeed, the
  second with a password that is not current (`ManageController.cs:233`,
  against `ManageViewModels.cs:46`).
* `api_check`: `checkToken` says that a token granted a moment ago does not
  work, because its controller cannot be constructed and answers 500
  (`AccountController.cs:29`, against `TacPacServer.swift:170`).

## 6. Assumptions and what is left out

* **GroupMe** calls `msg` once for each message and does not repeat calls that fail.
  Points are integers; the 32-bit wrap is out of any group's reach and is not
  modelled. `Index` only reads the log. A member's nickname does not change, so
  the new `Name` an award stores is the old one. GroupMe refuses an empty text
  (`PostFails`); the model lets it through as well. When the names in the table
  spell "@bot" and "score", one question for the scores makes the bot answer
  itself without end. No comment or test of the repository says that it does
  not, so this is no finding of section 5, but the exception in
  `ReplyChainEnds`: beside it the theorem shows there is no other way.
* **Firebase.** The rules of the database are not in the repository: writes are
  taken to be accepted. A query sees the writes of its own client. What the
  history draws of a page, and in which order, is not modelled.
* **Site.** There is no external provider, and the e-mail and SMS services
  send nothing, so external log-in, phone verification, e-mail codes and
  password reset cannot be completed and change no state. Lockout is off for
  log-ins (`shouldLockout: false`). That a request has a limit
  (`MaxDuration`) is an assumption about the server and the connection. In a
  request that renews its cookie and then signs in, the cookie middleware adds
  the new identity to the pending grant and makes the cookie of the first, so
  the browser keeps the renewed session (`SignIn` leaves a pending `ticket`);
  a log-off takes the pending identities back.
* **Mobile API.** The framework is taken at its defaults: `[FromBody]` values
  that do not parse leave the default, no dependency resolver is registered
  (`Global.asax.cs`, `WebApiConfig.cs`), IIS collapses the double slash of
  `urlBase + "/token"`. Of the functions of the client only `export` has a
  caller left in the app; the class is modelled as it is there to be called.
  What a measurement says (concentration, time) is passed on and not modelled.
  The index of a row is its id, and rows are added in the order in which they
  are committed. A database gives ids out before the commit, so of two inserts
  that overlap the second to commit may have the lower id, and which of the two
  is the newer one for the last-n query is then the other way round than in the
  model.
* **Not modelled:** the tab bar and text fields (layout; the selected index is
  all the state), start-up and routing, static pages, generated help pages,
  empty test templates, vendored libraries. All
  JavaScript in the repository is vendored (jQuery, Bootstrap, Modernizr,
  Respond and their copies under `obj/` and `packages/`): none of it is the
  program's own, and none is modelled.

## 7. Plan

1. *Done:* webhook, its ledger, its proofs.
2. *Done:* app, its records, its proofs.
3. *Done:* sessions and accounts of the web site, with their proofs.
4. *Done:* the mobile API with its client, and their proofs, the last-n query
   among them.
5. *Done:* the refinement of the records, the sign-ups that are carried through
   and the bound on the points, proved.
6. *Done:* what the webhook saves was announced (`AnnouncedBeforeSaved`);
   whatever overlaps, a call nobody overtook acts as a ledger, and points are
   lost only where a call was overtaken (`GroupmeOvertakes`).
7. Left: nothing that TLAPS can reach, except `LedgerKept` for one worker,
   which `SavesTakeEffect` makes a special case (with one worker nobody overtakes
   anybody).
