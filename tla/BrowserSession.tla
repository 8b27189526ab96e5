---------------------------- MODULE BrowserSession ----------------------------
(* Sessions of a browser.  The web server checks a request and signs it for   *)
(* the API, which looks the session up in its own transaction and dispatches; *)
(* memberships change, sessions are revoked, and what was signed may arrive   *)
(* late or twice.  The login, the web server, the administration and each     *)
(* process of the API read a clock of their own.                              *)
EXTENDS Naturals, Sequences

CONSTANTS
  Missing,
  Token,        \* the random tokens that are ever drawn
  Ingress,      \* processes of the API, with a request at a time
  Lifetime,     \* ttlSeconds
  Window,       \* the seconds for which a signed request is taken
  Allowance,    \* what the rate limiter lets through
  MaxSkew,      \* bound: how far one clock may be ahead of another
  MaxRevision,  \* bound: how often the membership changes
  MaxTime       \* bound on the clock

VARIABLES
  clock,        \* of the slowest
  ahead,        \* how far each clock is ahead of it
  membership,   \* the row: revision, active, expires
  login,        \* what a login has read before it issues a session
  rows,         \* the rows of sessions, by the hash of their token
  browser,      \* the tokens the browser holds, with their CSRF token
  signed,       \* requests that were signed for the API
  used,         \* how many the rate limiter let through
  ingress,      \* what each request of the API has checked so far
  dispatched,   \* history: requests carried out, and when which process took them
  ever          \* history: the memberships, by revision, and when they ended

vars == <<clock, ahead, membership, login, rows, browser, signed, used, ingress, dispatched, ever>>

\* Whose clock it is.
Place == {"login", "web", "administration"} \cup Ingress
Now(place) == clock + ahead[place]

\* Whether this reading of one clock is no later than that of another.
NoLater(reading, place, that, other) == reading + ahead[other] <= that + ahead[place]

Membership    == [revision : 1..MaxRevision, active : BOOLEAN, expires : Nat]
Authorization == [revision : 1..MaxRevision, now : Nat]
Session       == [revision : 1..MaxRevision, issued : Nat, expires : Nat,
                  revoked : Nat \cup {Missing}]
SignedRequest == [session : Token, at : Nat]
Pending       == [step : {"lookup", "dispatch"}, request : SignedRequest, now : Nat]
Held          == [active : BOOLEAN, expires : Nat, ended : Nat \cup {Missing}]

\* What the constants must be: what is missing is no row and no time.
BrowserConstants ==
  /\ Lifetime \in Nat /\ Window \in Nat /\ Allowance \in Nat /\ MaxTime \in Nat
  /\ MaxSkew \in Nat
  /\ MaxRevision \in Nat \ {0}
  /\ Missing \notin Nat /\ Missing \notin Authorization /\ Missing \notin Session
  /\ Missing \notin Pending

Init ==
  /\ clock = 0
  /\ ahead \in [Place -> 0..MaxSkew]
  /\ membership = [revision |-> 1, active |-> TRUE, expires |-> MaxTime + MaxSkew]
  /\ login = Missing
  /\ rows = [t \in Token |-> Missing]
  /\ browser = {}
  /\ signed = {}
  /\ used = 0
  /\ ingress = [p \in Ingress |-> Missing]
  /\ dispatched = {}
  /\ ever = <<[active |-> TRUE, expires |-> MaxTime + MaxSkew, ended |-> Missing]>>

Tick ==
  /\ clock < MaxTime
  /\ clock' = clock + 1
  /\ UNCHANGED <<ahead, membership, login, rows, browser, signed, used, ingress, dispatched, ever>>

\* The administration (external) changes the membership, and revokes a session
\* at the time that its clock says.
ChangeMembership(active, expires) ==
  /\ membership.revision < MaxRevision
  /\ membership' = [revision |-> membership.revision + 1, active |-> active, expires |-> expires]
  /\ ever' = Append([ever EXCEPT ![membership.revision].ended = clock],
                    [active |-> active, expires |-> expires, ended |-> Missing])
  /\ UNCHANGED <<clock, ahead, login, rows, browser, signed, used, ingress, dispatched>>

Revoke(t) ==
  /\ rows[t] # Missing /\ rows[t].revoked = Missing
  /\ rows' = [rows EXCEPT ![t].revoked = Now("administration")]
  /\ UNCHANGED <<clock, ahead, membership, login, browser, signed, used, ingress, dispatched, ever>>

\* A login (external) authorizes the membership that it has read, ...
Login ==
  /\ login = Missing
  /\ membership.active /\ membership.expires > Now("login")
  /\ login' = [revision |-> membership.revision, now |-> Now("login")]
  /\ UNCHANGED <<clock, ahead, membership, rows, browser, signed, used, ingress, dispatched, ever>>

\* ... and issues a session for it, under a token nobody has.
IssueBrowserSession(t) ==
  /\ login # Missing
  /\ rows[t] = Missing
  /\ rows' = [rows EXCEPT ![t] =
       [revision |-> login.revision, issued |-> login.now,
        expires |-> login.now + Lifetime, revoked |-> Missing]]
  /\ browser' = browser \cup {t}
  /\ login' = Missing
  /\ UNCHANGED <<clock, ahead, membership, signed, used, ingress, dispatched, ever>>

-----------------------------------------------------------------------------
\* A request of a page: its origin, and the CSRF token it knows.  The CSRF token
\* of a session is the session's token under the server's key.
Request == [token : Token, unsafe : BOOLEAN, sameOrigin : BOOLEAN, csrf : Token \cup {Missing}]

VerifyBrowserRequest(r) ==
  r.unsafe => r.sameOrigin /\ r.csrf = r.token

\* prepareBrowserBffRequest, with the answer of the rate limiter at its end.
Prepared(r) == VerifyBrowserRequest(r) /\ used < Allowance

\* signBffServerRequest: the hash of the session's token goes on, and no more.
Sign(r) == [session |-> r.token, at |-> Now("web")]

\* The web server takes a request of a page.
Handle(r) ==
  /\ r.token \in browser
  /\ r.csrf # Missing => r.csrf \in browser
  /\ Prepared(r)
  /\ used' = used + 1
  /\ signed' = signed \cup {Sign(r)}
  /\ UNCHANGED <<clock, ahead, membership, login, rows, browser, ingress, dispatched, ever>>

\* The age of a signed request is not checked.
VerifyServerRequestOfAnyAge(p, s) ==
  /\ ingress[p] = Missing
  /\ ingress' = [ingress EXCEPT ![p] = [step |-> "lookup", request |-> s, now |-> Now(p)]]
  /\ UNCHANGED <<clock, ahead, membership, login, rows, browser, signed, used, dispatched, ever>>

\* verifyBffServerRequest, at the API, of a request that arrives any time; the
\* window is to both sides, since the clocks differ.
VerifyServerRequest(p, s) ==
  /\ ingress[p] = Missing
  /\ Now(p) <= s.at + Window /\ s.at <= Now(p) + Window
  /\ ingress' = [ingress EXCEPT ![p] = [step |-> "lookup", request |-> s, now |-> Now(p)]]
  /\ UNCHANGED <<clock, ahead, membership, login, rows, browser, signed, used, dispatched, ever>>

\* The revision of the membership is not compared.
AuthorizedByAnyRevision(row, member, now) ==
  /\ row # Missing /\ row.issued <= now /\ now < row.expires
  /\ row.revoked # Missing => now < row.revoked
  /\ member.active /\ now < member.expires

\* authorizePersistedBrowserSessionHash, by the clock the request was given.
Authorized(row, member, now) ==
  /\ row # Missing
  /\ row.issued <= now
  /\ row.revoked # Missing => now < row.revoked
  /\ now < row.expires
  /\ member.active
  /\ now < member.expires
  /\ row.revision = member.revision

\* authorizeBrowserSessionFromPostgres: session and membership in one query.
AuthorizeFromPostgres(p) ==
  /\ ingress[p] # Missing /\ ingress[p].step = "lookup"
  /\ Authorized(rows[ingress[p].request.session], membership, ingress[p].now)
  /\ ingress' = [ingress EXCEPT ![p] =
       [step |-> "dispatch", request |-> @.request, now |-> @.now]]
  /\ UNCHANGED <<clock, ahead, membership, login, rows, browser, signed, used, dispatched, ever>>

Dispatch(p) ==
  /\ ingress[p] # Missing /\ ingress[p].step = "dispatch"
  /\ dispatched' = dispatched \cup
       {[session |-> ingress[p].request.session, at |-> ingress[p].request.at,
         now |-> ingress[p].now, by |-> p]}
  /\ ingress' = [ingress EXCEPT ![p] = Missing]
  /\ UNCHANGED <<clock, ahead, membership, login, rows, browser, signed, used, ever>>

\* The session is refused, or the query fails.
RefuseRequest(p) ==
  /\ ingress[p] # Missing
  /\ ingress' = [ingress EXCEPT ![p] = Missing]
  /\ UNCHANGED <<clock, ahead, membership, login, rows, browser, signed, used, dispatched, ever>>

Next ==
  \/ Tick \/ Login
  \/ \E active \in BOOLEAN, expires \in {clock + 1, MaxTime + MaxSkew} : ChangeMembership(active, expires)
  \/ \E t \in Token : Revoke(t) \/ IssueBrowserSession(t)
  \/ \E r \in Request : Handle(r)
  \/ \E p \in Ingress :
       \/ \E s \in signed : VerifyServerRequest(p, s)
       \/ AuthorizeFromPostgres(p) \/ Dispatch(p) \/ RefuseRequest(p)

Spec == Init /\ [][Next]_vars

TypeOK ==
  /\ clock \in 0..MaxTime /\ ahead \in [Place -> 0..MaxSkew]
  /\ membership \in Membership
  /\ login \in Authorization \cup {Missing}
  /\ rows \in [Token -> Session \cup {Missing}]
  /\ browser \subseteq Token
  /\ signed \subseteq SignedRequest
  /\ used \in 0..Allowance
  /\ ingress \in [Ingress -> Pending \cup {Missing}]
  /\ dispatched \subseteq [session : Token, at : Nat, now : Nat, by : Ingress]
  /\ ever \in Seq(Held)
  /\ \A t \in Token : rows[t] # Missing => rows[t].expires = rows[t].issued + Lifetime

\* Whatever changes while a request is on its way, and however late or often it
\* arrives: it is carried out only if the process of the API that took it found
\* it within the window, and its session neither over nor revoked by its own
\* clock, or took it before it was revoked; so what is taken after a revocation
\* is taken by a clock that lags behind the administration's.  It is not taken
\* after the membership under which the session was issued came to its end.
NothingAfterTheEnd ==
  \A d \in dispatched : LET row == rows[d.session] IN
    /\ d.now <= d.at + Window /\ d.at <= d.now + Window
    /\ row.issued <= d.now /\ d.now < row.expires
    /\ row.revoked # Missing =>
         d.now < row.revoked \/ NoLater(d.now, d.by, row.revoked, "administration")
    /\ LET member == ever[row.revision] IN
         /\ member.active /\ d.now < member.expires
         /\ member.ended # Missing => d.now <= member.ended + ahead[d.by]
=============================================================================
