----------------------------- MODULE SpaSessions -----------------------------
(***************************************************************************)
(* Sign-in, refresh and sign-out of a single-page application: the pages   *)
(* postLogin.jsp and ssoCookieLogout.jsp in its frames, their requests to  *)
(* SPALoginController, JwtsResource and /logout, and the blacklist of      *)
(* tokens in Redis.                                                        *)
(*                                                                         *)
(* One browser; requests overlap, and their answers come in any order.     *)
(* The JWT library is external: what is assumed of it is that each token   *)
(* has an id of its own, that parsing refuses a token that has expired,    *)
(* and that a blacklist entry lasts until the date given with it.          *)
(***************************************************************************)
EXTENDS Naturals, Sequences, FiniteSets

CONSTANTS
  Slot,                  \* what runs at once: requests of pages and clients
  JwtLife, RefreshLife,  \* expirationInMinutes, refreshTokenExpirationInMinutes
  MaxNow, MaxPairs, MaxTgts    \* bounds: the clock, token pairs, sessions

ASSUME SpaAssumption ==
  /\ {JwtLife, RefreshLife} \subseteq Nat \ {0}
  /\ {MaxNow, MaxPairs, MaxTgts} \subseteq Nat

VARIABLES
  now,
  pairs,       \* pair of a JWT and its refresh token -> when it was made
  blacklist,   \* tokens that are blocked, each until when
  alive,       \* the ticket granting tickets in Redis
  made,        \* how many there were
  cookie,      \* the one the browser's TGC names
  run,         \* what each slot is doing
  spent        \* history: tokens that were blocked once

vars == <<now, pairs, blacklist, alive, made, cookie, run, spent>>
tickets == <<alive, made>>
tokens == <<pairs, blacklist, spent>>

NoTgt == 0
NoToken == [pair |-> 0, kind |-> "none"]

Kinds == {"jwt", "refresh"}
Token == {[pair |-> p, kind |-> k] : p \in DOMAIN pairs, k \in Kinds}
ExpiresAt(t) == pairs[t.pair] + (IF t.kind = "jwt" THEN JwtLife ELSE RefreshLife)
Expired(t) == now >= ExpiresAt(t)

\* The date that goes into the blacklist with a token: its own expiration.
\* The bug of BlockedUntilJwtLife: that of the JWT which is made next.
BlockedUntilJwtLife(t) == now + JwtLife
BlockedUntil(t) == ExpiresAt(t)

IsBlocked(t) == \E b \in blacklist : b.token = t /\ now < b.until

\* late: the token had been spent before the request came.  tgt: the TGT a
\* login made, or the one the cookie of a logout named.
Idle == [at |-> "idle", token |-> NoToken, tgt |-> NoTgt, late |-> FALSE]

Init ==
  /\ now = 0
  /\ pairs = <<>>
  /\ blacklist = {}
  /\ alive = {}
  /\ made = 0
  /\ cookie = NoTgt
  /\ run = [s \in Slot |-> Idle]
  /\ spent = {}

At(s, at) == run[s].at = at
To(s, at) == run' = [run EXCEPT ![s].at = at]
Finish(s) == run' = [run EXCEPT ![s] = Idle]

NewPair == pairs' = Append(pairs, now)
Block(t) ==
  /\ blacklist' = blacklist \cup {[token |-> t, until |-> BlockedUntil(t)]}
  /\ spent' = spent \cup {t}

-----------------------------------------------------------------------------
\* postLogin.jsp posts to /spaLogin, always with rememberMe.
PostLogin(s) ==
  /\ At(s, "idle")
  /\ To(s, "login")
  /\ UNCHANGED <<now, tokens, tickets, cookie>>

\* The credential is wrong, or authentication breaks: no TGT and no cookie.
LoginFails(s) ==
  /\ At(s, "login")
  /\ To(s, "answered")
  /\ UNCHANGED <<now, tokens, tickets, cookie>>

\* The TGT is created and stored, the cookie goes into the response, and then
\* a service ticket is granted or not: the cookie is sent in either case.
LoginOpens(s) ==
  /\ At(s, "login")
  /\ made < MaxTgts
  /\ made' = made + 1
  /\ alive' = alive \cup {made + 1}
  /\ run' = [run EXCEPT ![s].at = "answered", ![s].tgt = made + 1]
  /\ UNCHANGED <<now, tokens, cookie>>

LoginAnswered(s) ==
  /\ At(s, "answered")
  /\ cookie' = IF run[s].tgt = NoTgt THEN cookie ELSE run[s].tgt
  /\ Finish(s)
  /\ UNCHANGED <<now, tokens, tickets>>

-----------------------------------------------------------------------------
\* POST /v1/jwts with a name and a password.
FetchPair(s) ==
  /\ At(s, "idle")
  /\ Len(pairs) < MaxPairs
  /\ NewPair
  /\ UNCHANGED <<now, blacklist, spent, tickets, cookie, run>>

\* POST /v1/jwts with a refresh token: hasAuthority refuses a JWT.
Refresh(s) ==
  /\ At(s, "idle")
  /\ \E t \in Token :
       /\ t.kind = "refresh"
       /\ run' = [run EXCEPT ![s] = [Idle EXCEPT !.at = "refresh", !.token = t,
                                                 !.late = t \in spent]]
  /\ UNCHANGED <<now, tokens, tickets, cookie>>

\* Parsing the token refuses one that has expired ...
RefreshParsed(s) ==
  /\ At(s, "refresh")
  /\ IF Expired(run[s].token) THEN Finish(s) ELSE To(s, "parsed")
  /\ UNCHANGED <<now, tokens, tickets, cookie>>

\* ... and then Redis is asked whether it is blocked: the token, and with it
\* its entry, may end in between.
RefreshChecked(s) ==
  /\ At(s, "parsed")
  /\ IF IsBlocked(run[s].token) THEN Finish(s) ELSE To(s, "pair")
  /\ UNCHANGED <<now, tokens, tickets, cookie>>

\* The used token is blocked before its successors are made.
PairFromRefresh(s) ==
  /\ At(s, "pair")
  /\ Len(pairs) < MaxPairs
  /\ NewPair
  /\ Block(run[s].token)
  /\ Finish(s)
  /\ UNCHANGED <<now, tickets, cookie>>

\* Redis cannot be reached, or the successors cannot be made: answer 400, and
\* in the second case the token is spent.
RefreshBreaks(s) ==
  /\ \/ At(s, "pair") /\ Block(run[s].token)
     \/ (At(s, "parsed") \/ At(s, "pair")) /\ UNCHANGED <<blacklist, spent>>
  /\ Finish(s)
  /\ UNCHANGED <<now, pairs, tickets, cookie>>

-----------------------------------------------------------------------------
\* A message to ssoCookieLogout.jsp, with a JWT or without.
AskLogout(s) ==
  /\ At(s, "idle")
  /\ \/ \E t \in Token :
          /\ t.kind = "jwt"
          /\ run' = [run EXCEPT ![s] = [Idle EXCEPT !.at = "delete", !.token = t]]
     \/ run' = [run EXCEPT ![s] = [Idle EXCEPT !.at = "logout", !.tgt = cookie]]
  /\ UNCHANGED <<now, tokens, tickets, cookie>>

\* DELETE /v1/jwts.  An expired token is refused when it is parsed ...
DeleteParsed(s) ==
  /\ At(s, "delete")
  /\ ~Expired(run[s].token)
  /\ To(s, "block")
  /\ UNCHANGED <<now, tokens, tickets, cookie>>

\* ... and then blocked, if it is still good or not.
DeleteBlocks(s) ==
  /\ At(s, "block")
  /\ Block(run[s].token)
  /\ To(s, "deleted")
  /\ UNCHANGED <<now, pairs, tickets, cookie>>

DeleteFails(s) ==
  /\ At(s, "delete") \/ At(s, "block")
  /\ To(s, "refused")
  /\ UNCHANGED <<now, tokens, tickets, cookie>>

\* addJwtToBlacklistFirst goes on to /logout when the answer is 200; another
\* answer is dropped, and so is the message.  The bug of GoesAnyway: the status
\* is not looked at.
GoesAnyway(s) == At(s, "deleted") \/ At(s, "refused")
Goes(s) == At(s, "deleted")

DeleteAnswered(s) ==
  /\ At(s, "deleted") \/ At(s, "refused")
  /\ IF Goes(s) THEN run' = [run EXCEPT ![s].at = "logout", ![s].tgt = cookie]
     ELSE Finish(s)
  /\ UNCHANGED <<now, tokens, tickets, cookie>>

\* GET /logout with the cookie: the TGT it names is destroyed.
Logout(s) ==
  /\ At(s, "logout")
  /\ alive' = alive \ {run[s].tgt}
  /\ To(s, "loggedOut")
  /\ UNCHANGED <<now, tokens, made, cookie>>

\* The answer clears the cookie, whatever it names by now; the page tells its
\* parent "logoutSuccess".
LogoutAnswered(s) ==
  /\ At(s, "loggedOut")
  /\ cookie' = NoTgt
  /\ Finish(s)
  /\ UNCHANGED <<now, tokens, tickets>>

LogoutFails(s) ==
  /\ At(s, "logout")
  /\ Finish(s)
  /\ UNCHANGED <<now, tokens, tickets, cookie>>

Tick ==
  /\ now < MaxNow
  /\ now' = now + 1
  /\ blacklist' = {b \in blacklist : now' < b.until}
  /\ UNCHANGED <<pairs, spent, tickets, cookie, run>>

Next ==
  \/ \E s \in Slot :
       \/ PostLogin(s) \/ LoginFails(s) \/ LoginOpens(s) \/ LoginAnswered(s)
       \/ FetchPair(s) \/ Refresh(s) \/ RefreshParsed(s) \/ RefreshChecked(s)
       \/ PairFromRefresh(s) \/ RefreshBreaks(s) \/ AskLogout(s) \/ DeleteParsed(s)
       \/ DeleteBlocks(s) \/ DeleteFails(s) \/ DeleteAnswered(s)
       \/ Logout(s) \/ LogoutAnswered(s) \/ LogoutFails(s)
  \/ Tick

Spec == Init /\ [][Next]_vars

-----------------------------------------------------------------------------
\* A refresh token that is good is exchanged once: a request that came after it
\* was spent does not get past isBlocked while the token lives, however much
\* later it comes and whatever was exchanged since, so the blacklist entry must
\* last as long as the token itself.  What may be served again: requests that
\* overlap (isBlocked and add are two commands), and a request whose token
\* ended, and its entry with it, after it was parsed.
SpentStaysSpent ==
  [][\A s \in Slot : At(s, "parsed") /\ run'[s].at = "pair" =>
       ~run[s].late \/ Expired(run[s].token)]_vars

\* "logoutSuccess" is told only when the sign-out is whole: the session that the
\* request's cookie named is over, and the JWT given with the message is good
\* for nothing any more.
Unusable(t) == Expired(t) \/ IsBlocked(t)

LogoutIsWhole ==
  [][\A s \in Slot : At(s, "loggedOut") /\ run'[s].at = "idle" =>
       /\ run[s].tgt \notin alive
       /\ run[s].token # NoToken => Unusable(run[s].token)]_vars
=============================================================================
