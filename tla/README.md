# Verification of the CAS server and its login pages

This directory holds TLA+ modules that model the programs of this repository, the
TLC configurations that check them on small instances, and TLAPS proofs of the
properties that matter most. The server is a CAS 4.2 overlay: a single sign-on
server that runs on several nodes, keeps its tickets in Redis instead of in
memory, and adds a login throttle with a captcha, the recovery of a forgotten
password, and entry points for REST, single-page and JWT clients. Its web
application brings the scripts of its pages with it: a desktop of windows
(`comment.js`) over a library (`jquery-1.10.2.js`), which the themes' login
pages also run.

Paths below are relative to the repository root; `J` is
`src/main/java/org/jasig/cas`, `G` is `src/main/java/com/gionee/cas`, `W` is
`src/main/webapp`, `jquery` is `W/javascript/jquery-1.10.2.js`.

## 1. The system

### Components, their state and their operations

On the server:

| Component | Code | State | Operations |
|---|---|---|---|
| Ticket service | `J/CentralAuthenticationServiceImpl.java` | none of its own: deserialised copies of tickets, in the hands of a request thread | create a TGT, grant a service ticket, grant a proxy ticket, create a PGT, validate, destroy |
| Ticket registry | `G/ticket/RedisTicketRegistry.java` | Redis: one key per ticket, each with its TTL | addTicket (SET), getTicket (GET), deleteSingleTicket (DEL), SCAN |
| Registry cleaner | `J/ticket/registry/TicketRegistryCleaner.java` | a Quartz job on every node | scan all keys, log out and delete what has expired |
| Login throttle | `G/throttle/RedisThrottledSubmissionByIpHandlerInterceptorAdapter.java`, `J/web/support/AbstractThrottled...java`, `G/throttle/impl/RedisLoginThrottleInfo.java` | Redis: a login record and a captcha flag per HTTP session | deny a POST, record a failure, raise and clear the flag, age the records |
| In-memory throttle | `G/throttle/InMemory...java` | a `ConcurrentMap` | the same algorithm; not the configured one |
| Login flow | `J/web/flow/AuthenticationViaFormAction.java`, `LogoutAction.java`, `webflow/login/login-webflow.xml`, `G/webflow/CaptchaEvaluator.java` | the form in the browser (with the flow scope), the captcha in the HTTP session, cookies | show a form, draw and check the captcha, authenticate, send the TGT, grant, redirect, log out |
| Flow executor | `src/main/java/org/springframework/webflow/executor/`, `G/webflow/CompatAppRedisCacheCleaner.java` | the execution key, in Redis for old app versions | launch, resume, clean up |
| Forgotten password | `J/web/flow/ForgetAction.java`, `webflow/forget/forget-webflow.xml`, `J/authentication/handler/support/` | Redis: a secret per user; the flow scope of each page | check mail or phone, send a secret, check it, change the password |
| JWT resource, SPA login | `J/jwt/`, `W/WEB-INF/view/jsp/postLogin.jsp`, `ssoCookieLogout.jsp` | a blacklist of tokens in Redis; the TGC of the browser; the tokens a client keeps | log in from a single page, issue, refresh and delete tokens, log out |
| REST tickets | `J/support/rest/` | none | create and delete a TGT, grant a service ticket |
| Credential handlers | `J/adaptors/jdbc/`, `G/adaptors/jdbc/`, `G/authentication/handler/` | the user database | one query and a hash |
| Views, configuration | `W`, `src/main/resources/cas.properties`, `src/main/config` | none | |

In the browser:

| Component | Code (`jquery` lines) | State | Operations |
|---|---|---|---|
| Callback lists | 3009-3197 | the list, its loop's indexes, `memory`, `stack` | add, remove, empty, fire, disable, lock |
| Deferreds | 3198-3352 | three lists and a state | resolve, reject, `then`, `when` |
| Ready | 395-460, 819-869 | `isReady`, `readyWait`, a Deferred | holdReady, ready, the document's events |
| Requests | 7817-8231 | `jQuery.active`, each request's `state`, timer and transport | ajax, abort, done |
| Data and events | 3574-3740, 4835-5320 | `jQuery.cache`, the handlers of each element, `event.triggered` | bind, unbind, dispatch, trigger, cleanData |
| Effects | 4086-4200, 8830-9420 | the queue of each element, `jQuery.timers`, the interval, the size kept in `fxshow` | queue, animate, tick, stop, finish, delay |
| Selector engine | 1000-2960, 5700-5990 | caches of tokens and compiled functions, `dirruns`, `cachedruns`, marks on elements | find, filter, not |
| Desktop | `W/javascript/comment.js` | the windows, buttons and a menu | open, minimise, restore, close, slide the menu |

### How they interact

* Every entry point (login flow, REST, SPA) ends in the ticket service, which
  calls the registry: each call is one Redis command, and nothing is locked
  between two of them. The `synchronized` blocks of the ticket service lock a
  ticket that was just deserialised, which no other thread can have.
* The cleaner of every node walks over the same keys, and Redis drops keys by
  itself when their TTL has run out.
* The throttle wraps the login flow (`preHandle`, `postHandle`); the flow reads
  the captcha flag through `CaptchaEvaluator` and clears it after a success; a
  job on every node ages the records.
* The recovery flow shares only the user database with the rest.
* A single-page application drives the server from frames: `postLogin.jsp` logs
  in, `ssoCookieLogout.jsp` first blocks the JWT and then logs out.
* In the browser one script runs at a time, but everything calls back: a list
  calls its callbacks, a Deferred is three lists, a request is a Deferred and a
  list, ready is a Deferred; the desktop goes on in the complete callbacks of
  its effects.

### What is hard about it

* *Shared store, private copies.* A ticket that is read, changed and written
  back (`grantServiceTicket`, lines 144-188) overwrites what others did.
* *Order of writes.* The service ticket is stored before the TGT that tracks it;
  a logout deletes the children before the TGT.
* *Failures that nobody sees.* `addTicket` swallows exceptions; a node may die
  between two commands; an exception ends a cleaner's scan; the blacklist may be
  out of reach when a token is deleted.
* *Two clocks of expiry.* A ticket has an expiration policy and a Redis TTL,
  from different settings; a blacklist entry must outlast the token it blocks;
  the throttle compares dates taken on several nodes.
* *Check then act.* The throttle is `hasKey`, `get`, `set`; the recovery deletes
  a key by name; the captcha is read and then removed; a refresh asks the
  blacklist and then adds to it.
* *Pages of the past.* The recovery keeps a snapshot of each page, and the login
  form carries its whole scope, so any event may arrive on an old one.
* *Reentrance.* A callback may change the very list, request, handlers or timers
  that are calling it, throw, or start another of the same.
* *Memory between calls.* A search leaves marks on elements and in compiled
  functions that a nested or a later search reads.

`PROJECT.json` lists every such hazard at its line, with the properties that
would break if it went wrong.

### What makes each component correct

* Tickets: no ticket is valid beyond its session; a ticket is accepted only
  while it is stored and only by its service; what left Redis stays out; a
  logout ends what was derived from the session and tells every service, as far
  as the session still knows of it; a used session never looks new again; what
  has expired is swept.
* Throttle: a count never exceeds the failures there were; a denial or a captcha
  needs real failures of that session; records fade; flags go with them.
* Login flow: a captcha serves one attempt; the form is chosen by the flag of
  now, not by what the client kept.
* Recovery: a secret goes to its owner; only the newest secret, in time and not
  used by a finished reset, opens the page; a password is set only by a secret
  of that account.
* Tokens: a token that was exchanged or deleted is refused as long as it would be
  good; a sign-out that is confirmed is whole.
* Library: a list has one loop and skips nobody; a Deferred settles once and
  tells everyone the same; requests are counted; ready comes; nothing is kept of
  an element without handlers or data; one animation of an element at a time,
  and all of them end; a search finds what its selector means, whatever was
  searched before.
* Desktop: what is minimised stays so until it is restored; the task bar fits.

## 2. The modules

```
CasTickets            tickets as values: creation, expiry, TTL      (pure operators)
  RedisTicketRegistry the store, its commands, time, failures
    CentralAuthentication   request threads over the store
      TicketRegistryCleaner + cleaner jobs; Next, Spec, FairSpec
        TicketProperties    properties; refinement mapping to
                            ServiceTicketLife (abstract);  MCTickets
          SettledTickets    sign-on and sign-out, with a history;
                            refinement mapping to SsoSession (abstract);
                            MCSettled
            TicketProofs    theorems about all of them
LoginThrottle         throttle, job and properties; MCThrottle
  LoginFlow           the login flow inside the throttle; MCLogin
    FlowProofs        theorems about both
ForgetPassword        recovery flow and properties;  MCForget, ForgetProofs
SpaSessions           tokens, pages, sign-in and sign-out;  MCSpa, SpaProofs
Callbacks             callback lists and the call stack of a page
  Deferreds           Deferred, then, when
    AjaxRequests      requests
      DocumentReady   ready
        PageScripts   a page over all of them; refinement mapping to
                      Promise (abstract);  MCPage
          PageLemmas -> PageProofs    theorems about all of them
ElementData           the store of data and handlers                (pure operators)
  PageEvents          dispatch and trigger over it;  MCEvents, EventsProofs
Effects               queue, animations and the interval
  Desktop             comment.js over them, or a page of boxes; Next, Spec;
                      MCDesktop, DesktopProofs
Selectors             what a selector means                         (pure operators)
  Sizzle              how the library searches, with its memory     (pure operators)
    PageSearch        calls of a page, and what they must find;  MCSelectors
```

**CasTickets.** A ticket is a record: its id, the session (`root`) it comes
from, its `limit` (when it expires whatever happens: a ticket embeds a copy of
its granting ticket) and its `deadline`, its uses, and the service tickets it
tracks. The classes are libraries of CAS 4.2 and are modelled from the calls
made on them; the settings are the constants, under the names of
`cas.properties`. `GetTimeout` is the Redis TTL that `getTimeout` computes.

**RedisTicketRegistry.** `redis` and `ttl` are the store. One operator is one
command. A failed command (`CommandFails`) changes nothing and the caller is
not told; `faults` bounds how many there are.

**CentralAuthentication.** `thread[a]` is what an actor has in its hands between
two commands. A request starts in one action, up to its first write, and goes
on through `AddNew`, `PutBack`, and `DeleteTicket`, `DeleteChild`, `DeleteSelf`.
Reading a ticket and the code after it are one action, because the copy read is
all that code depends on. `ledger`, `accepts`, `revoked` and `notified` record
what happened, for the properties; no guard of the code reads them, except that
ids are used once. `Crash` drops what an actor holds. The id of a TGT is a secret
until its login ends: `SPALoginController` stores the TGT a second time (line 98)
before it sends the cookie (101), so requests name a TGT that is `Known`, that is,
one that no login still has in hand. (After a login that crashed, its TGT counts as
known, which allows more than the code does.)

**TicketRegistryCleaner.** The scan (`StartScan`, `VisitKey`) and `deleteTicket`,
interleaved with the requests.

**ServiceTicketLife** and **SsoSession** are what a client may rely on, without
Redis and threads. The first is the life of one ticket: granted for one
service, perhaps published, accepted only by that service while live, then gone
for good. The second is a session that closes, for good, only when no ticket of
it is live.

**SettledTickets.** Two requests on one TGT write their copies back over each
other, so single sign-out does not reach every ticket, whatever one would like
(`logout_race`). This module says which tickets it does reach, under every
interleaving, failed command and crash, and what then holds of them. `written` are the
tickets a TGT that tracks them was ever written back with; `settled` are those the
session answers for. A stored ticket settles when its TGT, never deleted so far,
is written back with it while no other actor has that TGT in hand (a copy to write
back, or a deletion under way); it stops being settled when a newer ticket for
the same service takes its place (`TrackOnlyLatest`) or when a DEL of it fails. What
happens afterwards, any number of overlapping grants, logouts and cleaners, does not
unsettle it: that is what is checked. None of these conditions can go: with any one of them dropped
TLC finds `SignOutIsComplete` or `SessionsCloseLast` violated (others in hand:
both; never deleted: the second; superseded: both; the failed DEL: the
second). The history is a conjunct `Remember` of each step that constrains nothing
but itself, and `RememberedSpec => Spec` is proved.

**LoginThrottle.** `rec` and `flag` are the two kinds of Redis keys. Every
`hasKey`, `get`, `set` and `delete` is an action; `setup` says how far the clock
of each node is off, and whether operations overlap. Rates are compared in
integers (`Exceeds`), with the cases of a zero and a negative gap as in floating
point.

**LoginFlow.** What a thread does between `preHandle` and `postHandle` of
LoginThrottle, whose actions it takes over: the binding, `validateCaptcha` (two
accesses to the session, two actions), `realSubmit` with and without renew, the
service check and the grant, and the forms a response shows. Which form
`initializeLogin` shows is three actions: `HasFlag` and `GetFlag`, the two Redis
commands of `isThrottled`, and `SendForm`; a flag that is removed between the first
two is a null, whose exception ends the request. A binding that fails shows the
page it came from again, and a TGT refused for single sign-on a plain form
(`SsoRefused`): neither asks for the flag. `flagWas` is a history: the values the
flag has had since the request came. `pages[k]` is the
set of forms a browser was ever sent, with the scope each carries; any of them
may be posted at any time and twice at once. A captcha's text is the number of
its image. `alive` are the TGTs of Redis, seen through the ticket service.

**ForgetPassword.** `pages[e]` is the set of snapshots of execution `e`, each
with its flow scope; an event may be submitted on any of them. Requests of one
execution are serialised by its lock, those of different executions are not;
`changePassword` is two steps (`ResetPwd`, `FinishChange`) as everything else of
an event commutes with other executions or is one Redis command. A user types
any secret that was sent to anyone, or a wrong one.

**SpaSessions.** One browser with a cookie; `Slot`s are requests that run at
once. A refresh is the parsing of the token, which looks at its expiry
(`RefreshParsed`), then `isBlocked` (`RefreshChecked`), then `add`; time may pass
between any two of them, and the blacklist's entry ends when the token does. A sign-out
is the DELETE of the JWT, parsed and then blocked,
then `/logout`, then the answer to the parent page. `pairs` are the tokens there
were and `blacklist` is Redis.

**Callbacks** to **PageScripts.** `run` is the call stack of the page and every
action is a step of its top frame; between two callbacks the page may do
anything the library offers, to the list that is firing too. `firingIndex` and
`firingLength` belong to the list, as in the code. Deferreds have the callbacks
the code gives them (state, disable, lock) and no other means to settle once.
A request is one script up to its transport, with the page called at every
hook; answer, timer and abort then race. **Promise** is what remains without
lists: a Deferred settles once and everyone is told the same.

**ElementData** and **PageEvents.** The store is a value and each call of the
library a function of it; events nest on `run`, each with the queue of handlers
it copied. `remove` puts a frame on `run` too: it cleans the elements one at a time
(`CleanElement`), of each the types (`CleanType`) and then the entry (`CleanEntry`),
and takes the first of them from the document last (`EndClean`). No script of the
page runs in between.

**Effects** and **Desktop.** `timers` is the array the interval walks over and
callbacks change; `hooks` and the sentinel are as in the code; what an element
shows is a size and whether it is visible. Desktop is the page on top, whose
clicks come at any time; its specification also has a page of `Boxes` whose
script animates, stops, finishes and removes them as it likes.

**Selectors** defines by sets what a selector means. **Sizzle** is the library's
own search (it serves documents without `querySelectorAll`, and every selector
the browser refuses): seed, compiled matchers, sets with positionals, and the
memory all of them read and leave. Every operator takes the memory and returns
it. **PageSearch** compares the two, call after call.

## 3. What is checked

TLC checks each configuration completely.

| Run | Instance | Shows | Distinct states |
|---|---|---|---|
| `tickets_race` | 2 threads, 1 session, 2 service tickets, 1 failed command or crash, only the latest ticket of a service tracked | Under every interleaving: types, `HardLimit`, `NoSsoNeedsFreshSession`, `SignOutIsComplete`, and the refinements `TicketLife` and `SessionsCloseLast` | 1,202,036 |
| `tickets_one_by_one` | 1 thread, a remember-me session, 3 service tickets, no failures, every ticket tracked | `RedisOutlastsPolicy` | 44,315 |
| `tickets_sweep` | 1 thread, 1 cleaner, a service ticket, a proxy ticket and a PGT, 1 failure or crash, `FairSpec` | Liveness: `OverSessionsLeave`, `ExpiredIsSwept` | 129,616 |
| `logout_race` | 2 threads, no failures | a counterexample of `DestroyInvalidatesDerived`, see below | |
| `throttle` | 2 threads, 1 job, 1 session, 3 failed logins, 1 failed command; interleaved on nodes whose clocks differ, or one after the other; `FairSpec` | `CountIsBacked`, `CaptchaNeedsFailures`, `DenialNeedsRecentFailure`, `AgedRecordsFade`, and where nothing overlaps `FlagNeedsRecord`, `FailuresArePaced` | 364,745 |
| `login_forms` | 2 requests of 1 browser at once, 2 images, 1 session at a time, 2 kinds of links | `SpentCaptchaIsRefused`, `FormsFollowFlag` | 1,136,420 |
| `forget_reset` | 2 accounts, 2 executions, 2 secrets, time 0..2 | types, `SecretGoesToOwner`, `PasswordIsProven`, `OpensWithLiveSecret` | 896,822 |
| `spa_sessions` | 2 requests at once, 2 token pairs, 2 sessions, time 0..3 | `SpentStaysSpent`, `LogoutIsWhole` | 2,659,355 |
| `page` | scripts over one list with 3 kinds of options, 2 Deferreds and one made by `then`, 2 requests with 4 kinds of settings, or ready; 5, 3, 3 and 5 calls | `OneLoopPerList`, `NobodySkipped`, the refinement `PromiseSpec`, `ActiveInFlight`, `CompleteIsLast`, `ReadyComes` | 549,985 |
| `events` | a form with a button and a check box, 6 handlers, 4 calls, 1 event of the user | `NothingLeft`, `ListenersMatch`, `HidingEnds`, `OneIsGone` | 1,352,358 |
| `desktop` | 2 boxes and 3 calls, or 2 windows and 4 clicks | `OneAtATime`, `TaskBarFits`, `MinimisedStays`, liveness `AllEnds` | 864,001 |
| `selectors` | 3 documents of 5 nodes, 14 selectors, 4 filters, 3 lists of contexts; 2 calls and 1 change of the document between | `FindsWhatIsMeant`, `FindsInOrder`, `FiltersItsList` | 176,241 |

`FlagNeedsRecord` and `FailuresArePaced` of `throttle` are those the code keeps only
while operations do not overlap, and are proved under that condition.
`RedisOutlastsPolicy` is about one ticket and one write, so it is run without
overlap, over boundary values of the timeouts; the proof is for any interleaving.

### Bounds, and why they are enough

* *Time.* The clocks run from 0 to `MaxNow` in units of the shortest timeout.
  Timeouts are 1 to 3 units, in the order of the real ones, so each of them runs
  out, is renewed and runs out again within the bound. `Forever` (9) is beyond
  it.
* *Threads.* A race needs two requests on one session; two threads give every
  interleaving of two. Two service tickets are one that a write-back loses and one
  that it keeps, or one and the newer one that takes its place;
  `tickets_one_by_one` has three.
* *One session.* Operations on different sessions touch different keys.
* *One cleaner.* It is checked beside one thread. A second cleaner would only
  delete the same expired tickets, which a thread does too when it reads an
  expired TGT (`DropExpired`) or validates an expired ticket.
* *Failures.* One failed command or crash, anywhere. Two do not add a new kind
  of state: each loses one write or one deletion.
* *Throttle.* Three failures; the threshold of a captcha is two, so a record is
  made, raised over it, aged and raised again. Thread `t1` is on a node whose
  clock is two units ahead where operations overlap.
* *Login forms.* A browser that has a form is not launched again (`MaxPages`), but two
  launches may overlap, and every submit that fails adds the form it shows. Two
  images: the text that is read, and a newer one that the removal takes. The
  flag goes up, down and up again within three failures. The links are the login
  page itself and a service that wants a new login; a service without `renew`, and a
  launch by a browser that is signed on, are left to the proofs, which hold for
  any links and any number of forms.
* *Recovery.* Two accounts, two executions, two secrets: the second replaces the
  first or belongs to the other account. `spent` records the secrets made before
  a finished reset.
* *Tokens.* Two pairs: a token and its successor. A refresh token outlives its
  JWT by two ticks, so there is time to be blocked, to wait, and to return; and
  the clock reaches its expiry between two steps of a request.
* *Page scripts.* Each script uses one part of the library; `then`, `when`,
  requests and ready run on lists and Deferreds by themselves. Five calls fire a
  list from inside its own callback and change it around the index; three settle
  a chain of three Deferreds, or abort one request in a callback of another.
* *Events.* A parent, a delegate and two targets with native methods: an event
  travels, is triggered from inside another, and its handlers leave meanwhile.
* *Animations.* Ends after two ticks at most; a callback may throw, stop, finish
  or queue more. Two boxes give a loop over two timers to disturb.
* *Selectors.* One selector for every kind of test and every way the search
  takes; five nodes hold nested and adjacent elements of one tag. A cache of two
  selectors (`CacheLength`, 50 in the code) is full at once.

### Fairness

Safety runs have none. `tickets_sweep` and `throttle` use `FairSpec`: a request
that has begun goes on (a servlet thread is not abandoned, weak fairness per
thread), and each job goes on and starts again (Quartz `repeatForever`, weak
fairness per job). No request is ever forced to begin, time may stand still, and
crashes are not fair. `desktop` assumes that the browser goes on with a script
that has begun and fires an interval that is set; the user need not do anything.

### Where code and text disagree

* `logout_race`: `CentralAuthenticationService.destroyTicketGrantingTicket`
  promises to invalidate every derived ticket. The trace: a login; a grant reads the
  TGT and stores its service ticket (line 187); before it writes back the TGT that
  tracks it (188), a logout reads the TGT and deletes it, and no child, as that copy
  tracks none. The service ticket stays valid (and the write-back still to
  come stores the destroyed TGT again). `SessionsCloseLast` is what is left of the
  promise under any overlap.

### Observations made on the way

These follow from the models, where they are ordinary behaviours; no property
states otherwise. Properties that would meet one of them name the exception.

On the server:

* `cas.properties` sets `st.numberOfUses=3`, but the use is counted on a copy
  that is not written back (`CentralAuthenticationServiceImpl`, line 353), so a
  ticket is accepted until it times out.
* The throttle's message speaks of more than N failures within M seconds; the
  code compares the time since the one latest failure (line 171 of the
  interceptor), so a single failure denies the next POST within M/N seconds.
* `SEND_SMS_LIMIT_MILES` is the least interval between two codes, but the time of
  the last one lives in the flow scope of a page (`ForgetAction`, line 201):
  another execution, or the Back button, is not limited by it.
* A refresh token survives the deletion of its JWT: a sign-out blocks the JWT
  alone.
* A refresh looks at the token's expiry (`JwtsResource`, line 230) before it asks the
  blacklist (235), whose entry ends with the token: a spent token that arrives
  just before its expiry may be exchanged once more.
* `isThrottled` is `hasKey` and `get` (`RedisLoginThrottleInfo`, lines 23-24): a flag
  removed in between is a null that is unboxed, and the login page an error.
* A JWT that has expired, or a blacklist that cannot be reached, fails the DELETE
  of `ssoCookieLogout.jsp`: it neither logs out nor answers. `postLogin.jsp`
  answers nothing on 400, 404 and 500.
* `loginWithTGC.jsp` reads `RegExp.$1`, which after a message without a ticket is
  still the one of the message before.
* The themes `iwms` and `mewms` have no captcha field and `xst` calls it
  `j_captcha_response`: a session that is flagged cannot log in there.

In the library and the desktop:

* A callback that throws leaves its list firing for ever: later calls of `fire`
  are queued and never made. `OneLoopPerList` ends there.
* `abort` inside `ajaxSend`, or inside `ajaxStart` by a prefilter that kept the
  jqXHR, ends a request before its transport exists. The request is sent all the
  same and is again one that is not done (`state = 1`), though `jQuery.active`
  has let it go; its answer runs `done` a second time and takes one more.
  `ActiveInFlight` leaves such requests out, from the moment they are sent
  (`DoneOnce`).
* A complete callback that calls `stop` while `stop` loops over the timers shifts
  the array under the loop, which then cuts out another timer (9352-9358).
  `OneAtATime` and `AllEnds` leave it out (`meddled`).
* A `:has()` left of a descendant or sibling combinator (`div:has(i.a) p`): the
  search nested in it leaves its own number of the element in `cachedruns`
  (2509-2514, 2728, 2744), a failed ancestor's mark is taken for that of
  another, and elements are missing. `FindsWhatIsMeant` asks of these selectors
  only that nothing wrong is found (`LeavesRuns`).
* The filters before and after a positional test several elements under one
  number (2539, 2560-2609): `p:even.a` below a context, or a filter
  `div.a p:eq(1)`, drops elements that share an ancestor with one that failed
  (`TestsSeveral`, `WalksSeveral`).
* A positional led on by a combinator and asked for alone, `div:even p` with nested
  divisions, returns an element twice, as one set matcher alone is not sorted
  (2788-2790; `LedOnAlone`).

## 4. What is proved

All theorems hold for every value of the constants that the named `ASSUME`s
allow, which TLC evaluates on every run.

**Tickets** (TicketProofs)

* `TypeCorrect`: `Spec => []TypeOK`. `TypeOK` is inductive as it stands; its part
  `ThreadState` says that an actor has in its hands what its next step needs, so
  that no step uses a missing ticket. One step per action, resting on lemmas
  about the operators tickets are made with.
* `SessionsAreLimited`: `Spec => []HardLimit`. `HardLimit` is inductive relative to
  `TypeOK`. It speaks of every copy, in Redis or in a thread's hands, which is
  what makes it inductive: stored tickets alone would not do, as a stale copy
  may be stored next. A step makes at most two new copies (`CopiesOfThread`,
  `RequestKeepsLimit`), each derived from one that was read and with no later
  limit; the ledger entry it is compared with never changes (`LedgerGrows`).
* `TicketsLiveOnce`: `Spec => TicketLife`, the refinement, initial state and steps.
  Every step is one of four (`StepIsOne`): it `Creates` a ticket, `Stores` one that
  only its thread had, `Accepts` one, or `Loses` some (deletions, expiry, crashes,
  failed commands, the cleaner); each is a step of the abstract life or a stutter.
  What makes the mapping work is the invariant `Held` (`TicketsAreHeldOnce`): a
  ticket not yet stored is in the hands of one thread, which created it, and in
  its `new` alone; what `putBack` writes is never a ticket that services present.
  Without it a copy could be stored after the ticket was gone, and come back.
* `RedisKeepsWhatIsUsable`: `Configured => (Spec => []RedisOutlastsPolicy)`, for
  races and failures too. `Configured` is what the settings must satisfy and
  nothing in the code checks: each inactivity timeout is at most the TTL
  `getTimeout` goes with (`TimeToKill <= MaxTimeToLive`, `RememberMeIdle <=
  RememberMeTtl`, and, as a proxy ticket gets the TTL of a service ticket,
  `PtTimeToKill <= StTimeToKill`). A copy may be written long after it was made,
  so the invariant speaks of the copies in hands as well (`Fitting`): time passes
  between making and writing, and the TTL, counted from the write, only ends
  later.
* `LogoutTellsAll`: `RememberedSpec => SignOutIsComplete`, `NoSsoIsRefused`:
  `RememberedSpec => NoSsoNeedsFreshSession`, and `SessionsCloseAfterTheirTickets`:
  `RememberedSpec => SessionsCloseLast`, the refinement: for any number of threads
  and cleaners, failures and crashes, with proxying or not. They have one
  inductive invariant, `Answers`. Every copy of a TGT, in Redis or in hands, `Knows` its session:
  it has counted a use if any ticket of the session was written, and it tracks
  every settled one. A stale copy that is written back keeps this because a ticket
  settles only while nobody holds a copy that lacks it (`PutBackKeeps`); that a copy
  which has counted no use is in the hands of a login, whose TGT nobody
  knows yet, and so of a session without tickets, is `HandsCount`, and it is why `Known` matters.
  deleteTicket therefore lists every settled ticket that is in Redis, and
  none settles while it works, as it has the TGT in hand (`ChildrenFirst`).
  Every step is of one of eleven kinds (`StepKinds`), and each keeps the
  invariant and is a step of SsoSession: a login opens a session, a write-back
  makes the tickets it settles join it, the first DEL of the TGT closes it, and
  everything else lets tickets end.

**Throttle** (FlowProofs, first part)

* `CountsAreBacked`, `CaptchaIsEarned`, `DenialsAreRecent`, for any clocks, nodes,
  jobs and lost commands. An update may be lost and an old record may return, so
  the count alone is not inductive. The invariant gives each session its
  `Room`, the failures there were less the threads that failed and have not
  recorded it yet; every count, in Redis or in the hands of an actor, is at most
  that, and every date at most the latest failure. A thread that records takes
  its own place out of the second number, which is what lets it count one more.
* `FlagsHaveRecords`: in the serial case a flag is without its record only while
  the job is about to remove the flag.
* `FailuresKeepTheirDistance`, for a positive threshold (with a rate of zero the
  statement is false): the record is dated by the latest failure, and whoever is
  let past `preHandle` found no record, which only ageing removes, or one that is
  1/rate old.

**Login flow** (FlowProofs, second part)

* `FlowImplementsThrottle`: `FlowSpec => Spec` of LoginThrottle. Every step of the
  flow is one of the throttle's or leaves its state alone; `FlowKeepsPromises`
  carries the theorems above over.
* `CaptchasAreSpent`, `FlagsChooseForms`, on the types of `FlowTypeCorrect`. The
  numbers of images grow; the text in the session is one that was never spent,
  and what a request read is not among the texts spent when it was posted.
  For `FlagsChooseForms`: a form is chosen by the flag as it is at that step
  (`FormChosen`), whatever other requests did to it between `hasKey` and `get`;
  `Remember` adds that value, and `flagWas` only grows until the request ends.

**Recovery** (ForgetProofs)

* `RecoveryTypeCorrect`, `SecretsGoToOwners`, `PasswordsAreProven`,
  `OpensOnlyWithLiveSecret`, from one inductive invariant
  `StoreInv /\ FlowInv`: secrets are numbered and a key holds the newest one of
  its user, unspent; and what a view reads from its scope was put there by a
  check that belongs to it. The last theorem is about steps: it follows from the
  invariant, case by case of the events that may open the page.

**Tokens** (SpaProofs)

* `SpentTokensStaySpent`, `LogoutLeavesNothing`: a spent token has expired or is
  covered by an entry that lasts until its own expiry, whatever is exchanged
  meanwhile; and a sign-out on its last step has both parts behind it. The first
  is about tokens that are good when `isBlocked` is asked: one parsed just before its
  expiry passes once more if it, and its entry with it, ends in between.

**Page** (PageLemmas, PageProofs)

* `InvAlways`: the invariant `Inv` of a page of scripts, for any lists, Deferreds,
  requests and settings, and for callbacks that fire, change, disable, throw or
  start anything. Its idea is that only the top frame of `run` works: what is
  below waits, and was left in a state a reader of the code would call paused. A
  loop is on the stack exactly while its list is `firing`; every loop is of one
  list, and a list has at most one; `firingIndex` stands where the loop is; what
  a list remembers is what it was fired with, and what callbacks were told of a
  Deferred agrees with its list's memory.
* `OneLoopAlways`: `Spec => []OneLoopPerList`. This part of `Inv` is not inductive
  alone: a queued `fire` is made by the loop that ends, so that one must know
  which frames are left above and below.
* `PromiseKept`: `Spec => PromiseSpec`, the refinement of **Promise**. The code has
  no test that a Deferred is still pending: `resolve` fires a list, and the
  list's first callbacks set the state and disable the list of the other
  outcome. So for the length of two callbacks nothing but their place protects
  it, which is what `Early` says (the loop is on top, no callback of the page has
  run) and `Settled` says of the rest (the other list is disabled and stays so).
  Every step is then one of three: it tells nobody anything, settles one pending
  Deferred, or tells callbacks of a settled one what its list remembers.
* `NobodySkippedAlways`: `Spec => NobodySkipped`. The indexes of a firing list
  belong to the list, and removing callbacks moves them. The invariant, `OwnTold`,
  says of each loop of the page's list that nobody emptied: `firingLength` is the
  length of the list, and every callback before the one the loop is at was told, up
  to `firingIndex` between two calls and one further during one. A removal takes
  both down by as many callbacks as went before them (`WithoutPrefix`). That the
  library's own calls leave this list alone had to be said as well: none of
  the lists its callbacks and calls name is the page's or ready's.
* `ReadyAlways`: `Spec => []ReadyComes`. The invariant beside `Inv` is `ReadyInv`:
  as long as no release came without a hold, `readyWait` is the holds plus one
  until the document has taken its own part (`CounterOK`), which a listener or a
  timer is still to do as soon as somebody has asked; once the document is ready and
  nobody holds it, the list of the Deferred was fired or its fire is the next
  call (`ReadyDue`); a list that was fired has set the state or is in the loop
  that sets it next (`Resolved`); and nobody but ready fires or disables its two
  lists (`Untouched`), so that this fire cannot find its list disabled.
* `ActiveAlways`: `Spec => []ActiveInFlight`. Between two scripts the count is what
  the property says; within one it also depends on what is still to be called. `Work` is the
  set of steps of a request that are left on the stack, each at a place that does
  not change while others are pushed above it and made. The invariant, `CountInv`,
  says of each request (`OneWay`) that one step is left until it is sent and none
  after, that one `inactive` is left once it is done and none before, and that what
  is left to send waits for no answer; and that `active` is the number of
  requests with global events that are not done or have `inactive` left
  (`RightCount`). A step of no request leaves all of this alone (`Neutral`); a
  step of one moves that one along its way (`OneRequest`). The attempt showed that
  `DoneOnce` had been too weak: a request that is sent after it was done is
  neither counted nor done, and was not left out until its answer came.

**Events** (EventsProofs)

* `HidingEndsAlways`: `Spec => []HidingEnds`. `trigger` sets the native handler and
  `event.triggered` aside, calls a native method, which comes back as an event of
  its own, and puts both back. The invariant (`Hiding`) follows the frames: a type
  is hidden only while a native method of the stack runs, and what runs right on
  top of a native method is an event of the browser, never an event of a script.
  A handler that throws goes up to the topmost event of the browser and no further,
  so that the frame that ends the native method, which puts the type back, is
  always reached.
* `NothingLeftAlways`, `ListenersMatchAlways`, `OneIsGoneAlways`: `Spec => []Inv`
  for the invariants about the store, for any finite document, any bindings and any
  number of calls. They have one inductive invariant, `EventsInv`, which is `Hiding`
  with four parts about the store (`StoreInv`).
  - `Numbers`: an entry of the cache is reached through the number an element keeps.
    No two elements have the same number, a number kept has an entry, and the
    numbers given back are below the next new one, without an entry, and each there once:
    otherwise `NewId` could give one element the entry of another.
  - `Entries`: no entry is empty, it has the browser's handle exactly if it has
    handlers, and the delegates of each list are its first `delegateCount`.
    `LeftOK` shows this of `event.remove`, whose walk from the end counts
    delegates down as it goes.
  - `Wired`: the listeners of the browser are those the handlers ask for, and
    focusin is simulated for as many elements as want it. `cleanData` breaks this
    and mends it: it takes away the listeners of an ordinary type without its handlers,
    and the handlers go with the entry at the end. `BareIn` are the listeners gone
    before their handlers, and `CleanedSoFar` says of the element at turn that
    its number is the one the cleaning remembers, or that the last `event.remove`
    has given it back already; without that `CleanEntry` might delete the
    entry of another element, or count a number as free twice. That a cleaning is only ever
    the top of the stack had to be part of the invariant: a script inside one would
    meet a store half cleaned.
  - `OneOut`: no list holds a handler that was spent. What a call leaves in a list was
    there before, or is what the page has just bound (`NoneNew`).

**Effects and the desktop** (DesktopProofs)

* `WholeAlways`: the invariant, for any boxes, calls and windows. The page loaded is
  one of boxes or the desktop, and each keeps its own part.
* `OneAnimationAtATime`: `Spec => []OneAtATime`. That one animation of a queue runs
  is not inductive: the next one starts from the complete callback, by a dequeue
  that waits on the stack. `Moving` is the set of what moves on for an element, the
  animations of its queue that run and the calls that go on with it; a step takes
  one away, or passes one on (`Passes`). The other half is why nothing adds a second:
  while something moves the sentinel is in the queue, or the dequeue that was asked
  for is the top of the stack, or the queue is empty because `stop` or `finish`, at
  work, has cleared it. The walk of those two stops every animation of the element
  that has a timer below its index (`WalkOK`), every animation that runs has a timer
  (`TimersOK`), so that none is left when `stop` goes on with the queue; and what
  `finish` starts is over at once (`Finishing`).
* `TaskBarIsLaidOut`: `Spec => []TaskBarFits`. The task bar is laid out, or a button
  is `Fading`: it is to fade in, fades in, or its callback, which will lay out the
  task bar, is called. Opening a window is three calls; `Windows` follows them.
* `MinimisedWindowsStay`: `Spec => MinimisedStays`. A window's animation never shows
  it: what it has to show is shown when it begins, and then it is not yet in the
  document.

The lemmas on sequences as call stacks, at the head of PageLemmas and EventsProofs,
say what is below the top and that replacing the top leaves the rest.

Assumptions: `TimesAssumption`, `IdsAssumption`, `NoTicketAssumption`,
`BoundsAssumption`, `ServicesAssumption` (types and disjoint ids, no relation
between the timeouts), `ThrottleAssumption`, `FlowAssumption`, `ForgetAssumption`,
`SpaAssumption`; of the page `CallbacksAssumption`, `DeferredsAssumption`,
`AjaxAssumption`, `ReadyAssumption`, `ScriptsAssumption` (which lists belong to
which Deferred or request, that they differ and that a value is no Deferred; ready's
Deferred is nobody else's, and `undefined` is no list of callbacks),
`EventsAssumption` (the document is finite, and the bindings,
the native methods and what the browser does after an event are about its elements
and types); `EffectsAssumption` (an element has a size, and `undefined` is no
queue) and `DesktopAssumption` (types, and the list of tasks is no box).

Only model-checked:

* liveness (`OverSessionsLeave`, `ExpiredIsSwept`, `AgedRecordsFade`, `AllEnds`),
  which the prover cannot do under fairness;
* of the page, `CompleteIsLast`: it relates the callbacks still due, which only the
  model counts, to what every list of a request holds. An attempt on its proof showed
  that it had been too strong: a callback of `success` given once the request is
  over is called at once, and if it gives one of `complete` that is called at once too,
  while the first is still under way. That takes a fourth call of one
  request, one more than the run's 3, and a larger instance showed it; the property
  says so now. With 4 calls and all the settings the run does not end in time;
* the selector engine: Selectors and Sizzle are recursive, which the prover cannot
  follow, and what a recursive definition computes for every document is out of
  its reach in any case.

## 5. What is not modelled

* *REST tickets*: thin handlers; each calls one operation of the ticket service
  and turns its exceptions into an HTTP status.
* *In-memory throttle*: not the configured one, same algorithm.
* *Flow executor*: launch and resume are the actions `Launch` and `Post` of
  LoginFlow. The branch for old app versions is dead: the list of compatible
  versions is never filled, so `isCompat` is false.
* *Credential handlers*: stateless, one SQL query and a hash.
* *Views, themes, service definitions*: no state.
* *Of the ticket service*: principals, attributes and audit events; `getTickets`,
  `deleteAll` and `updateTicket` of the registry, which nothing calls; the
  cleaner's branch for other registries; the wording of messages.
* A failed read in `deleteTicket` is modelled; elsewhere it refuses the request
  and changes nothing, so it is a stuttering step.
* Logging out tickets derived through a proxy: a PGT is not tracked by the stored
  TGT and survives the logout until its own limit; they are no settled tickets.
  `tickets_sweep` has them, and shows that they end.
* *Of the login flow*: the warn page, the gateway and `showMessages`; an answer to
  a service is where a request ends.
* *Of the client library*: manipulation, styles, attributes, offsets,
  serialisation and the feature tests, which keep nothing between calls and are
  about markup and browsers; converters, prefilters, scripts and jsonp of
  requests; the special events of old browsers; easing; of the selector engine
  the parsing of a selector, attribute tests and a positional inside `:not()`.
* *Of the desktop*: dragging, resizing, and the start menu, whose markup is not in
  the repository.
* *Pages with one request and one message* (`loginWithTGC.jsp`,
  `ticketValidateCors.jsp`).

## 6. Plan

Done: the ticket service with registry and cleaner, the throttle, the login
flow, the recovery, tokens and single-page sign-in, the client library's parts
with state, the desktop, and the proofs above. What is left, in this order:

1. `CompleteIsLast`, from the invariant of the page.
2. REST tickets over the ticket service, with what a refused grant leaves.

## 7. Running

```
tlc -config TicketsRace.cfg MCTickets.tla
tlapm TicketProofs.tla
```

`PROJECT.json` says which configuration belongs to which module, and which lines
of the source each definition stands for.
