------------------------------ MODULE LoginFlow ------------------------------
(***************************************************************************)
(* The login flow (login-webflow.xml and the actions it calls) inside the  *)
(* login throttle of LoginThrottle: what happens while a request thread is *)
(* between preHandle and postHandle, and what the browser holds meanwhile. *)
(*                                                                         *)
(* The login flow keeps no state on the server: each form carries its own  *)
(* flow scope (ClientFlowExecutionRepository), so every form a browser was *)
(* ever sent can be submitted at any time, again, and twice at once.  The  *)
(* server shares between requests only the captcha in the HTTP session,    *)
(* the throttle's flag, and the ticket granting tickets.                   *)
(***************************************************************************)
EXTENDS LoginThrottle, FiniteSets

CONSTANTS
  Link,                           \* URLs of the login page: [renew, service]
  MaxTexts, MaxTgts, MaxPages     \* bounds: captcha images, sessions, forms

ASSUME FlowAssumption ==
  /\ Link \subseteq [renew : BOOLEAN, service : BOOLEAN]
  /\ {MaxTexts, MaxTgts, MaxPages} \subseteq Nat

VARIABLES
  pages,    \* the login forms a browser was sent
  captcha,  \* KAPTCHA_SESSION_KEY of the HTTP session: a text, or NoText
  drawn,    \* how many images it was sent; the i-th shows text i
  spent,    \* texts that a validation took out of the session
  cookie,   \* the TGC of the browser
  made,     \* how many TGTs there were
  alive,    \* those that are still valid
  req,      \* what each request thread is doing in the flow
  flagWas   \* history: what the session's flag has been since its request came

flowOnly == <<pages, captcha, drawn, spent, cookie, made, alive, req>>
flowVars == <<vars, flowOnly, flagWas>>
browser == <<drawn, cookie>>
tgts == <<cookie, made, alive>>

NoText == 0
NoTgt == 0
Text == 1..MaxTexts
Tgt == 1..MaxTgts

\* A form and the flow scope it carries.  captcha: it is the form of
\* viewLoginFormWithCaptcha; renew: the URL it posts to has that parameter.
Page == [captcha : BOOLEAN, tgt : Tgt \cup {NoTgt}, renew : BOOLEAN, service : BOOLEAN]

NoPage == [captcha |-> FALSE, tgt |-> NoTgt, renew |-> FALSE, service |-> FALSE]

Ats == {"none", "posted", "removeCaptcha", "submit", "serviceCheck", "grant",
        "initialize", "getFlag", "form", "end"}

\* get: a GET, which the throttle lets pass.  typed: NoText stands for any text
\* that no image showed.  seen: the captcha read from the session.  spentThen:
\* what was spent when the request came.
Request == [at : Ats, key : Key \cup {NoKey}, get : BOOLEAN, page : Page,
            typed : Text \cup {NoText}, seen : Text \cup {NoText},
            spentThen : SUBSET Text]

NoRequest == [at |-> "none", key |-> NoKey, get |-> FALSE, page |-> NoPage,
              typed |-> NoText, seen |-> NoText, spentThen |-> {}]

\* A POST is in the flow only while the interceptor is around it.
Wrapped(t) ==
  req[t].at # "none" /\ ~req[t].get =>
    /\ proc[t].key = req[t].key
    /\ proc[t].pc \in (IF req[t].at = "posted" THEN {"readRate", "dropKey", "auth"}
                        ELSE {"auth", "cleared"})

FlowTypeOK ==
  /\ TypeOK
  /\ \A t \in Thread : Wrapped(t)
  /\ pages \in [Key -> SUBSET Page]
  /\ captcha \in [Key -> Text \cup {NoText}]
  /\ drawn \in [Key -> 0..MaxTexts]
  /\ spent \in [Key -> SUBSET Text]
  /\ cookie \in [Key -> Tgt \cup {NoTgt}]
  /\ made \in 0..MaxTgts
  /\ alive \in SUBSET Tgt
  /\ req \in [Thread -> Request]
  /\ flagWas \in [Thread -> SUBSET BOOLEAN]

FlowInit ==
  /\ Init
  /\ pages = [k \in Key |-> {}]
  /\ captcha = [k \in Key |-> NoText]
  /\ drawn = [k \in Key |-> 0]
  /\ spent = [k \in Key |-> {}]
  /\ cookie = [k \in Key |-> NoTgt]
  /\ made = 0
  /\ alive = {}
  /\ req = [t \in Thread |-> NoRequest]
  /\ flagWas = [t \in Thread |-> {}]

\* The flow of t is at `at', and the interceptor has let it pass.
IsAt(t, at) ==
  /\ req[t].at = at
  /\ req[t].get \/ proc[t].pc \in {"auth", "cleared"}

MoveTo(t, at) == req' = [req EXCEPT ![t].at = at]

\* The request is answered; postHandle looks at the status of a POST.
Respond(t) ==
  /\ req' = [req EXCEPT ![t] = NoRequest]
  /\ IF req[t].get THEN UNCHANGED vars
     ELSE AuthenticationFails(t) \/ AuthenticationEnds(t)

\* The flow goes on to choose a form.
ToForm(t) == MoveTo(t, "initialize") /\ UNCHANGED vars

-----------------------------------------------------------------------------
(***************************************************************************)
(* GET: the page, the captcha image, the logout.                           *)
(***************************************************************************)

\* launchExecution, up to a ticket for the service or to the form.  A TGC
\* that is no longer valid is removed, but stays in the flow scope.  A valid
\* one without service is shown a page and nothing else.
Launch(t, k) ==
  /\ proc[t] = Idle /\ req[t] = NoRequest
  /\ Cardinality(pages[k]) < MaxPages
  /\ \E link \in Link :
       LET valid == cookie[k] \in alive
           page  == [captcha |-> FALSE, tgt |-> cookie[k],
                     renew |-> link.renew, service |-> link.service]
       IN /\ valid => link.service
          /\ req' = [req EXCEPT ![t] = [NoRequest EXCEPT !.key = k, !.get = TRUE, !.page = page,
               !.at = IF valid /\ ~link.renew THEN "grant" ELSE "initialize"]]
          /\ cookie' = IF valid THEN cookie ELSE [cookie EXCEPT ![k] = NoTgt]
  /\ UNCHANGED <<vars, pages, captcha, drawn, spent, made, alive>>

\* CaptchaServlet: a new text for each image the form loads or a click on
\* it reloads.
DrawCaptcha(k) ==
  /\ \E p \in pages[k] : p.captcha
  /\ drawn[k] < MaxTexts
  /\ drawn' = [drawn EXCEPT ![k] = @ + 1]
  /\ captcha' = [captcha EXCEPT ![k] = drawn[k] + 1]
  /\ UNCHANGED <<vars, pages, spent, tgts, req>>

Logout(k) ==
  /\ cookie[k] # NoTgt
  /\ alive' = alive \ {cookie[k]}
  /\ cookie' = [cookie EXCEPT ![k] = NoTgt]
  /\ UNCHANGED <<vars, pages, captcha, drawn, spent, made, req>>

\* A session times out, or ends elsewhere.
SessionEnds(id) ==
  /\ id \in alive
  /\ alive' = alive \ {id}
  /\ UNCHANGED <<vars, pages, captcha, drawn, spent, cookie, made, req>>

-----------------------------------------------------------------------------
(***************************************************************************)
(* POST: a form is submitted.                                              *)
(***************************************************************************)

Post(t, k) ==
  /\ req[t] = NoRequest
  /\ Submit(t, k)
  /\ \E p \in pages[k] : \E text \in IF p.captcha THEN 0..drawn[k] ELSE {NoText} :
       req' = [req EXCEPT ![t] = [NoRequest EXCEPT !.at = "posted", !.key = k,
                 !.page = p, !.typed = text,
                 !.spentThen = IF p.captcha THEN spent[k] ELSE {}]]
  /\ UNCHANGED <<pages, captcha, drawn, spent, tgts>>

\* preHandle: a POST that comes too soon never reaches the flow.
PreHandle(t) ==
  /\ ReadRate(t) \/ DropKey(t)
  /\ req' = IF proc'[t] = Idle THEN [req EXCEPT ![t] = NoRequest] ELSE req
  /\ UNCHANGED <<pages, captcha, drawn, spent, tgts>>

\* A required field is missing: the form the request came from is shown again.
BindingFails(t) ==
  /\ IsAt(t, "posted")
  /\ Respond(t)
  /\ UNCHANGED <<pages, captcha, drawn, spent, tgts>>

\* validateCaptcha: session.getAttribute ...
ReadCaptcha(t) ==
  /\ IsAt(t, "posted") /\ req[t].page.captcha
  /\ req' = [req EXCEPT ![t].seen = captcha[req[t].key], ![t].at = "removeCaptcha"]
  /\ UNCHANGED <<vars, pages, captcha, drawn, spent, tgts>>

Validated(t, pass) ==
  req' = [req EXCEPT ![t] = [@ EXCEPT !.at = IF pass THEN "submit" ELSE "initialize",
                                      !.typed = NoText, !.seen = NoText, !.spentThen = {}]]

Matches(r) == r.typed = r.seen /\ r.typed # NoText

\* Mutation of RemoveCaptcha: only a text that matches is removed.
RemoveCaptchaOnSuccess(t) ==
  /\ IsAt(t, "removeCaptcha")
  /\ LET k == req[t].key
     IN /\ captcha' = [captcha EXCEPT ![k] = IF Matches(req[t]) THEN NoText ELSE @]
        /\ spent' = [spent EXCEPT ![k] = @ \cup ({req[t].seen, captcha[k]} \ {NoText})]
        /\ Validated(t, Matches(req[t]))
  /\ UNCHANGED <<vars, pages, drawn, tgts>>

\* ... session.removeAttribute, which takes out whatever is there by now, and
\* the comparison with what was read.
RemoveCaptcha(t) ==
  /\ IsAt(t, "removeCaptcha")
  /\ LET k == req[t].key
     IN /\ captcha' = [captcha EXCEPT ![k] = NoText]
        /\ spent' = [spent EXCEPT ![k] = @ \cup ({req[t].seen, captcha[k]} \ {NoText})]
        /\ Validated(t, Matches(req[t]))
  /\ UNCHANGED <<vars, pages, drawn, tgts>>

\* realSubmit is reached from the captcha, or at once from the plain form.
AtRealSubmit(t) ==
  \/ IsAt(t, "submit")
  \/ IsAt(t, "posted") /\ ~req[t].page.captcha

\* isRequestAskingForServiceTicket
AskingForServiceTicket(p) == p.renew /\ p.tgt # NoTgt /\ p.service

\* The credentials are refused: back to a form, or to a final page that says
\* the account is locked, expired ...
AuthenticationFailure(t) ==
  /\ AtRealSubmit(t)
  /\ ToForm(t) \/ Respond(t)
  /\ UNCHANGED <<pages, captcha, drawn, spent, tgts>>

\* grantServiceTicket, with the right credentials: a ticket, and past serviceCheck
\* to the redirect ...
RenewSucceeds(t) ==
  /\ AtRealSubmit(t) /\ AskingForServiceTicket(req[t].page)
  /\ req[t].page.tgt \in alive
  /\ Respond(t)
  /\ UNCHANGED <<pages, captcha, drawn, spent, tgts>>

\* ... or an exception: TicketCreationException ends the session.
RenewFails(t) ==
  /\ AtRealSubmit(t) /\ AskingForServiceTicket(req[t].page)
  /\ alive' \in {alive, alive \ {req[t].page.tgt}}
  /\ MoveTo(t, "initialize")
  /\ UNCHANGED <<vars, pages, captcha, drawn, spent, cookie, made>>

\* createTicketGrantingTicket and sendTicketGrantingTicket.
CreateTicketGrantingTicket(t) ==
  /\ AtRealSubmit(t) /\ ~AskingForServiceTicket(req[t].page)
  /\ made < MaxTgts
  /\ made' = made + 1
  /\ alive' = alive \cup {made'}
  /\ cookie' = [cookie EXCEPT ![req[t].key] = made']
  /\ req' = [req EXCEPT ![t].page.tgt = made', ![t].at = "serviceCheck"]
  /\ UNCHANGED <<vars, pages, captcha, drawn, spent>>

\* serviceCheck: clearThrottleInfoAfterLoginSuccess.
ServiceCheck(t) ==
  /\ IsAt(t, "serviceCheck")
  /\ ClearFlag(t)
  /\ MoveTo(t, IF req[t].page.service THEN "grant" ELSE "end")
  /\ UNCHANGED <<pages, captcha, drawn, spent, tgts>>

\* generateServiceTicket: granted, or an unauthorized service or a gateway,
\* which ends the flow too; or an error and the form again.
GenerateServiceTicket(t) ==
  /\ IsAt(t, "grant")
  /\ ToForm(t) \/ Respond(t)
  /\ UNCHANGED <<pages, captcha, drawn, spent, tgts>>

Form(t, p) == pages' = [pages EXCEPT ![req[t].key] = @ \cup {p}]

\* UnauthorizedSsoServiceException, only for a TGT that was there before: the
\* global transition leads to the plain form, whatever the flag says.
SsoRefused(t) ==
  /\ req[t].page.tgt \in alive
  /\ \/ IsAt(t, "grant") /\ req[t].get
     \/ AtRealSubmit(t) /\ AskingForServiceTicket(req[t].page)
  /\ Form(t, [req[t].page EXCEPT !.captcha = FALSE])
  /\ Respond(t)
  /\ UNCHANGED <<captcha, drawn, spent, tgts>>

\* Mutation of HasFlag: the form that was submitted is chosen again.
HasFlagSameForm(t) ==
  /\ IsAt(t, "initialize")
  /\ IF flag[req[t].key] THEN MoveTo(t, "form")
     ELSE req' = [req EXCEPT ![t].at = "form", ![t].page.captcha = FALSE]
  /\ UNCHANGED <<vars, pages, captcha, drawn, spent, tgts>>

\* determineShowCaptcha, in isThrottled: hasKey, which chooses the plain form
\* when there is no flag ...
HasFlag(t) ==
  /\ IsAt(t, "initialize")
  /\ IF flag[req[t].key] THEN MoveTo(t, "getFlag")
     ELSE req' = [req EXCEPT ![t].at = "form", ![t].page.captcha = FALSE]
  /\ UNCHANGED <<vars, pages, captcha, drawn, spent, tgts>>

\* ... and get.  A flag removed in between is null, which cannot be unboxed:
\* the exception leaves the flow, and the interceptor's postHandle out.
GetFlag(t) ==
  /\ IsAt(t, "getFlag")
  /\ \/ /\ flag[req[t].key]
        /\ req' = [req EXCEPT ![t].at = "form", ![t].page.captcha = TRUE]
        /\ UNCHANGED vars
     \/ /\ ~flag[req[t].key]
        /\ req' = [req EXCEPT ![t] = NoRequest]
        /\ IF req[t].get THEN UNCHANGED vars ELSE AuthenticationEnds(t)
  /\ UNCHANGED <<pages, captcha, drawn, spent, tgts>>

\* The view-state that was chosen; postHandle, which may raise the flag, comes
\* after it.
SendForm(t) ==
  /\ IsAt(t, "form")
  /\ Form(t, req[t].page)
  /\ Respond(t)
  /\ UNCHANGED <<captcha, drawn, spent, tgts>>

\* viewGenericLoginSuccess.
End(t) ==
  /\ IsAt(t, "end")
  /\ Respond(t)
  /\ UNCHANGED <<pages, captcha, drawn, spent, tgts>>

FlowSteps(t) ==
  \/ BindingFails(t) \/ ReadCaptcha(t) \/ RemoveCaptcha(t)
  \/ AuthenticationFailure(t) \/ RenewSucceeds(t) \/ RenewFails(t)
  \/ CreateTicketGrantingTicket(t) \/ ServiceCheck(t)
  \/ GenerateServiceTicket(t) \/ SsoRefused(t)
  \/ HasFlag(t) \/ GetFlag(t) \/ SendForm(t) \/ End(t)

\* postHandle records the failure.
PostHandle(t) == HasRecord(t) \/ GetRecord(t) \/ SetLatest(t) \/ SetFlag(t)

\* The job is left out: it only lowers counts and flags.
ThrottleSteps ==
  /\ (\E t \in Thread : PostHandle(t)) \/ Tick
  /\ UNCHANGED flowOnly

FlowStep ==
  \/ \E t \in Thread : PreHandle(t) \/ FlowSteps(t)
  \/ \E t \in Thread, k \in Key : Launch(t, k) \/ Post(t, k)
  \/ \E k \in Key : DrawCaptcha(k) \/ Logout(k)
  \/ \E id \in Tgt : SessionEnds(id)
  \/ ThrottleSteps

\* The history: each value the flag takes while a request is under way.
Remember ==
  flagWas' = [t \in Thread |->
    IF req'[t].at = "none" THEN {}
    ELSE flagWas[t] \cup {flag'[req'[t].key]}]

FlowNext == FlowStep /\ UNCHANGED setup /\ Remember

FlowSpec == FlowInit /\ [][FlowNext]_flowVars

-----------------------------------------------------------------------------
\* A captcha serves one attempt: once a validation has taken it out of the
\* session, whether it matched or not, a form that comes later does not pass
\* with it.  Two forms that come together may both pass, as both read before
\* either removes.
SpentCaptchaIsRefused ==
  [][\A t \in Thread : req[t].at = "removeCaptcha" /\ req'[t].at = "submit"
       => req[t].typed \notin req[t].spentThen]_flowVars

\* The form that initializeLogin chooses goes by the flag of this session at
\* some time since this request came, and never by what the flow scope of the
\* page says, which the client has kept since it was sent: a session flagged
\* all the while gets no plain form, and one that was never flagged no captcha.
\* hasKey and get are two commands between which another request may lower the
\* flag, and raise it again.
FormsFollowFlag ==
  \A t \in Thread : req[t].at = "form" => req[t].page.captcha \in flagWas[t]
=============================================================================
