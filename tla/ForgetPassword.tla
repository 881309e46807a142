---------------------------- MODULE ForgetPassword --------------------------
(***************************************************************************)
(* The recovery of a forgotten password: the web flow of                   *)
(* forget-webflow.xml over the handlers of ForgetAction.  A user proves by *)
(* a secret, the uuid of a link sent by mail or a code sent by SMS, that   *)
(* the account is theirs, and then sets a new password.                    *)
(*                                                                         *)
(* Both kinds of secret live under one Redis key per user.  The flow       *)
(* executor keeps a snapshot of every page it showed, with the flow scope  *)
(* of that moment, so an event may be submitted on any of them: the Back   *)
(* button.  Requests of one execution are serialised by its lock, those of *)
(* different executions are not.                                           *)
(***************************************************************************)
EXTENDS Integers, FiniteSets

CONSTANTS
  User, Address,
  MailBook, PhoneBook,   \* sapadressbook: whose mail, whose phone
  Execution,             \* executions of the flow, by any browser
  NoUser, NoAddress,
  Expire,                \* reset.password.expire.time, in minutes
  SmsLimit,              \* SEND_SMS_LIMIT_MILES, in minutes
  MaxNow, MaxSecrets     \* bounds

ASSUME ForgetAssumption ==
  /\ MailBook \subseteq User \X Address /\ PhoneBook \subseteq User \X Address
  /\ NoUser \notin User /\ NoAddress \notin Address
  /\ Expire \in Nat \ {0} /\ SmsLimit \in Nat
  /\ MaxNow \in Nat /\ MaxSecrets \in Nat

VARIABLES
  now,        \* minutes
  key,        \* forget_pwd_<user>: the secret, and when Redis drops it
  issued,     \* every secret made, and whom it was sent to
  pages,      \* the snapshots of each execution
  changing,   \* the snapshot whose changePassword is at its second step
  password,   \* the secret by which the password was last set; 0: none
  spent       \* the secrets of a user before the latest finished reset

vars == <<now, key, issued, pages, changing, password, spent>>

Secret == 1..MaxSecrets
Wrong == 0        \* what a user types who has no secret
Never == -1

Views == {"viewForgetPhonePage", "viewForgetEmailPage", "viewSendConfirmSMS",
          "viewChangePage"}

\* The view, and of the flow scope what the handlers read.  proof is the
\* secret that opened viewChangePage.
Page == [at : Views, username : User \cup {NoUser},
         phone : Address \cup {NoAddress}, lastSms : Never..MaxNow,
         proof : Secret \cup {0}]

NewPage == [at |-> "viewForgetPhonePage", username |-> NoUser,
            phone |-> NoAddress, lastSms |-> Never, proof |-> 0]

Message == [secret : Secret, user : User, to : Address \cup {NoAddress},
            by : {"mail", "sms"}, date : 0..MaxNow]

NoKey == [secret |-> 0, until |-> 0]
NotChanging == {}

\* What the handlers of a view take out of the scope is there: the tests for
\* an empty username, mail or phone (lines 157, 197, 241, 269) never succeed.
ScopeOK(p) ==
  /\ p.at \in {"viewSendConfirmSMS", "viewChangePage"} => p.username # NoUser
  /\ p.at = "viewSendConfirmSMS" => p.phone # NoAddress

TypeOK ==
  /\ now \in 0..MaxNow
  /\ key \in [User -> [secret : 0..MaxSecrets, until : 0..(MaxNow + Expire)]]
  /\ issued \subseteq Message
  /\ pages \in [Execution -> SUBSET Page]
  /\ \A e \in Execution : \A p \in pages[e] : ScopeOK(p)
  /\ changing \in [Execution -> SUBSET {p \in Page : p.at = "viewChangePage" /\ ScopeOK(p)}]
  /\ password \in [User -> 0..MaxSecrets]
  /\ spent \subseteq Secret

Init ==
  /\ now = 0
  /\ key = [u \in User |-> NoKey]
  /\ issued = {}
  /\ pages = [e \in Execution |-> {}]
  /\ changing = [e \in Execution |-> NotChanging]
  /\ password = [u \in User |-> 0]
  /\ spent = {}

-----------------------------------------------------------------------------

\* opsForValue().get, and the comparison with what the user sent.
Matches(u, v) == v # Wrong /\ key[u].secret = v /\ now < key[u].until

\* opsForValue().set with a time to live: a new secret replaces the old one.
\* to is NoAddress when the message could not be made.
Issue(u, to, by) ==
  LET secret == Cardinality(issued) + 1
  IN  /\ secret \in Secret
      /\ key' = [key EXCEPT ![u] = [secret |-> secret, until |-> now + Expire]]
      /\ issued' = issued \cup {[secret |-> secret, user |-> u, to |-> to,
                                 by |-> by, date |-> now]}

\* The secrets a user may type: the sending threads may lose any message.
Typed == {Wrong} \cup {m.secret : m \in {n \in issued : n.to # NoAddress}}

Idle(e) == changing[e] = NotChanging

Show(e, p) == pages' = [pages EXCEPT ![e] = @ \cup {p}]
End(e) == pages' = [pages EXCEPT ![e] = {}]

SmsTooSoon(p) == p.lastSms # Never /\ now - p.lastSms < SmsLimit

\* Entering viewSendConfirmSMS runs sendConfirmSMS.
EnterSms(e, p) ==
  LET sms == [p EXCEPT !.at = "viewSendConfirmSMS"]
  IN  IF SmsTooSoon(p)
        THEN Show(e, sms) /\ UNCHANGED <<key, issued>>
        ELSE /\ Issue(p.username, p.phone, "sms")
             /\ Show(e, [sms EXCEPT !.lastSms = now])

\* A secret v of user u opens the page of the new password.
EnterChange(e, p, u, v) ==
  /\ Show(e, [p EXCEPT !.at = "viewChangePage", !.username = u, !.proof = v])
  /\ UNCHANGED <<key, issued>>

-----------------------------------------------------------------------------

\* A new execution, of the bare URL or of a mailed link: state chose.
Launch(e, u, v) ==
  /\ pages[e] = {}
  /\ IF Matches(u, v)
       THEN EnterChange(e, NewPage, u, v)
       ELSE Show(e, NewPage) /\ UNCHANGED <<key, issued>>
  /\ UNCHANGED <<now, changing, password, spent>>

\* The links between the two first pages.
Switch(e, p) ==
  /\ Idle(e)
  /\ \/ p.at = "viewForgetPhonePage"
        /\ Show(e, [p EXCEPT !.at = "viewForgetEmailPage"])
     \/ p.at = "viewForgetEmailPage"
        /\ Show(e, [p EXCEPT !.at = "viewForgetPhonePage"])
  /\ UNCHANGED <<now, key, issued, changing, password, spent>>

\* The scope after checkUsernameAndEmail accepts; a refusal shows the page
\* again with the same scope.
CheckUsernameAndEmail(p, u, a) ==
  IF <<u, a>> \in MailBook THEN {[p EXCEPT !.username = u]} ELSE {}

\* Submit on viewForgetEmailPage: checkUsernameAndEmail, sendConfirmMail.
\* The execution ends, or Redis or the mail library threw and the page is back.
SubmitEmail(e, p, u, a) ==
  /\ Idle(e) /\ p.at = "viewForgetEmailPage"
  /\ \E q \in CheckUsernameAndEmail(p, u, a) :
       \/ Issue(q.username, a, "mail") /\ End(e)
       \/ Issue(q.username, NoAddress, "mail") /\ Show(e, q)
       \/ Show(e, q) /\ UNCHANGED <<key, issued>>
  /\ UNCHANGED <<now, changing, password, spent>>

\* Mutation of CheckUsernameAndPhone: a username in scope is kept.
CheckUsernameAndPhoneKeepsUser(p, u, a) ==
  IF <<u, a>> \in PhoneBook
    THEN {[p EXCEPT !.username = IF @ = NoUser THEN u ELSE @, !.phone = a]}
    ELSE {}

\* Mutation of CheckUsernameAndPhone: the phone is not put into the scope.
CheckUsernameAndPhoneNoPhone(p, u, a) ==
  IF <<u, a>> \in PhoneBook THEN {[p EXCEPT !.username = u]} ELSE {}

\* The scope after checkUsernameAndPhone accepts.
CheckUsernameAndPhone(p, u, a) ==
  IF <<u, a>> \in PhoneBook THEN {[p EXCEPT !.username = u, !.phone = a]} ELSE {}

\* Submit on viewForgetPhonePage.
SubmitPhone(e, p, u, a) ==
  /\ Idle(e) /\ p.at = "viewForgetPhonePage"
  /\ \E q \in CheckUsernameAndPhone(p, u, a) : EnterSms(e, q)
  /\ UNCHANGED <<now, changing, password, spent>>

\* Send on viewSendConfirmSMS.
Resend(e, p) ==
  /\ Idle(e) /\ p.at = "viewSendConfirmSMS"
  /\ EnterSms(e, p)
  /\ UNCHANGED <<now, changing, password, spent>>

\* Submit on viewSendConfirmSMS: validateSMS.  A wrong code enters the view
\* again, and so may send a new code.
SubmitSms(e, p, v) ==
  /\ Idle(e) /\ p.at = "viewSendConfirmSMS"
  /\ IF Matches(p.username, v)
       THEN EnterChange(e, p, p.username, v)
       ELSE EnterSms(e, p)
  /\ UNCHANGED <<now, changing, password, spent>>

\* Mutation of ResetPwd: the account is taken from the request.
ResetPwdOfRequest(e, p) ==
  /\ Idle(e) /\ p.at = "viewChangePage"
  /\ \E u \in User : password' = [password EXCEPT ![u] = p.proof]
  /\ changing' = [changing EXCEPT ![e] = {p}]
  /\ UNCHANGED <<now, key, issued, pages, spent>>

\* Submit on viewChangePage: changePassword updates the database.  When the
\* audit advice throws after it, the flow reports a failure, the page is back
\* and the password is changed.  An update that fails changes nothing.
ResetPwd(e, p) ==
  /\ Idle(e) /\ p.at = "viewChangePage"
  /\ password' = [password EXCEPT ![p.username] = p.proof]
  /\ \/ changing' = [changing EXCEPT ![e] = {p}]
     \/ UNCHANGED changing
  /\ UNCHANGED <<now, key, issued, pages, spent>>

\* Mutation of ForgetKey: the key is left to expire.
ForgetKeyNever(u) == key' = [key EXCEPT ![u] = @]

\* redisTemplate.delete
ForgetKey(u) == key' = [key EXCEPT ![u] = NoKey]

\* ... then deletes the key, whatever secret it holds by now, and ends; or
\* Redis threw and the page is back.
FinishChange(e, p) ==
  /\ p \in changing[e]
  /\ changing' = [changing EXCEPT ![e] = NotChanging]
  /\ \/ /\ ForgetKey(p.username)
        /\ spent' = spent \cup {m.secret : m \in {n \in issued : n.user = p.username}}
        /\ End(e)
     \/ UNCHANGED <<key, spent, pages>>
  /\ UNCHANGED <<now, issued, password>>

Tick ==
  /\ now < MaxNow
  /\ now' = now + 1
  /\ UNCHANGED <<key, issued, pages, changing, password, spent>>

Event(e, p) ==
  \/ Switch(e, p)
  \/ \E u \in User, a \in Address : SubmitEmail(e, p, u, a) \/ SubmitPhone(e, p, u, a)
  \/ Resend(e, p)
  \/ \E v \in Typed : SubmitSms(e, p, v)
  \/ ResetPwd(e, p)

Next ==
  \/ \E e \in Execution :
       \/ \E u \in User, v \in Typed : Launch(e, u, v)
       \/ \E p \in pages[e] : Event(e, p)
       \/ \E p \in changing[e] : FinishChange(e, p)
  \/ Tick

Spec == Init /\ [][Next]_vars

-----------------------------------------------------------------------------

\* A secret is sent only to an address the directory lists for its user, also
\* when one execution went through both paths with different accounts.
SecretGoesToOwner ==
  \A m \in issued : m.to # NoAddress =>
    <<m.user, m.to>> \in (IF m.by = "mail" THEN MailBook ELSE PhoneBook)

\* A password is set only through a page that a secret sent for that very
\* account opened, whichever pages the user went back to.
PasswordIsProven ==
  \A u \in User : password[u] # 0 =>
    \E m \in issued : m.secret = password[u] /\ m.user = u /\ m.to # NoAddress

\* The page of the new password opens only with the newest secret of its user,
\* within its time, and never with one from before a finished reset.
OpensWithLiveSecret ==
  [][\A e \in Execution : \A p \in pages'[e] \ pages[e] :
       p.at = "viewChangePage" =>
         /\ p.proof \notin spent
         /\ \E m \in issued :
              /\ m.secret = p.proof /\ m.user = p.username
              /\ now < m.date + Expire
              /\ \A n \in issued : n.user = m.user => n.secret <= m.secret]_vars

=============================================================================
