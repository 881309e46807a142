---------------------------- MODULE ForgetProofs ----------------------------
(***************************************************************************)
(* Proofs about the password recovery, for every set of users, directory,  *)
(* number of executions and time to live.                                  *)
(*                                                                         *)
(* The invariant has two halves.  StoreInv is about Redis and the messages:*)
(* secrets are numbered, and a key holds the newest one of its user.       *)
(* FlowInv is about the pages: what a view reads from its scope was put    *)
(* there by a check that belongs to it.  An event changes the first half   *)
(* by Issue or not at all, and adds at most one page to the second.        *)
(***************************************************************************)
EXTENDS ForgetPassword, FiniteSetTheorems, TLAPS

ToOwner(m) ==
  m.to # NoAddress =>
    <<m.user, m.to>> \in (IF m.by = "mail" THEN MailBook ELSE PhoneBook)

StoreType ==
  /\ now \in 0..MaxNow
  /\ key \in [User -> [secret : 0..MaxSecrets, until : 0..(MaxNow + Expire)]]
  /\ issued \subseteq Message
  /\ spent \subseteq Secret

\* Secrets are numbered from 1 in the order they were made.
Numbered ==
  /\ IsFiniteSet(issued)
  /\ \A m \in issued : m.secret \in 1..Cardinality(issued)
  /\ \A m, n \in issued : m.secret = n.secret => m = n

\* m is what the key of u holds.
Holds(u, m) ==
  /\ m.secret = key[u].secret
  /\ m.user = u
  /\ key[u].until = m.date + Expire
  /\ m.secret \notin spent
  /\ \A n \in issued : n.user = u => n.secret <= m.secret

KeysHoldNewest ==
  \A u \in User : key[u].secret # 0 => \E m \in issued : Holds(u, m)

SpentWereIssued == \A s \in spent : \E m \in issued : m.secret = s

StoreInv ==
  /\ StoreType
  /\ Numbered
  /\ KeysHoldNewest
  /\ SpentWereIssued
  /\ \A m \in issued : ToOwner(m)

\* Secret v was sent to user u.
SentTo(u, v) ==
  \E m \in issued : m.secret = v /\ m.user = u /\ m.to # NoAddress

PageInv(p) ==
  /\ p \in Page
  /\ p.at = "viewSendConfirmSMS" => <<p.username, p.phone>> \in PhoneBook
  /\ p.at = "viewChangePage" => p.username \in User /\ SentTo(p.username, p.proof)

FlowInv ==
  /\ pages \in [Execution -> SUBSET Page]
  /\ \A e \in Execution : \A p \in pages[e] : PageInv(p)
  /\ changing \in [Execution -> SUBSET Page]
  /\ \A e \in Execution : \A p \in changing[e] : PageInv(p) /\ p.at = "viewChangePage"
  /\ password \in [User -> 0..MaxSecrets]
  /\ \A u \in User : password[u] # 0 => SentTo(u, password[u])

Inv == StoreInv /\ FlowInv

USE ForgetAssumption

-----------------------------------------------------------------------------
(***************************************************************************)
(* The store.                                                              *)
(***************************************************************************)

\* Making a secret keeps the store's half of the invariant.
LEMMA IssueKeepsStore ==
  ASSUME StoreInv, NEW u \in User, NEW to \in Address \cup {NoAddress},
         NEW by \in {"mail", "sms"}, Issue(u, to, by), UNCHANGED <<now, spent>>,
         to # NoAddress => <<u, to>> \in (IF by = "mail" THEN MailBook ELSE PhoneBook)
  PROVE  StoreInv' /\ issued \subseteq issued'
<1> DEFINE secret == Cardinality(issued) + 1
           new == [secret |-> secret, user |-> u, to |-> to, by |-> by, date |-> now]
<1>1. /\ secret \in Secret
      /\ key' = [key EXCEPT ![u] = [secret |-> secret, until |-> now + Expire]]
      /\ issued' = issued \cup {new}
  BY DEF Issue
<1>2. /\ IsFiniteSet(issued) /\ Cardinality(issued) \in Nat
      /\ \A m \in issued : m.secret \in 1..Cardinality(issued)
  BY FS_CardinalityType DEF StoreInv, Numbered
<1>3. new \notin issued
  BY <1>2
<1>4. IsFiniteSet(issued') /\ Cardinality(issued') = secret
  BY <1>1, <1>2, <1>3, FS_AddElement
<1>5. StoreType'
  <2>1. new \in Message
    BY <1>1 DEF StoreInv, StoreType, Message
  <2>2. [secret |-> secret, until |-> now + Expire]
          \in [secret : 0..MaxSecrets, until : 0..(MaxNow + Expire)]
    BY <1>1 DEF StoreInv, StoreType, Secret
  <2> QED
    BY <1>1, <2>1, <2>2 DEF StoreInv, StoreType
<1>6. Numbered'
  <2>1. \A m \in issued' : m.secret \in 1..secret
    BY <1>1, <1>2
  <2>2. \A m, n \in issued' : m.secret = n.secret => m = n
    BY <1>1, <1>2 DEF StoreInv, Numbered
  <2> QED
    BY <1>4, <2>1, <2>2 DEF Numbered
<1>7. SpentWereIssued'
  BY <1>1 DEF StoreInv, SpentWereIssued
<1>8. KeysHoldNewest'
  <2> SUFFICES ASSUME NEW w \in User, key'[w].secret # 0
               PROVE  \E m \in issued' : Holds(w, m)'
    BY DEF KeysHoldNewest
  <2>1. CASE w = u
    <3>1. new.secret \notin spent
      BY <1>2 DEF StoreInv, SpentWereIssued
    <3>2. \A n \in issued' : n.secret <= new.secret
      BY <1>1, <1>2
    <3>3. key'[w] = [secret |-> secret, until |-> now + Expire]
      BY <1>1, <2>1 DEF StoreInv, StoreType
    <3>4. PICK m \in issued' : m = new
      BY <1>1
    <3>5. Holds(w, m)'
      BY <1>1, <2>1, <3>1, <3>2, <3>3, <3>4 DEF Holds
    <3> QED
      BY <3>5
  <2>2. CASE w # u
    <3>1. key'[w] = key[w]
      BY <1>1, <2>2 DEF StoreInv, StoreType
    <3>2. PICK m \in issued : Holds(w, m)
      BY <3>1 DEF StoreInv, KeysHoldNewest
    <3> QED
      BY <1>1, <2>2, <3>1, <3>2 DEF Holds
  <2> QED
    BY <2>1, <2>2
<1>9. \A m \in issued' : ToOwner(m)
  BY <1>1 DEF StoreInv, ToOwner
<1> QED
  BY <1>1, <1>5, <1>6, <1>7, <1>8, <1>9 DEF StoreInv

LEMMA StoreUntouched ==
  ASSUME StoreInv, UNCHANGED <<now, key, issued, spent>>
  PROVE  StoreInv' /\ issued \subseteq issued'
BY DEF StoreInv, StoreType, Numbered, KeysHoldNewest, Holds, SpentWereIssued, ToOwner

\* What opens the page of the new password was sent to that user.
LEMMA MatchIsSent ==
  ASSUME StoreInv, NEW u \in User, NEW v \in Typed, Matches(u, v)
  PROVE  v \in Secret /\ SentTo(u, v)
<1>1. v # 0 /\ key[u].secret = v
  BY DEF Matches, Wrong
<1>2. PICK n \in issued : n.to # NoAddress /\ n.secret = v
  BY <1>1 DEF Typed, Wrong
<1>3. PICK m \in issued : m.secret = v /\ m.user = u
  BY <1>1 DEF StoreInv, KeysHoldNewest, Holds
<1>4. m = n
  BY <1>2, <1>3 DEF StoreInv, Numbered
<1> QED
  BY <1>2, <1>3, <1>4 DEF SentTo, StoreInv, StoreType, Message

-----------------------------------------------------------------------------
(***************************************************************************)
(* The pages.                                                              *)
(***************************************************************************)

\* A page stays sound: messages are never forgotten.
LEMMA PageStays ==
  ASSUME NEW p, PageInv(p), issued \subseteq issued'
  PROVE  PageInv(p)'
BY DEF PageInv, SentTo

\* An event that shows one more sound page, or ends the execution, keeps the
\* flow's half of the invariant.
LEMMA ShowKeepsFlow ==
  ASSUME FlowInv, issued \subseteq issued', UNCHANGED <<changing, password>>,
         NEW e \in Execution, NEW p, PageInv(p)', Show(e, p) \/ End(e)
  PROVE  FlowInv'
<1>1. pages' \in [Execution -> SUBSET Page]
  BY DEF FlowInv, Show, End, PageInv
<1>2. ASSUME NEW f \in Execution, NEW q \in pages'[f] PROVE PageInv(q)'
  <2>1. q \in pages[f] \/ q = p
    BY DEF FlowInv, Show, End
  <2> QED
    BY <2>1, PageStays DEF FlowInv
<1>3. ASSUME NEW f \in Execution, NEW q \in changing'[f]
      PROVE  PageInv(q)' /\ q.at = "viewChangePage"
  BY PageStays DEF FlowInv
<1>4. ASSUME NEW u \in User, NEW v, v = password[u], v # 0
      PROVE  SentTo(u, v)'
  BY <1>4 DEF FlowInv, SentTo
<1>5. \A u \in User : password'[u] # 0 =>
        \E m \in issued' : m.secret = password'[u] /\ m.user = u /\ m.to # NoAddress
  BY <1>4 DEF SentTo
<1> QED
  BY <1>1, <1>2, <1>3, <1>5 DEF FlowInv, SentTo

LEMMA FlowUntouched ==
  ASSUME FlowInv, UNCHANGED <<issued, pages, changing, password>>
  PROVE  FlowInv'
BY DEF FlowInv, PageInv, SentTo

\* Entering viewSendConfirmSMS, for whatever phone the scope rightly holds.
LEMMA EnterSmsKeeps ==
  ASSUME Inv, NEW e \in Execution, NEW p \in Page,
         <<p.username, p.phone>> \in PhoneBook, EnterSms(e, p),
         UNCHANGED <<now, changing, password, spent>>
  PROVE  Inv'
<1>1. p.username \in User /\ p.phone \in Address
  BY DEF Page
<1>2. CASE SmsTooSoon(p)
  <2>1. StoreInv' /\ issued \subseteq issued'
    BY <1>2, StoreUntouched DEF EnterSms, Inv
  <2>2. PageInv([p EXCEPT !.at = "viewSendConfirmSMS"])'
    BY DEF PageInv, Page, Views
  <2> QED
    BY <1>2, <2>1, <2>2, ShowKeepsFlow DEF EnterSms, Inv
<1>3. CASE ~SmsTooSoon(p)
  <2>1. StoreInv' /\ issued \subseteq issued'
    BY <1>1, <1>3, IssueKeepsStore DEF EnterSms, Inv
  <2>2. PICK q : q = [p EXCEPT !.at = "viewSendConfirmSMS", !.lastSms = now]
    OBVIOUS
  <2>3. PageInv(q)
    <3>1. now \in Never..MaxNow
      BY DEF Inv, StoreInv, StoreType, Never
    <3>2. q \in Page
      BY <2>2, <3>1 DEF Page, Views
    <3>3. q.username = p.username /\ q.phone = p.phone /\ q.at = "viewSendConfirmSMS"
      BY <2>2 DEF Page
    <3> QED
      BY <3>2, <3>3 DEF PageInv
  <2>4. PageInv(q)'
    BY <2>1, <2>3, PageStays
  <2>5. Show(e, q)
    BY <1>3, <2>2 DEF EnterSms
  <2> QED
    BY <2>1, <2>4, <2>5, ShowKeepsFlow DEF Inv
<1> QED
  BY <1>2, <1>3

\* Opening the page of the new password with a matching secret.
LEMMA EnterChangeKeeps ==
  ASSUME Inv, NEW e \in Execution, NEW p \in Page, NEW u \in User,
         NEW v \in Typed, Matches(u, v), EnterChange(e, p, u, v),
         UNCHANGED <<now, changing, password, spent>>
  PROVE  Inv'
<1> DEFINE q == [p EXCEPT !.at = "viewChangePage", !.username = u, !.proof = v]
<1>1. StoreInv' /\ issued' = issued
  BY StoreUntouched DEF EnterChange, Inv
<1>2. v \in Secret /\ SentTo(u, v)
  BY MatchIsSent DEF Inv
<1>3. PageInv(q)
  <2>1. q \in Page
    BY <1>2 DEF Page, Views
  <2>2. q.at = "viewChangePage" /\ q.username = u /\ q.proof = v
    BY DEF Page
  <2> QED
    BY <1>2, <2>1, <2>2 DEF PageInv
<1>4. PageInv(q)'
  BY <1>1, <1>3, PageStays
<1> QED
  BY <1>1, <1>4, ShowKeepsFlow DEF EnterChange, Inv

-----------------------------------------------------------------------------
(***************************************************************************)
(* The actions.                                                            *)
(***************************************************************************)

LEMMA InitInv == Init => Inv
<1> SUFFICES ASSUME Init PROVE Inv
  OBVIOUS
<1>1. StoreInv
  BY FS_EmptySet DEF Init, NoKey, StoreInv, StoreType, Numbered, KeysHoldNewest,
     SpentWereIssued, Message
<1>2. FlowInv
  BY DEF Init, NotChanging, FlowInv
<1> QED
  BY <1>1, <1>2 DEF Inv

LEMMA LaunchKeeps ==
  ASSUME Inv, NEW e \in Execution, NEW u \in User, NEW v \in Typed, Launch(e, u, v)
  PROVE  Inv'
<1>1. NewPage \in Page
  BY DEF NewPage, Page, Views, Never
<1>2. CASE Matches(u, v)
  BY <1>1, <1>2, EnterChangeKeeps DEF Launch
<1>3. CASE ~Matches(u, v)
  <2>1. StoreInv' /\ issued' = issued
    BY <1>3, StoreUntouched DEF Launch, Inv
  <2>2. PageInv(NewPage)
    BY <1>1 DEF PageInv, NewPage
  <2>3. PageInv(NewPage)'
    BY <2>1, <2>2, PageStays
  <2> QED
    BY <1>3, <2>1, <2>3, ShowKeepsFlow DEF Launch, Inv
<1> QED
  BY <1>2, <1>3

LEMMA SwitchKeeps ==
  ASSUME Inv, NEW e \in Execution, NEW p \in pages[e], Switch(e, p)
  PROVE  Inv'
<1>1. StoreInv' /\ issued' = issued
  BY StoreUntouched DEF Switch, Inv
<1>2. PICK q \in Page : Show(e, q) /\ q.at \in {"viewForgetPhonePage", "viewForgetEmailPage"}
  BY DEF Switch, Inv, FlowInv, PageInv, Page, Views
<1>3. PageInv(q)
  BY <1>2 DEF PageInv
<1>4. PageInv(q)'
  BY <1>1, <1>3, PageStays
<1> QED
  BY <1>1, <1>2, <1>4, ShowKeepsFlow DEF Switch, Inv

LEMMA SubmitEmailKeeps ==
  ASSUME Inv, NEW e \in Execution, NEW p \in pages[e],
         NEW u \in User, NEW a \in Address, SubmitEmail(e, p, u, a)
  PROVE  Inv'
<1>1. /\ <<u, a>> \in MailBook /\ p \in Page /\ p.at = "viewForgetEmailPage"
      /\ UNCHANGED <<now, changing, password, spent>>
  BY DEF SubmitEmail, CheckUsernameAndEmail, Inv, FlowInv
<1>2. PICK q : q = [p EXCEPT !.username = u]
  OBVIOUS
<1>3. q \in Page /\ q.username = u /\ q.at = "viewForgetEmailPage"
  BY <1>1, <1>2 DEF Page
<1>4. \/ Issue(u, a, "mail") /\ End(e)
      \/ Issue(u, NoAddress, "mail") /\ Show(e, q)
      \/ Show(e, q) /\ UNCHANGED <<key, issued>>
  BY <1>1, <1>2, <1>3 DEF SubmitEmail, CheckUsernameAndEmail
<1>5. StoreInv' /\ issued \subseteq issued'
  <2>1. CASE Issue(u, a, "mail")
    BY <1>1, <2>1, IssueKeepsStore DEF Inv
  <2>2. CASE Issue(u, NoAddress, "mail")
    BY <1>1, <2>2, IssueKeepsStore DEF Inv
  <2>3. CASE UNCHANGED <<key, issued>>
    BY <1>1, <2>3, StoreUntouched DEF Inv
  <2> QED
    BY <1>4, <2>1, <2>2, <2>3
<1>6. PageInv(q)
  BY <1>3 DEF PageInv
<1>7. PageInv(q)'
  BY <1>5, <1>6, PageStays
<1> QED
  BY <1>1, <1>4, <1>5, <1>7, ShowKeepsFlow DEF Inv

LEMMA SubmitPhoneKeeps ==
  ASSUME Inv, NEW e \in Execution, NEW p \in pages[e],
         NEW u \in User, NEW a \in Address, SubmitPhone(e, p, u, a)
  PROVE  Inv'
<1>1. /\ <<u, a>> \in PhoneBook /\ p \in Page
      /\ UNCHANGED <<now, changing, password, spent>>
  BY DEF SubmitPhone, CheckUsernameAndPhone, Inv, FlowInv
<1>2. PICK q : q = [p EXCEPT !.username = u, !.phone = a]
  OBVIOUS
<1>3. q \in Page /\ q.username = u /\ q.phone = a
  BY <1>1, <1>2 DEF Page
<1>4. EnterSms(e, q)
  BY <1>1, <1>2 DEF SubmitPhone, CheckUsernameAndPhone
<1> QED
  BY <1>1, <1>3, <1>4, EnterSmsKeeps

LEMMA ResendKeeps ==
  ASSUME Inv, NEW e \in Execution, NEW p \in pages[e], Resend(e, p)
  PROVE  Inv'
<1>1. p \in Page /\ <<p.username, p.phone>> \in PhoneBook
  BY DEF Resend, Inv, FlowInv, PageInv
<1> QED
  BY <1>1, EnterSmsKeeps DEF Resend

LEMMA SubmitSmsKeeps ==
  ASSUME Inv, NEW e \in Execution, NEW p \in pages[e], NEW v \in Typed,
         SubmitSms(e, p, v)
  PROVE  Inv'
<1>1. p \in Page /\ <<p.username, p.phone>> \in PhoneBook
  BY DEF SubmitSms, Inv, FlowInv, PageInv
<1>2. p.username \in User
  BY <1>1
<1>3. CASE Matches(p.username, v)
  BY <1>1, <1>2, <1>3, EnterChangeKeeps DEF SubmitSms
<1>4. CASE ~Matches(p.username, v)
  BY <1>1, <1>4, EnterSmsKeeps DEF SubmitSms
<1> QED
  BY <1>3, <1>4
LEMMA ResetPwdKeeps ==
  ASSUME Inv, NEW e \in Execution, NEW p \in pages[e], ResetPwd(e, p)
  PROVE  Inv'
<1>1. StoreInv' /\ issued' = issued
  BY StoreUntouched DEF ResetPwd, Inv
<1>2. /\ PageInv(p) /\ p.at = "viewChangePage" /\ p.username \in User
      /\ p \in Page /\ SentTo(p.username, p.proof)
  BY DEF ResetPwd, Inv, FlowInv, PageInv
<1>3. password' = [password EXCEPT ![p.username] = p.proof]
  BY DEF ResetPwd
<1>4. password' \in [User -> 0..MaxSecrets]
  BY <1>2, <1>3 DEF Inv, FlowInv, Page, Secret
<1>5. ASSUME NEW u \in User, password'[u] # 0
      PROVE  \E m \in issued' : m.secret = password'[u] /\ m.user = u /\ m.to # NoAddress
  BY <1>1, <1>2, <1>3, <1>5 DEF Inv, FlowInv, SentTo
<1>6. changing' \in [Execution -> SUBSET Page]
  BY <1>2 DEF ResetPwd, Inv, FlowInv
<1>7. ASSUME NEW f \in Execution, NEW q \in changing'[f]
      PROVE  PageInv(q)' /\ q.at = "viewChangePage"
  <2>1. q \in changing[f] \/ q = p
    BY DEF ResetPwd, Inv, FlowInv
  <2> QED
    BY <1>1, <1>2, <2>1, PageStays DEF Inv, FlowInv
<1>8. pages' = pages /\ \A f \in Execution : \A q \in pages[f] : PageInv(q)'
  BY <1>1, PageStays DEF ResetPwd, Inv, FlowInv
<1>9. FlowInv'
  BY <1>4, <1>5, <1>6, <1>7, <1>8 DEF Inv, FlowInv, SentTo
<1> QED
  BY <1>1, <1>9 DEF Inv

LEMMA FinishChangeKeeps ==
  ASSUME Inv, NEW e \in Execution, NEW p \in changing[e], FinishChange(e, p)
  PROVE  Inv'
<1> DEFINE theirs == {m.secret : m \in {n \in issued : n.user = p.username}}
<1>1. p \in Page /\ p.username \in User
  BY DEF Inv, FlowInv, PageInv
<1>2. StoreInv' /\ issued' = issued
  <2>1. CASE UNCHANGED <<key, spent>>
    BY <2>1, StoreUntouched DEF FinishChange, Inv
  <2>2. CASE ForgetKey(p.username) /\ spent' = spent \cup theirs
    <3>1. /\ issued' = issued /\ now' = now
          /\ key' = [key EXCEPT ![p.username] = NoKey]
      BY <2>2 DEF FinishChange, ForgetKey
    <3>2. StoreType'
      BY <1>1, <2>2, <3>1 DEF Inv, StoreInv, StoreType, NoKey, Message
    <3>3. KeysHoldNewest'
      <4> SUFFICES ASSUME NEW w \in User, key'[w].secret # 0
                   PROVE  \E m \in issued' : Holds(w, m)'
        BY DEF KeysHoldNewest
      <4>1. w # p.username /\ key'[w] = key[w]
        BY <1>1, <3>1 DEF Inv, StoreInv, StoreType, NoKey
      <4>2. PICK m \in issued : Holds(w, m)
        BY <4>1 DEF Inv, StoreInv, KeysHoldNewest
      <4>3. m.secret \notin theirs
        BY <4>1, <4>2 DEF Holds, Inv, StoreInv, Numbered
      <4>4. Holds(w, m)'
        BY <2>2, <3>1, <4>1, <4>2, <4>3 DEF Holds
      <4> QED
        BY <3>1, <4>4
    <3>4. Numbered' /\ SpentWereIssued' /\ \A m \in issued' : ToOwner(m)
      BY <2>2, <3>1 DEF Inv, StoreInv, Numbered, SpentWereIssued
    <3> QED
      BY <3>1, <3>2, <3>3, <3>4 DEF StoreInv
  <2> QED
    BY <2>1, <2>2 DEF FinishChange
<1>3. /\ password' = password
      /\ changing' = [changing EXCEPT ![e] = {}]
      /\ pages' = pages \/ pages' = [pages EXCEPT ![e] = {}]
  BY DEF FinishChange, NotChanging, End
<1>4. /\ pages' \in [Execution -> SUBSET Page]
      /\ changing' \in [Execution -> SUBSET Page]
  BY <1>3 DEF Inv, FlowInv
<1>5. ASSUME NEW f \in Execution, NEW q \in pages'[f] PROVE PageInv(q)'
  <2>1. q \in pages[f]
    BY <1>3 DEF Inv, FlowInv
  <2> QED
    BY <1>2, <2>1, PageStays DEF Inv, FlowInv
<1>6. ASSUME NEW f \in Execution, NEW q \in changing'[f]
      PROVE  PageInv(q)' /\ q.at = "viewChangePage"
  <2>1. q \in changing[f]
    BY <1>3 DEF Inv, FlowInv
  <2> QED
    BY <1>2, <2>1, PageStays DEF Inv, FlowInv
<1>7. FlowInv'
  BY <1>2, <1>3, <1>4, <1>5, <1>6 DEF Inv, FlowInv, SentTo
<1> QED
  BY <1>2, <1>7 DEF Inv

LEMMA TickKeeps == Inv /\ Tick => Inv'
<1> SUFFICES ASSUME Inv, Tick PROVE Inv'
  OBVIOUS
<1>1. now' \in 0..MaxNow
  BY DEF Tick, Inv, StoreInv, StoreType
<1>2. StoreInv'
  BY <1>1 DEF Tick, Inv, StoreInv, StoreType, Numbered, KeysHoldNewest, Holds,
     SpentWereIssued
<1> QED
  BY <1>2, FlowUntouched DEF Tick, Inv

LEMMA NextKeeps == Inv /\ [Next]_vars => Inv'
<1> SUFFICES ASSUME Inv, [Next]_vars PROVE Inv'
  OBVIOUS
<1>1. ASSUME NEW e \in Execution, NEW p \in pages[e], Event(e, p) PROVE Inv'
  BY <1>1, SwitchKeeps, SubmitEmailKeeps, SubmitPhoneKeeps, ResendKeeps,
     SubmitSmsKeeps, ResetPwdKeeps DEF Event
<1>2. CASE UNCHANGED vars
  BY <1>2, StoreUntouched, FlowUntouched DEF vars, Inv
<1> QED
  BY <1>1, <1>2, LaunchKeeps, FinishChangeKeeps, TickKeeps DEF Next

LEMMA SpecInv == Spec => []Inv
<1> QED
  BY InitInv, NextKeeps, PTL DEF Spec

-----------------------------------------------------------------------------

\* Types; and the handlers find in the scope what their view needs.
THEOREM RecoveryTypeCorrect == Spec => []TypeOK
<1>1. ASSUME NEW p, PageInv(p) PROVE ScopeOK(p)
  BY <1>1 DEF PageInv, ScopeOK
<1>2. Inv => TypeOK
  BY <1>1 DEF Inv, StoreInv, StoreType, FlowInv, PageInv, TypeOK
<1> QED
  BY <1>2, SpecInv, PTL

\* Every secret goes to an address the directory lists for its user.
THEOREM SecretsGoToOwners == Spec => []SecretGoesToOwner
<1>1. Inv => SecretGoesToOwner
  BY DEF Inv, StoreInv, ToOwner, SecretGoesToOwner
<1> QED
  BY <1>1, SpecInv, PTL

\* A password is only set by a flow that was shown a secret of its account.
THEOREM PasswordsAreProven == Spec => []PasswordIsProven
<1>1. Inv => PasswordIsProven
  BY DEF Inv, FlowInv, SentTo, PasswordIsProven
<1> QED
  BY <1>1, SpecInv, PTL

-----------------------------------------------------------------------------
(***************************************************************************)
(* What opens the page of the new password.                                *)
(***************************************************************************)

\* A matching secret is the newest of its user, in time and not yet spent.
Fresh(u, v) ==
  /\ v \notin spent
  /\ \E m \in issued :
       /\ m.secret = v /\ m.user = u
       /\ now < m.date + Expire
       /\ \A n \in issued : n.user = m.user => n.secret <= m.secret

LEMMA MatchIsFresh ==
  ASSUME StoreInv, NEW u \in User, NEW v \in Typed, Matches(u, v)
  PROVE  Fresh(u, v)
<1>1. v # 0 /\ key[u].secret = v /\ now < key[u].until
  BY DEF Matches, Wrong
<1>2. PICK m \in issued : Holds(u, m)
  BY <1>1 DEF StoreInv, KeysHoldNewest
<1> QED
  BY <1>1, <1>2 DEF Holds, Fresh

\* The only pages an event adds, and those of the new password among them.
Opened(e) ==
  \A p \in pages'[e] \ pages[e] :
    p.at = "viewChangePage" => Fresh(p.username, p.proof)

LEMMA ShowOpens ==
  ASSUME Inv, NEW e \in Execution, NEW f \in Execution, NEW p \in Page,
         Show(e, p) \/ End(e),
         p.at = "viewChangePage" => Fresh(p.username, p.proof)
  PROVE  Opened(f)
<1>1. \A q \in pages'[f] \ pages[f] : q = p
  BY DEF Show, End, Inv, FlowInv
<1> QED
  BY <1>1 DEF Opened

LEMMA EnterChangeOpens ==
  ASSUME Inv, NEW e \in Execution, NEW f \in Execution, NEW p \in Page,
         NEW u \in User, NEW v \in Typed, Matches(u, v), EnterChange(e, p, u, v)
  PROVE  Opened(f)
<1>1. PICK q : q = [p EXCEPT !.at = "viewChangePage", !.username = u, !.proof = v]
  OBVIOUS
<1>2. v \in Secret /\ Fresh(u, v)
  BY MatchIsSent, MatchIsFresh DEF Inv
<1>3. q \in Page /\ q.username = u /\ q.proof = v
  BY <1>1, <1>2 DEF Page, Views
<1>4. Show(e, q)
  BY <1>1 DEF EnterChange
<1> QED
  BY <1>2, <1>3, <1>4, ShowOpens

LEMMA EnterSmsOpens ==
  ASSUME Inv, NEW e \in Execution, NEW f \in Execution, NEW p \in Page, EnterSms(e, p)
  PROVE  Opened(f)
<1>1. now \in Never..MaxNow
  BY DEF Inv, StoreInv, StoreType, Never
<1>2. PICK s : s = [p EXCEPT !.at = "viewSendConfirmSMS"]
  OBVIOUS
<1>3. PICK t : t = [s EXCEPT !.lastSms = now]
  OBVIOUS
<1>4. s \in Page /\ s.at = "viewSendConfirmSMS"
  BY <1>2 DEF Page, Views
<1>5. t \in Page /\ t.at = "viewSendConfirmSMS"
  BY <1>1, <1>3, <1>4 DEF Page
<1>6. Show(e, s) \/ Show(e, t)
  BY <1>2, <1>3 DEF EnterSms
<1> QED
  BY <1>4, <1>5, <1>6, ShowOpens

LEMMA EventOpens ==
  ASSUME Inv, NEW e \in Execution, NEW f \in Execution, NEW p \in pages[e], Event(e, p)
  PROVE  Opened(f)
<1>1. p \in Page
  BY DEF Inv, FlowInv
<1>2. CASE Switch(e, p)
  <2>1. PICK q \in Page : Show(e, q) /\ q.at # "viewChangePage"
    BY <1>1, <1>2 DEF Switch, Page, Views
  <2> QED
    BY <2>1, ShowOpens
<1>3. ASSUME NEW u \in User, NEW a \in Address, SubmitEmail(e, p, u, a)
      PROVE  Opened(f)
  <2>1. PICK q \in Page : (Show(e, q) \/ End(e)) /\ q.at # "viewChangePage"
    BY <1>1, <1>3 DEF SubmitEmail, CheckUsernameAndEmail, Page, Views
  <2> QED
    BY <2>1, ShowOpens
<1>4. ASSUME NEW u \in User, NEW a \in Address, SubmitPhone(e, p, u, a)
      PROVE  Opened(f)
  <2>1. PICK q \in Page : EnterSms(e, q)
    BY <1>1, <1>4 DEF SubmitPhone, CheckUsernameAndPhone, Page
  <2> QED
    BY <2>1, EnterSmsOpens
<1>5. CASE Resend(e, p)
  BY <1>1, <1>5, EnterSmsOpens DEF Resend
<1>6. ASSUME NEW v \in Typed, SubmitSms(e, p, v)
      PROVE  Opened(f)
  <2>1. p.username \in User
    BY <1>1, <1>6 DEF SubmitSms, Inv, FlowInv, PageInv
  <2>2. CASE Matches(p.username, v)
    BY <1>1, <1>6, <2>1, <2>2, EnterChangeOpens DEF SubmitSms
  <2>3. CASE ~Matches(p.username, v)
    BY <1>1, <1>6, <2>3, EnterSmsOpens DEF SubmitSms
  <2> QED
    BY <2>2, <2>3
<1>7. CASE ResetPwd(e, p)
  BY <1>7 DEF ResetPwd, Opened
<1> QED
  BY <1>2, <1>3, <1>4, <1>5, <1>6, <1>7 DEF Event

LEMMA NextOpens ==
  ASSUME Inv, [Next]_vars, NEW f \in Execution
  PROVE  Opened(f)
<1>1. ASSUME NEW e \in Execution, NEW u \in User, NEW v \in Typed, Launch(e, u, v)
      PROVE  Opened(f)
  <2>1. NewPage \in Page /\ NewPage.at # "viewChangePage"
    BY DEF NewPage, Page, Views, Never
  <2>2. CASE Matches(u, v)
    BY <1>1, <2>1, <2>2, EnterChangeOpens DEF Launch
  <2>3. CASE ~Matches(u, v)
    BY <1>1, <2>1, <2>3, ShowOpens DEF Launch
  <2> QED
    BY <2>2, <2>3
<1>2. ASSUME NEW e \in Execution, NEW p \in changing[e], FinishChange(e, p)
      PROVE  Opened(f)
  BY <1>2 DEF FinishChange, End, Opened, Inv, FlowInv
<1>3. CASE Tick \/ UNCHANGED vars
  BY <1>3 DEF Tick, vars, Opened
<1> QED
  BY <1>1, <1>2, <1>3, EventOpens DEF Next

\* The page of the new password opens only with the newest secret of its
\* user, within its time, and not with one from before a finished reset.
THEOREM OpensOnlyWithLiveSecret == Spec => OpensWithLiveSecret
<1> DEFINE Step ==
      \A e \in Execution : \A p \in pages'[e] \ pages[e] :
        p.at = "viewChangePage" =>
          /\ p.proof \notin spent
          /\ \E m \in issued :
               /\ m.secret = p.proof /\ m.user = p.username
               /\ now < m.date + Expire
               /\ \A n \in issued : n.user = m.user => n.secret <= m.secret
<1>1. Inv /\ [Next]_vars => Step
  BY NextOpens DEF Opened, Fresh
<1> QED
  BY <1>1, SpecInv, PTL DEF Spec, OpensWithLiveSecret
=============================================================================
