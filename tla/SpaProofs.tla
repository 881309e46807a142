------------------------------- MODULE SpaProofs -----------------------------
(***************************************************************************)
(* Proofs about the sessions of the single-page application, for any       *)
(* number of requests at once and any life of the tokens.                  *)
(*                                                                         *)
(* The blacklist drops an entry when its date has passed, so the argument  *)
(* is that a token and its entry end together: whoever asks for a token    *)
(* that was spent finds it blocked or finds it expired.                    *)
(***************************************************************************)
EXTENDS SpaSessions, TLAPS

Names(t) == t.pair \in DOMAIN pairs /\ t.kind \in Kinds

\* The entry of a token lasts as long as the token.
Covered(t) == Expired(t) \/ [token |-> t, until |-> ExpiresAt(t)] \in blacklist

\* What a request knows of its token and of its session.
SlotInv(s) ==
  /\ run[s].at \in {"refresh", "parsed", "pair", "delete", "block"} => Names(run[s].token)
  /\ run[s].late => run[s].token \in spent
  /\ run[s].at \in {"deleted", "logout", "loggedOut"}
       => run[s].token = NoToken \/ run[s].token \in spent
  /\ run[s].tgt \in 0..made
  /\ run[s].at = "loggedOut" => run[s].tgt \notin alive

TokenInv ==
  /\ now \in Nat
  /\ pairs \in Seq(Nat)
  /\ \A t \in spent : Names(t) /\ Covered(t)

TicketInv ==
  /\ made \in Nat
  /\ alive \subseteq 1..made
  /\ cookie \in 0..made

RunState ==
  [at : {"idle", "login", "answered", "refresh", "parsed", "pair", "delete", "block",
         "deleted", "refused", "logout", "loggedOut"},
   token : [pair : Nat, kind : Kinds \cup {"none"}], tgt : Nat, late : BOOLEAN]

Inv ==
  /\ TokenInv
  /\ TicketInv
  /\ run \in [Slot -> RunState]
  /\ \A s \in Slot : SlotInv(s)

USE SpaAssumption

-----------------------------------------------------------------------------
(***************************************************************************)
(* The tokens.                                                             *)
(***************************************************************************)

LEMMA ExpiresType ==
  ASSUME TokenInv, NEW t, Names(t)
  PROVE  ExpiresAt(t) \in Nat
BY DEF TokenInv, Names, ExpiresAt

\* A pair more does not change the tokens there were.
LEMMA AppendKeepsTokens ==
  ASSUME TokenInv, NewPair, now' = now
  PROVE  /\ pairs' \in Seq(Nat)
         /\ \A t : Names(t) => Names(t)' /\ ExpiresAt(t)' = ExpiresAt(t) /\ Expired(t)' = Expired(t)
<1>1. pairs' = Append(pairs, now) /\ pairs \in Seq(Nat) /\ now \in Nat
  BY DEF NewPair, TokenInv
<1>2. pairs' \in Seq(Nat) /\ Len(pairs') = Len(pairs) + 1
  BY <1>1
<1>3. \A i \in DOMAIN pairs : i \in DOMAIN pairs' /\ pairs'[i] = pairs[i]
  BY <1>1, <1>2
<1> QED
  BY <1>2, <1>3 DEF Names, ExpiresAt, Expired

\* Blocking a token covers it, and what was covered stays so.
LEMMA BlockCovers ==
  ASSUME TokenInv, now' = now, NEW t, Names(t), Block(t),
         pairs' \in Seq(Nat),
         \A u : Names(u) => Names(u)' /\ ExpiresAt(u)' = ExpiresAt(u) /\ Expired(u)' = Expired(u)
  PROVE  TokenInv' /\ t \in spent' /\ spent \subseteq spent'
<1>1. spent' = spent \cup {t}
  BY DEF Block
<1>2. blacklist' = blacklist \cup {[token |-> t, until |-> ExpiresAt(t)]}
  BY DEF Block, BlockedUntil
<1>3. ASSUME NEW u \in spent'
      PROVE  Names(u)' /\ Covered(u)'
  <2>1. Names(u) /\ (Covered(u) \/ u = t)
    BY <1>1, <1>3 DEF TokenInv
  <2>2. Names(u)' /\ ExpiresAt(u)' = ExpiresAt(u) /\ Expired(u)' = Expired(u)
    BY <2>1
  <2> QED
    BY <1>2, <2>1, <2>2 DEF Covered
<1> QED
  BY <1>1, <1>3 DEF TokenInv

\* Time passes: an entry leaves only when its token has expired.
LEMMA TickCovers ==
  ASSUME TokenInv, Tick
  PROVE  TokenInv'
<1>1. /\ now \in Nat /\ now' = now + 1 /\ UNCHANGED <<pairs, spent>>
      /\ blacklist' = {b \in blacklist : now' < b.until}
  BY DEF Tick, TokenInv
<1>2. ASSUME NEW t \in spent
      PROVE  Names(t)' /\ Covered(t)'
  <2>1. Names(t) /\ Covered(t) /\ ExpiresAt(t) \in Nat
    BY ExpiresType DEF TokenInv
  <2>2. ExpiresAt(t)' = ExpiresAt(t) /\ Names(t)'
    BY <1>1, <2>1 DEF ExpiresAt, Names
  <2>3. CASE now' >= ExpiresAt(t)
    BY <1>1, <2>1, <2>2, <2>3 DEF Covered, Expired
  <2>4. CASE ~(now' >= ExpiresAt(t))
    <3>1. PICK b \in blacklist : b = [token |-> t, until |-> ExpiresAt(t)]
      BY <1>1, <2>1, <2>4 DEF Covered, Expired
    <3>2. b \in blacklist'
      BY <1>1, <2>1, <2>4, <3>1
    <3> QED
      BY <2>2, <3>1, <3>2 DEF Covered
  <2> QED
    BY <2>3, <2>4
<1> QED
  BY <1>1, <1>2 DEF TokenInv

LEMMA TokensUntouched ==
  ASSUME TokenInv, UNCHANGED <<now, tokens>>
  PROVE  TokenInv' /\ spent' = spent /\ \A t : Names(t) => Names(t)'
BY DEF TokenInv, tokens, Names, Covered, Expired, ExpiresAt

LEMMA TicketsUntouched ==
  ASSUME TicketInv, UNCHANGED tickets, cookie' = cookie \/ cookie' \in 0..made
  PROVE  TicketInv' /\ made' = made /\ alive' = alive
BY DEF TicketInv, tickets

-----------------------------------------------------------------------------
(***************************************************************************)
(* Steps.                                                                  *)
(***************************************************************************)

\* What is left to show of a step of s: what s itself knows after it.
LEMMA SlotStep ==
  ASSUME Inv, TokenInv', TicketInv', NEW s \in Slot, NEW r \in RunState,
         run' = [run EXCEPT ![s] = r], SlotInv(s)',
         spent \subseteq spent', made <= made', \A i \in 0..made : i \in alive' => i \in alive,
         \A t : Names(t) => Names(t)'
  PROVE  Inv'
<1>1. ASSUME NEW o \in Slot \ {s}
      PROVE  SlotInv(o)'
  <2>1. run'[o] = run[o] /\ SlotInv(o) /\ made \in Nat /\ made' \in Nat
    BY DEF Inv, TicketInv
  <2> QED
    BY <2>1 DEF SlotInv
<1> QED
  BY <1>1 DEF Inv

\* A step of s that changes no token and no session.
LEMMA QuietStep ==
  ASSUME Inv, NEW s \in Slot, UNCHANGED <<now, tokens, tickets>>,
         cookie' \in 0..made, NEW r \in RunState, run' = [run EXCEPT ![s] = r],
         r.at \in {"refresh", "parsed", "pair", "delete", "block"} => Names(r.token),
         r.late => r.token \in spent,
         r.at \in {"deleted", "logout", "loggedOut"} => r.token = NoToken \/ r.token \in spent,
         r.tgt \in 0..made,
         r.at # "loggedOut"
  PROVE  Inv'
<1>1. TokenInv' /\ TicketInv' /\ spent' = spent /\ made' = made /\ alive' = alive
      /\ \A t : Names(t) => Names(t)'
  BY TokensUntouched, TicketsUntouched DEF Inv
<1>2. run'[s] = r
  BY DEF Inv
<1>3. SlotInv(s)'
  BY <1>1, <1>2 DEF SlotInv
<1>4. made <= made' /\ spent \subseteq spent' /\ \A i \in 0..made : i \in alive' => i \in alive
  BY <1>1 DEF Inv, TicketInv
<1> QED
  BY <1>1, <1>3, <1>4, SlotStep

LEMMA IdleRun ==
  ASSUME NEW n \in Nat
  PROVE  /\ Idle \in RunState /\ Idle.at = "idle" /\ Idle.late = FALSE /\ Idle.tgt = 0
         /\ Idle.token = NoToken /\ 0 \in 0..n
BY DEF Idle, RunState, NoToken, NoTgt

LEMMA FinishStep ==
  ASSUME Inv, NEW s \in Slot, Finish(s), UNCHANGED <<now, tokens, tickets>>, cookie' \in 0..made
  PROVE  Inv'
<1>1. made \in Nat
  BY DEF Inv, TicketInv
<1>2. Idle \in RunState /\ Idle.at = "idle" /\ Idle.late = FALSE /\ Idle.tgt \in 0..made
  BY <1>1, IdleRun
<1> QED
  BY <1>2, QuietStep DEF Finish

\* s goes on to `at', with nothing else changed.
LEMMA ToStep ==
  ASSUME Inv, NEW s \in Slot, UNCHANGED <<now, tokens, tickets, cookie>>,
         NEW at \in {"login", "answered", "parsed", "pair", "block", "refused"}, To(s, at),
         at \in {"parsed", "pair", "block"} => At(s, "refresh") \/ At(s, "parsed") \/ At(s, "delete")
  PROVE  Inv'
<1>1. PICK r : r = [run[s] EXCEPT !.at = at]
  OBVIOUS
<1>2. /\ r \in RunState /\ run' = [run EXCEPT ![s] = r]
      /\ r.at = at /\ r.token = run[s].token /\ r.tgt = run[s].tgt /\ r.late = run[s].late
  BY <1>1 DEF Inv, To, RunState
<1>3. SlotInv(s) /\ cookie' \in 0..made
  BY DEF Inv, TicketInv
<1> QED
  BY <1>2, <1>3, QuietStep DEF SlotInv, At

LEMMA LoginStep ==
  ASSUME Inv, NEW s \in Slot,
         PostLogin(s) \/ LoginFails(s) \/ LoginOpens(s) \/ LoginAnswered(s)
  PROVE  Inv'
<1>1. CASE PostLogin(s) \/ LoginFails(s)
  BY <1>1, ToStep DEF PostLogin, LoginFails
<1>2. CASE LoginAnswered(s)
  <2>1. cookie' \in 0..made
    BY <1>2 DEF LoginAnswered, Inv, TicketInv, SlotInv
  <2> QED
    BY <1>2, <2>1, FinishStep DEF LoginAnswered
<1>3. CASE LoginOpens(s)
  <2>1. /\ made \in Nat /\ made' = made + 1 /\ alive' = alive \cup {made + 1}
        /\ UNCHANGED <<now, tokens, cookie>>
    BY <1>3 DEF LoginOpens, Inv, TicketInv
  <2>2. PICK r : r = [run[s] EXCEPT !.at = "answered", !.tgt = made + 1]
    OBVIOUS
  <2>3. /\ r \in RunState /\ run' = [run EXCEPT ![s] = r]
        /\ r.at = "answered" /\ r.token = run[s].token /\ r.tgt = made + 1 /\ r.late = run[s].late
    <3>1. run' = [run EXCEPT ![s].at = "answered", ![s].tgt = made + 1]
      BY <1>3 DEF LoginOpens
    <3>2. run[s] \in RunState /\ run \in [Slot -> RunState]
      BY DEF Inv
    <3>3. /\ r \in RunState
          /\ r.at = "answered" /\ r.token = run[s].token /\ r.tgt = made + 1 /\ r.late = run[s].late
      <4>1. PICK n \in Nat : n = made + 1
        BY <2>1
      <4>2. r = [run[s] EXCEPT !.at = "answered", !.tgt = n]
        BY <2>2, <4>1
      <4> QED
        BY <3>2, <4>1, <4>2 DEF RunState
    <3> QED
      BY <2>2, <3>1, <3>2, <3>3
  <2>4. TokenInv' /\ spent' = spent /\ \A t : Names(t) => Names(t)'
    BY <2>1, TokensUntouched DEF Inv
  <2>5. TicketInv'
    BY <2>1 DEF Inv, TicketInv
  <2>6. run'[s] = r
    BY <2>3 DEF Inv
  <2>7. SlotInv(s)'
    BY <2>1, <2>3, <2>4, <2>6 DEF SlotInv, Inv
  <2>8. made <= made' /\ spent \subseteq spent' /\ \A i \in 0..made : i \in alive' => i \in alive
    BY <2>1, <2>4
  <2> QED
    BY <2>3, <2>4, <2>5, <2>7, <2>8, SlotStep
<1> QED
  BY <1>1, <1>2, <1>3

LEMMA TokenNames ==
  ASSUME TokenInv
  PROVE  \A t \in Token : Names(t) /\ t \in [pair : Nat, kind : Kinds \cup {"none"}]
BY DEF TokenInv, Token, Names

LEMMA AskStep ==
  ASSUME Inv, NEW s \in Slot, Refresh(s) \/ AskLogout(s)
  PROVE  Inv'
<1>1. made \in Nat /\ cookie \in 0..made
  BY DEF Inv, TicketInv
<1>2. UNCHANGED <<now, tokens, tickets, cookie>>
  BY DEF Refresh, AskLogout
<1>3. CASE Refresh(s)
  <2>1. PICK t \in Token : run' = [run EXCEPT ![s] = [Idle EXCEPT !.at = "refresh", !.token = t,
                                                                   !.late = t \in spent]]
    BY <1>3 DEF Refresh
  <2>2. PICK b \in BOOLEAN : (t \in spent) = b
    <3>1. CASE t \in spent
      <4>1. (t \in spent) = TRUE
        BY <3>1
      <4> QED
        BY <4>1
    <3>2. CASE t \notin spent
      <4>1. (t \in spent) = FALSE
        BY <3>2
      <4> QED
        BY <4>1
    <3> QED
      BY <3>1, <3>2
  <2>3. PICK r : r = [Idle EXCEPT !.at = "refresh", !.token = t, !.late = b]
    OBVIOUS
  <2>4. Names(t) /\ t \in [pair : Nat, kind : Kinds \cup {"none"}]
    BY TokenNames DEF Inv
  <2>5. /\ r \in RunState /\ r.at = "refresh" /\ r.token = t /\ r.late = b /\ r.tgt = 0
    BY <2>3, <2>4 DEF Idle, RunState, NoTgt
  <2>6. run' = [run EXCEPT ![s] = r]
    BY <2>1, <2>2, <2>3
  <2>7. (r.late => r.token \in spent) /\ cookie' \in 0..made /\ r.tgt \in 0..made
    BY <1>1, <1>2, <2>2, <2>5
  <2> QED
    BY <1>2, <2>4, <2>5, <2>6, <2>7, QuietStep
<1>4. ASSUME NEW t \in Token,
             run' = [run EXCEPT ![s] = [Idle EXCEPT !.at = "delete", !.token = t]]
      PROVE  Inv'
  <2>1. PICK r : r = [Idle EXCEPT !.at = "delete", !.token = t]
    OBVIOUS
  <2>2. Names(t) /\ t \in [pair : Nat, kind : Kinds \cup {"none"}]
    BY TokenNames DEF Inv
  <2>3. /\ r \in RunState /\ r.at = "delete" /\ r.token = t /\ r.late = FALSE /\ r.tgt = 0
    BY <2>1, <2>2 DEF Idle, RunState, NoTgt
  <2> QED
    <3>1. run' = [run EXCEPT ![s] = r] /\ cookie' \in 0..made /\ r.tgt \in 0..made
      BY <1>1, <1>2, <1>4, <2>1, <2>3
    <3> QED
      BY <1>2, <2>2, <2>3, <3>1, QuietStep
<1>5. CASE run' = [run EXCEPT ![s] = [Idle EXCEPT !.at = "logout", !.tgt = cookie]]
  <2>1. PICK r : r = [Idle EXCEPT !.at = "logout", !.tgt = cookie]
    OBVIOUS
  <2>2. Idle \in RunState /\ Idle.late = FALSE /\ Idle.token = NoToken
    BY IdleRun
  <2>3. cookie \in Nat
    BY <1>1
  <2>4. /\ r \in RunState /\ r.at = "logout" /\ r.token = NoToken
        /\ r.late = FALSE /\ r.tgt = cookie
    BY <2>1, <2>2, <2>3 DEF RunState
  <2> QED
    <3>1. run' = [run EXCEPT ![s] = r] /\ cookie' \in 0..made
      BY <1>1, <1>2, <1>5, <2>1
    <3> QED
      BY <1>1, <1>2, <2>4, <3>1, QuietStep
<1> QED
  BY <1>3, <1>4, <1>5 DEF AskLogout

\* s blocks its token, with its state then r.
LEMMA BlockStep ==
  ASSUME Inv, NEW s \in Slot, Names(run[s].token), Block(run[s].token), NewPair \/ pairs' = pairs,
         UNCHANGED <<now, tickets, cookie>>, NEW r \in RunState, run' = [run EXCEPT ![s] = r],
         r.at \in {"idle", "deleted"}, r.late => r.token \in spent,
         r.at = "deleted" => r.token = run[s].token, r.tgt \in 0..made
  PROVE  Inv'
<1>1. TokenInv /\ TicketInv /\ pairs \in Seq(Nat)
  BY DEF Inv, TokenInv
<1>2. /\ pairs' \in Seq(Nat)
      /\ \A t : Names(t) => Names(t)' /\ ExpiresAt(t)' = ExpiresAt(t) /\ Expired(t)' = Expired(t)
  <2>1. CASE NewPair
    BY <1>1, <2>1, AppendKeepsTokens
  <2>2. CASE pairs' = pairs
    BY <1>1, <2>2 DEF Names, ExpiresAt, Expired
  <2> QED
    BY <2>1, <2>2
<1>3. TokenInv' /\ run[s].token \in spent' /\ spent \subseteq spent'
  BY <1>1, <1>2, BlockCovers
<1>4. TicketInv' /\ made' = made /\ alive' = alive /\ made \in Nat
  BY <1>1, TicketsUntouched DEF TicketInv
<1>5. run'[s] = r
  BY DEF Inv
<1>6. SlotInv(s)'
  BY <1>3, <1>4, <1>5 DEF SlotInv
<1>7. made <= made' /\ \A i \in 0..made : i \in alive' => i \in alive
  BY <1>4
<1>8. \A t : Names(t) => Names(t)'
  BY <1>2
<1> QED
  BY <1>3, <1>4, <1>6, <1>7, <1>8, SlotStep

LEMMA RefreshStep ==
  ASSUME Inv, NEW s \in Slot,
         RefreshParsed(s) \/ RefreshChecked(s) \/ PairFromRefresh(s) \/ RefreshBreaks(s)
  PROVE  Inv'
<1>1. made \in Nat /\ cookie \in 0..made /\ SlotInv(s)
  BY DEF Inv, TicketInv
<1>2. CASE RefreshParsed(s) \/ RefreshChecked(s)
  <2>1. UNCHANGED <<now, tokens, tickets, cookie>> /\ (At(s, "refresh") \/ At(s, "parsed"))
    BY <1>2 DEF RefreshParsed, RefreshChecked
  <2>2. CASE To(s, "parsed") \/ To(s, "pair")
    BY <2>1, <2>2, ToStep
  <2>3. CASE Finish(s)
    BY <1>1, <2>1, <2>3, FinishStep
  <2> QED
    BY <1>2, <2>2, <2>3 DEF RefreshParsed, RefreshChecked
<1>3. CASE PairFromRefresh(s) \/ RefreshBreaks(s)
  <2>1. /\ Names(run[s].token) /\ UNCHANGED <<now, tickets, cookie>>
        /\ run' = [run EXCEPT ![s] = Idle]
    BY <1>1, <1>3 DEF PairFromRefresh, RefreshBreaks, SlotInv, At, Finish
  <2>2. Idle \in RunState /\ Idle.at = "idle" /\ Idle.late = FALSE /\ Idle.tgt \in 0..made
    BY <1>1, IdleRun
  <2>3. CASE Block(run[s].token) /\ (NewPair \/ pairs' = pairs)
    BY <2>1, <2>2, <2>3, BlockStep
  <2>4. CASE UNCHANGED <<blacklist, spent>> /\ pairs' = pairs
    <3>1. UNCHANGED <<now, tokens, tickets>> /\ Finish(s) /\ cookie' \in 0..made
      BY <1>1, <2>1, <2>4 DEF tokens, Finish
    <3> QED
      BY <3>1, FinishStep
  <2> QED
    BY <1>3, <2>3, <2>4 DEF PairFromRefresh, RefreshBreaks
<1> QED
  BY <1>2, <1>3

LEMMA FetchStep ==
  ASSUME Inv, NEW s \in Slot, FetchPair(s)
  PROVE  Inv'
<1>1. /\ TokenInv /\ TicketInv /\ NewPair
      /\ UNCHANGED <<now, blacklist, spent, alive, made, cookie, run>>
  BY DEF Inv, FetchPair, tickets
<1>2. /\ pairs' \in Seq(Nat)
      /\ \A t : Names(t) => Names(t)' /\ ExpiresAt(t)' = ExpiresAt(t) /\ Expired(t)' = Expired(t)
  BY <1>1, AppendKeepsTokens
<1>3. TokenInv'
  BY <1>1, <1>2 DEF TokenInv, Covered
<1>4. \A o \in Slot : SlotInv(o)'
  BY <1>1, <1>2 DEF Inv, SlotInv
<1> QED
  BY <1>1, <1>3, <1>4 DEF Inv, TicketInv

LEMMA DeleteStep ==
  ASSUME Inv, NEW s \in Slot,
         DeleteParsed(s) \/ DeleteBlocks(s) \/ DeleteFails(s) \/ DeleteAnswered(s)
  PROVE  Inv'
<1>1. /\ made \in Nat /\ cookie \in 0..made /\ SlotInv(s)
      /\ run[s] \in RunState /\ run \in [Slot -> RunState]
  BY DEF Inv, TicketInv
<1>2. CASE DeleteParsed(s) \/ DeleteFails(s)
  BY <1>2, ToStep DEF DeleteParsed, DeleteFails
<1>3. CASE DeleteBlocks(s)
  <2>1. PICK r : r = [run[s] EXCEPT !.at = "deleted"]
    OBVIOUS
  <2>2. /\ r \in RunState /\ run' = [run EXCEPT ![s] = r]
        /\ r.at = "deleted" /\ r.token = run[s].token /\ r.tgt = run[s].tgt /\ r.late = run[s].late
    BY <1>1, <1>3, <2>1 DEF DeleteBlocks, To, RunState
  <2>3. /\ Names(run[s].token) /\ Block(run[s].token) /\ pairs' = pairs
        /\ UNCHANGED <<now, tickets, cookie>>
    BY <1>1, <1>3 DEF DeleteBlocks, SlotInv, At
  <2>4. (r.late => r.token \in spent) /\ r.tgt \in 0..made
    BY <1>1, <2>2 DEF SlotInv
  <2> QED
    BY <2>2, <2>3, <2>4, BlockStep
<1>4. CASE DeleteAnswered(s)
  <2>1. UNCHANGED <<now, tokens, tickets, cookie>> /\ cookie' \in 0..made
    BY <1>1, <1>4 DEF DeleteAnswered
  <2>2. CASE Goes(s)
    <3>1. PICK r : r = [run[s] EXCEPT !.at = "logout", !.tgt = cookie]
      OBVIOUS
    <3>2. cookie \in Nat
      BY <1>1
    <3>3. r \in RunState /\ r.at = "logout" /\ r.token = run[s].token /\ r.tgt = cookie /\ r.late = run[s].late
      BY <1>1, <3>1, <3>2 DEF RunState
    <3>4. run' = [run EXCEPT ![s] = r]
      BY <1>1, <1>4, <2>2, <3>1 DEF DeleteAnswered
    <3>5. r.token = NoToken \/ r.token \in spent
      BY <1>1, <2>2, <3>3 DEF Goes, At, SlotInv
    <3>6. (r.late => r.token \in spent) /\ r.tgt \in 0..made
      BY <1>1, <3>3 DEF SlotInv
    <3> QED
      BY <2>1, <3>3, <3>4, <3>5, <3>6, QuietStep
  <2>3. CASE ~Goes(s)
    BY <1>4, <2>1, <2>3, FinishStep DEF DeleteAnswered
  <2> QED
    BY <2>2, <2>3
<1> QED
  BY <1>2, <1>3, <1>4

LEMMA LogoutStep ==
  ASSUME Inv, NEW s \in Slot, Logout(s) \/ LogoutAnswered(s) \/ LogoutFails(s)
  PROVE  Inv'
<1>1. /\ made \in Nat /\ cookie \in 0..made /\ SlotInv(s)
      /\ run[s] \in RunState /\ run \in [Slot -> RunState]
  BY DEF Inv, TicketInv
<1>2. CASE LogoutAnswered(s) \/ LogoutFails(s)
  <2>1. Finish(s) /\ UNCHANGED <<now, tokens, tickets>> /\ cookie' \in 0..made
    BY <1>1, <1>2 DEF LogoutAnswered, LogoutFails, NoTgt
  <2> QED
    BY <2>1, FinishStep
<1>3. CASE Logout(s)
  <2>1. /\ alive' = alive \ {run[s].tgt} /\ made' = made /\ cookie' = cookie
        /\ UNCHANGED <<now, tokens>> /\ run[s].at = "logout"
    BY <1>3 DEF Logout, At
  <2>2. PICK r : r = [run[s] EXCEPT !.at = "loggedOut"]
    OBVIOUS
  <2>3. /\ r \in RunState /\ run' = [run EXCEPT ![s] = r]
        /\ r.at = "loggedOut" /\ r.token = run[s].token /\ r.tgt = run[s].tgt /\ r.late = run[s].late
    BY <1>1, <1>3, <2>2 DEF Logout, To, RunState
  <2>4. TokenInv' /\ spent' = spent /\ \A t : Names(t) => Names(t)'
    BY <2>1, TokensUntouched DEF Inv
  <2>5. TicketInv'
    BY <2>1 DEF Inv, TicketInv
  <2>6. run'[s] = r
    BY <1>1, <2>3
  <2>7. SlotInv(s)'
    BY <1>1, <2>1, <2>3, <2>4, <2>6 DEF SlotInv
  <2>8. made <= made' /\ spent \subseteq spent' /\ \A i \in 0..made : i \in alive' => i \in alive
    BY <1>1, <2>1, <2>4
  <2> QED
    BY <2>3, <2>4, <2>5, <2>7, <2>8, SlotStep
<1> QED
  BY <1>2, <1>3

LEMMA TickStep ==
  ASSUME Inv, Tick
  PROVE  Inv'
<1>1. TokenInv'
  BY TickCovers DEF Inv
<1>2. UNCHANGED <<pairs, spent, alive, made, cookie, run>>
  BY DEF Tick, tickets
<1>3. \A o \in Slot : SlotInv(o)'
  BY <1>2 DEF Inv, SlotInv, Names
<1> QED
  BY <1>1, <1>2, <1>3 DEF Inv, TicketInv

LEMMA StutterStep ==
  ASSUME Inv, UNCHANGED vars
  PROVE  Inv'
<1>1. UNCHANGED <<now, tokens, tickets, cookie, run>>
  BY DEF vars, tokens, tickets
<1>2. TokenInv' /\ TicketInv' /\ spent' = spent /\ made' = made /\ alive' = alive
      /\ \A t : Names(t) => Names(t)'
  BY <1>1, TokensUntouched, TicketsUntouched DEF Inv
<1>3. \A o \in Slot : SlotInv(o)'
  BY <1>1, <1>2 DEF Inv, SlotInv
<1> QED
  BY <1>1, <1>2, <1>3 DEF Inv

LEMMA SpecInv == Spec => []Inv
<1>1. Init => Inv
  <2> SUFFICES ASSUME Init
               PROVE  Inv
    OBVIOUS
  <2>1. Idle \in RunState /\ Idle.at = "idle" /\ Idle.late = FALSE /\ Idle.tgt = 0
    BY IdleRun
  <2>2. TokenInv /\ TicketInv
    BY DEF Init, TokenInv, TicketInv, NoTgt
  <2>3. run \in [Slot -> RunState] /\ \A s \in Slot : run[s] = Idle
    BY <2>1 DEF Init
  <2>4. \A s \in Slot : SlotInv(s)
    BY <2>1, <2>2, <2>3 DEF SlotInv, TicketInv
  <2> QED
    BY <2>2, <2>3, <2>4 DEF Inv
<1>2. Inv /\ [Next]_vars => Inv'
  BY LoginStep, FetchStep, AskStep, RefreshStep, DeleteStep, LogoutStep, TickStep, StutterStep
     DEF Next
<1> QED
  BY <1>1, <1>2, PTL DEF Spec

-----------------------------------------------------------------------------
(***************************************************************************)
(* What it promises.                                                       *)
(***************************************************************************)

\* What was spent cannot be used.
LEMMA SpentIsUnusable ==
  ASSUME Inv, NEW t \in spent
  PROVE  Unusable(t)
<1>1. Covered(t) /\ Names(t) /\ ExpiresAt(t) \in Nat /\ now \in Nat
  BY ExpiresType DEF Inv, TokenInv
<1>2. CASE Expired(t)
  BY <1>2 DEF Unusable
<1>3. CASE ~Expired(t)
  <2>1. PICK b \in blacklist : b = [token |-> t, until |-> ExpiresAt(t)]
    BY <1>1, <1>3 DEF Covered
  <2>2. b.token = t /\ now < b.until
    BY <1>1, <1>3, <2>1 DEF Expired
  <2> QED
    BY <2>2 DEF Unusable, IsBlocked
<1> QED
  BY <1>2, <1>3

\* Only isBlocked lets a parsed refresh go on.
LEMMA RefreshIsChecked ==
  ASSUME Inv, Next, NEW s \in Slot, At(s, "parsed"), run'[s].at = "pair"
  PROVE  ~IsBlocked(run[s].token)
<1>1. run \in [Slot -> RunState] /\ Idle.at = "idle" /\ run'[s] # run[s]
  BY IdleRun DEF Inv, At
<1>2. RefreshChecked(s) \/ RefreshBreaks(s)
  <2>1. PICK o \in Slot :
          \/ PostLogin(o) \/ LoginFails(o) \/ LoginOpens(o) \/ LoginAnswered(o)
          \/ Refresh(o) \/ RefreshParsed(o) \/ RefreshChecked(o) \/ PairFromRefresh(o)
          \/ RefreshBreaks(o) \/ AskLogout(o) \/ DeleteParsed(o) \/ DeleteBlocks(o)
          \/ DeleteFails(o) \/ DeleteAnswered(o)
          \/ Logout(o) \/ LogoutAnswered(o) \/ LogoutFails(o)
    BY <1>1 DEF Next, Tick, FetchPair
  <2>2. o # s => run'[s] = run[s]
    BY <1>1, <2>1 DEF PostLogin, LoginFails, LoginOpens, LoginAnswered, Refresh, RefreshParsed,
       RefreshChecked, PairFromRefresh, RefreshBreaks, AskLogout, DeleteParsed, DeleteBlocks,
       DeleteFails, DeleteAnswered, Logout, LogoutAnswered, LogoutFails, To, Finish
  <2>3. RefreshChecked(o) \/ RefreshBreaks(o) \/ run[o].at # "parsed"
    BY <2>1 DEF PostLogin, LoginFails, LoginOpens, LoginAnswered, Refresh, RefreshParsed,
       PairFromRefresh, AskLogout, DeleteParsed, DeleteBlocks, DeleteFails, DeleteAnswered,
       Logout, LogoutAnswered, LogoutFails, At
  <2> QED
    BY <1>1, <2>2, <2>3 DEF At
<1>3. RefreshBreaks(s) \/ IsBlocked(run[s].token) => run'[s].at = "idle"
  BY <1>1, <1>2 DEF RefreshChecked, RefreshBreaks, Finish
<1> QED
  BY <1>1, <1>2, <1>3 DEF At

\* Whoever comes with a token that was spent does not get past isBlocked, unless
\* the token, which was good when it was parsed, has ended by then.
THEOREM SpentTokensStaySpent == Spec => SpentStaysSpent
<1> DEFINE Refused ==
      \A s \in Slot : At(s, "parsed") /\ run'[s].at = "pair" =>
        ~run[s].late \/ Expired(run[s].token)
<1>1. ASSUME Inv, Next, NEW s \in Slot, At(s, "parsed"), run'[s].at = "pair"
      PROVE  ~run[s].late \/ Expired(run[s].token)
  <2>1. ~IsBlocked(run[s].token) /\ SlotInv(s)
    BY <1>1, RefreshIsChecked DEF Inv
  <2>2. run[s].token \notin spent \/ Expired(run[s].token)
    BY <1>1, <2>1, SpentIsUnusable DEF Unusable
  <2> QED
    BY <2>1, <2>2 DEF SlotInv
<1>2. Inv /\ [Next]_vars => [Refused]_vars
  BY <1>1
<1> QED
  BY <1>2, SpecInv, PTL DEF Spec, SpentStaysSpent

\* A page that is told of its logout has neither its session nor its JWT left.
THEOREM LogoutLeavesNothing == Spec => LogoutIsWhole
<1> DEFINE Whole ==
      \A s \in Slot : At(s, "loggedOut") /\ run'[s].at = "idle" =>
        /\ run[s].tgt \notin alive
        /\ run[s].token # NoToken => Unusable(run[s].token)
<1>1. ASSUME Inv, NEW s \in Slot, At(s, "loggedOut")
      PROVE  /\ run[s].tgt \notin alive
             /\ run[s].token # NoToken => Unusable(run[s].token)
  <2>1. SlotInv(s) /\ run[s].at = "loggedOut"
    BY <1>1 DEF Inv, At
  <2> QED
    BY <1>1, <2>1, SpentIsUnusable DEF SlotInv
<1>2. Inv /\ [Next]_vars => [Whole]_vars
  BY <1>1
<1> QED
  BY <1>2, SpecInv, PTL DEF Spec, LogoutIsWhole
=============================================================================
