------------------------------ MODULE FlowProofs -----------------------------
(***************************************************************************)
(* Proofs about the login throttle and the login flow, for any sessions,   *)
(* threads, links and bounds.                                              *)
(***************************************************************************)
EXTENDS LoginFlow, FiniteSetTheorems, TLAPS

-----------------------------------------------------------------------------
(***************************************************************************)
(* Proofs about the login throttle, for any sessions, request threads and  *)
(* jobs, any difference between the clocks of the nodes, any thresholds    *)
(* and any number of Redis commands that fail.                             *)
(*                                                                         *)
(* recordSubmissionFailure and decrementCounts read a record, compute and  *)
(* write it back with no lock, so an update may be lost and an old record  *)
(* may return.  What makes the counts safe is that a thread on its way to  *)
(* a record has already failed: every count in Redis, or in the hands of   *)
(* an actor, leaves room for the failures not recorded yet.                *)
(***************************************************************************)

\* Threads whose login of session k has failed and that have not yet made the
\* record of it.
Unrecorded(k) ==
  {t \in Thread : proc[t].key = k /\ proc[t].pc \in {"hasRecord", "getRecord"}}

Room(k) == failed[k] - Cardinality(Unrecorded(k))

Backed(k, r) == r.count <= Room(k) /\ r.date <= lastFail[k]

\* a is about to write, or has just written, the record in its hands.
Holding(a) == proc[a].pc \in {"setFirst", "setNext", "setFlag", "setAged"}

ActorInv(a) ==
  /\ proc[a].pc \notin {"idle", "visit"} => proc[a].key \in Key
  /\ Holding(a) => proc[a].copy \in Record /\ Backed(proc[a].key, proc[a].copy)
  /\ proc[a].pc = "setFlag" => proc[a].copy.count >= CaptchaThreshold

KeyInv(k) ==
  /\ IsFiniteSet(Unrecorded(k)) /\ Room(k) >= 0
  /\ rec[k] # NoRecord => Backed(k, rec[k])
  /\ flag[k] => failed[k] >= CaptchaThreshold

Inv ==
  /\ TypeOK
  /\ \A a \in Actor : ActorInv(a)
  /\ \A k \in Key : KeyInv(k)

\* A step of a: nobody else moves.
Only(a) == \A b \in Actor \ {a} : proc'[b] = proc[b]

\* Nothing that backs a record shrinks.
Kept ==
  \A k \in Key :
    /\ IsFiniteSet(Unrecorded(k)') /\ Room(k) <= Room(k)'
    /\ failed[k] <= failed'[k] /\ lastFail[k] <= lastFail'[k]

USE ThrottleAssumption

-----------------------------------------------------------------------------
(***************************************************************************)
(* The room of a session.                                                  *)
(***************************************************************************)

LEMMA RoomType ==
  ASSUME TypeOK, NEW k \in Key, IsFiniteSet(Unrecorded(k))
  PROVE  Room(k) \in Int /\ Room(k) <= failed[k]
BY FS_CardinalityType DEF TypeOK, Room

\* A step after which no more threads have a failure to record.
LEMMA FewerUnrecorded ==
  ASSUME Inv, TypeOK', failed' = failed,
         \A k \in Key : lastFail[k] <= lastFail'[k],
         \A k \in Key : Unrecorded(k)' \subseteq Unrecorded(k)
  PROVE  Kept
<1> SUFFICES ASSUME NEW k \in Key
             PROVE  /\ IsFiniteSet(Unrecorded(k)') /\ Room(k) <= Room(k)'
                    /\ failed[k] <= failed'[k]
  BY DEF Kept
<1>1. IsFiniteSet(Unrecorded(k)) /\ Unrecorded(k)' \in SUBSET Unrecorded(k)
  BY DEF Inv, KeyInv
<1>2. IsFiniteSet(Unrecorded(k)') /\ Cardinality(Unrecorded(k)') <= Cardinality(Unrecorded(k))
  BY <1>1, FS_Subset
<1>3. Cardinality(Unrecorded(k)') \in Nat /\ Cardinality(Unrecorded(k)) \in Nat
  BY <1>1, <1>2, FS_CardinalityType
<1> QED
  BY <1>2, <1>3 DEF Room, Inv, TypeOK

\* The same, of a step of a.
LEMMA QuietStepKeeps ==
  ASSUME Inv, TypeOK', failed' = failed, NEW a \in Actor, Only(a),
         \A k \in Key : lastFail[k] <= lastFail'[k],
         proc'[a].pc \in {"hasRecord", "getRecord"}
           => proc[a].pc \in {"hasRecord", "getRecord"} /\ proc'[a].key = proc[a].key
  PROVE  Kept
<1>1. \A k \in Key : Unrecorded(k)' \subseteq Unrecorded(k)
  BY DEF Unrecorded, Only, Actor
<1> QED
  BY <1>1, FewerUnrecorded

\* A login that fails is one failure more and one thread more.
LEMMA FailureKeeps ==
  ASSUME Inv, TypeOK', NEW t \in Thread, AuthenticationFails(t)
  PROVE  Kept
<1> SUFFICES ASSUME NEW k \in Key
             PROVE  /\ IsFiniteSet(Unrecorded(k)') /\ Room(k) <= Room(k)'
                    /\ failed[k] <= failed'[k] /\ lastFail[k] <= lastFail'[k]
  BY DEF Kept
<1>1. t \in Actor /\ KeyOf(t) \in Key /\ t \notin Unrecorded(k)
  BY DEF Inv, ActorInv, AuthenticationFails, Unrecorded, Actor, KeyOf
<1>2. /\ proc'[t].key = KeyOf(t) /\ proc'[t].pc = "hasRecord"
      /\ \A b \in Actor \ {t} : proc'[b] = proc[b]
  BY <1>1 DEF AuthenticationFails, Goto, Inv, TypeOK, ProcState, KeyOf
<1>3. failed'[k] = IF k = KeyOf(t) THEN failed[k] + 1 ELSE failed[k]
  BY <1>1 DEF AuthenticationFails, Inv, TypeOK
<1>4. lastFail'[k] = lastFail[k] /\ failed[k] \in Int /\ lastFail[k] \in Nat
  BY DEF AuthenticationFails, Inv, TypeOK
<1>5. IsFiniteSet(Unrecorded(k)) /\ Cardinality(Unrecorded(k)) \in Nat
  BY FS_CardinalityType DEF Inv, KeyInv
<1>6. CASE k = KeyOf(t)
  <2>1. Unrecorded(k)' = Unrecorded(k) \cup {t}
    BY <1>2, <1>6 DEF Unrecorded, Actor
  <2>2. IsFiniteSet(Unrecorded(k)') /\ Cardinality(Unrecorded(k)') = Cardinality(Unrecorded(k)) + 1
    BY <1>1, <1>5, <2>1, FS_AddElement
  <2> QED
    BY <1>3, <1>4, <1>5, <1>6, <2>2 DEF Room
<1>7. CASE k # KeyOf(t)
  <2>1. Unrecorded(k)' = Unrecorded(k)
    BY <1>1, <1>2, <1>7 DEF Unrecorded, Actor
  <2> QED
    BY <1>3, <1>4, <1>5, <1>7, <2>1 DEF Room
<1> QED
  BY <1>6, <1>7

\* Making the record makes room for the one failure it counts.
LEMMA RecordingMakesRoom ==
  ASSUME Inv, NEW t \in Thread, NEW k \in Key, t \in Unrecorded(k),
         Only(t), proc'[t].pc = "setFirst" \/ proc'[t].pc = "setNext", failed' = failed
  PROVE  Room(k)' = Room(k) + 1
<1>1. Unrecorded(k)' = Unrecorded(k) \ {t}
  BY DEF Unrecorded, Only, Actor
<1>2. IsFiniteSet(Unrecorded(k)) /\ Cardinality(Unrecorded(k)) \in Nat
  BY FS_CardinalityType DEF Inv, KeyInv
<1>3. Cardinality(Unrecorded(k)') = Cardinality(Unrecorded(k)) - 1
  BY <1>1, <1>2, FS_RemoveElement
<1> QED
  BY <1>2, <1>3 DEF Room, Inv, TypeOK

-----------------------------------------------------------------------------
(***************************************************************************)
(* Steps.                                                                  *)
(***************************************************************************)

LEMMA RoomsAreNumbers ==
  ASSUME Inv, TypeOK', Kept, NEW k \in Key
  PROVE  Room(k) \in Int /\ Room(k)' \in Int
<1>1. Cardinality(Unrecorded(k)) \in Nat
  BY FS_CardinalityType DEF Inv, KeyInv
<1>2. Cardinality(Unrecorded(k)') \in Nat
  BY FS_CardinalityType DEF Kept
<1>3. failed[k] \in Int /\ failed'[k] \in Int
  BY DEF Inv, TypeOK
<1> QED
  BY <1>1, <1>2, <1>3 DEF Room

\* What is left to show of a step of a: what a itself now holds, and what it
\* has written.
LEMMA ActorStep ==
  ASSUME Inv, TypeOK', Kept, NEW a \in Actor, Only(a), ActorInv(a)',
         \A k \in Key :
           /\ rec'[k] = NoRecord \/ rec'[k] = rec[k] \/ Backed(k, rec[k])'
           /\ flag'[k] => flag[k] \/ failed'[k] >= CaptchaThreshold
  PROVE  Inv'
<1>1. ASSUME NEW k \in Key, NEW r \in Record, Backed(k, r)
      PROVE  r.count <= Room(k)' /\ r.date <= lastFail'[k]
  <2>1. Room(k) \in Int /\ Room(k)' \in Int
    BY RoomsAreNumbers
  <2> QED
    BY <1>1, <2>1 DEF Backed, Kept, Record, Inv, TypeOK
<1>2. \A b \in Actor : ActorInv(b)'
  <2> SUFFICES ASSUME NEW b \in Actor \ {a}
               PROVE  ActorInv(b)'
    OBVIOUS
  <2>1. proc'[b] = proc[b] /\ ActorInv(b)
    BY DEF Only, Inv
  <2> QED
    BY <1>1, <2>1 DEF ActorInv, Holding, Backed
<1>3. \A k \in Key : KeyInv(k)'
  <2> SUFFICES ASSUME NEW k \in Key
               PROVE  KeyInv(k)'
    OBVIOUS
  <2>1. KeyInv(k) /\ rec[k] \in Record \cup {NoRecord}
    BY DEF Inv, TypeOK
  <2>2. IsFiniteSet(Unrecorded(k)') /\ Room(k)' >= 0
    BY <2>1, RoomsAreNumbers DEF KeyInv, Kept
  <2>3. rec'[k] # NoRecord => Backed(k, rec[k])'
    BY <1>1, <2>1 DEF KeyInv, Backed
  <2>4. flag'[k] => failed'[k] >= CaptchaThreshold
    BY <2>1 DEF KeyInv, Kept, Inv, TypeOK
  <2> QED
    BY <2>2, <2>3, <2>4 DEF KeyInv
<1> QED
  BY <1>2, <1>3 DEF Inv

\* A step of a that records no failure and dates none: what it holds and
\* writes has to be backed before the step.
LEMMA LightStep ==
  ASSUME Inv, TypeOK', UNCHANGED <<failed, lastFail>>, NEW a \in Actor, Only(a),
         proc'[a].pc \in {"hasRecord", "getRecord"}
           => proc[a].pc \in {"hasRecord", "getRecord"} /\ proc'[a].key = proc[a].key,
         proc'[a].pc \notin {"idle", "visit"} => proc'[a].key \in Key,
         proc'[a].pc \in {"setFirst", "setNext", "setFlag", "setAged"}
           => proc'[a].copy \in Record /\ Backed(proc'[a].key, proc'[a].copy),
         proc'[a].pc = "setFlag" => proc'[a].copy.count >= CaptchaThreshold,
         \A k \in Key :
           /\ rec'[k] # NoRecord => rec'[k] \in Record /\ Backed(k, rec'[k])
           /\ flag'[k] => flag[k] \/ failed[k] >= CaptchaThreshold
  PROVE  Inv'
<1>1. Kept
  <2>1. \A k \in Key : lastFail[k] <= lastFail'[k]
    BY DEF Inv, TypeOK
  <2> QED
    BY <2>1, QuietStepKeeps
<1>2. \A k \in Key, r \in Record : Backed(k, r) => r.count <= Room(k)' /\ r.date <= lastFail'[k]
  <2> SUFFICES ASSUME NEW k \in Key, NEW r \in Record, Backed(k, r)
               PROVE  r.count <= Room(k)' /\ r.date <= lastFail'[k]
    OBVIOUS
  <2>1. Room(k) \in Int /\ Room(k)' \in Int
    BY <1>1, RoomsAreNumbers
  <2> QED
    BY <1>1, <2>1 DEF Backed, Kept, Record, Inv, TypeOK
<1>3. ActorInv(a)'
  BY <1>2 DEF ActorInv, Holding, Backed
<1>4. \A k \in Key :
        /\ rec'[k] = NoRecord \/ rec'[k] = rec[k] \/ Backed(k, rec[k])'
        /\ flag'[k] => flag[k] \/ failed'[k] >= CaptchaThreshold
  BY <1>2 DEF Backed
<1> QED
  BY <1>1, <1>3, <1>4, ActorStep

LEMMA GotoMoves ==
  ASSUME TypeOK, NEW a \in Actor, NEW pc \in Pcs, Goto(a, pc)
  PROVE  /\ proc' \in [Actor -> ProcState] /\ Only(a)
         /\ proc'[a].pc = pc /\ proc'[a].key = proc[a].key /\ proc'[a].copy = proc[a].copy
BY DEF TypeOK, Goto, Only, ProcState

LEMMA DoneMoves ==
  ASSUME TypeOK, NEW a \in Actor, Done(a)
  PROVE  proc' \in [Actor -> ProcState] /\ Only(a) /\ proc'[a].pc = "idle"
BY DEF TypeOK, Done, Only, ProcState, Idle, Pcs

\* What the invariant says of the sessions before a step.
LEMMA SessionFacts ==
  ASSUME Inv, NEW k \in Key
  PROVE  /\ rec[k] # NoRecord => rec[k] \in Record /\ Backed(k, rec[k])
         /\ failed[k] \in 0..MaxFailures /\ flag[k] \in BOOLEAN /\ lastFail[k] \in Nat
BY DEF Inv, KeyInv, TypeOK

LEMMA SubmitStep ==
  ASSUME Inv, NEW t \in Thread, NEW k \in Key, Submit(t, k), UNCHANGED setup
  PROVE  Inv'
<1>1. t \in Actor
  BY DEF Actor
<1>2. PICK s : s = [Idle EXCEPT !.key = k, !.pc = IF rec[k] = NoRecord THEN "auth" ELSE "readRate"]
  OBVIOUS
<1>3. s \in ProcState /\ s.pc \in {"auth", "readRate"} /\ s.key = k
  BY <1>2 DEF Idle, ProcState, Pcs
<1>4. proc' \in [Actor -> ProcState] /\ Only(t) /\ proc'[t] = s
  BY <1>1, <1>2, <1>3 DEF Submit, Inv, TypeOK, Only
<1>5. TypeOK'
  BY <1>4 DEF Submit, Inv, TypeOK
<1> QED
  BY <1>1, <1>3, <1>4, <1>5, LightStep, SessionFacts DEF Submit

LEMMA CheckStep ==
  ASSUME Inv, NEW t \in Thread, UNCHANGED setup,
         ReadRate(t) \/ DropKey(t) \/ AuthenticationEnds(t) \/ ClearFlag(t)
  PROVE  Inv'
<1>1. t \in Actor /\ TypeOK /\ proc[t].pc # "idle" /\ proc[t].pc # "visit"
  BY DEF Actor, Inv, ReadRate, DropKey, AuthenticationEnds, ClearFlag
<1>2. KeyOf(t) \in Key
  BY <1>1 DEF KeyOf, Inv, ActorInv
<1>3. Done(t) \/ \E pc \in {"dropKey", "auth", "cleared"} : Goto(t, pc)
  BY DEF ReadRate, DropKey, AuthenticationEnds, ClearFlag
<1>4. /\ proc' \in [Actor -> ProcState] /\ Only(t)
      /\ proc'[t].pc \in {"idle", "dropKey", "auth", "cleared"}
      /\ proc'[t].pc # "idle" => proc'[t].key = proc[t].key
  <2>1. {"dropKey", "auth", "cleared"} \subseteq Pcs
    BY DEF Pcs
  <2> QED
    BY <1>1, <1>3, <2>1, GotoMoves, DoneMoves
<1>5. /\ UNCHANGED <<now, failed, lastFail, faults, setup>>
      /\ rec' = rec \/ SetRecord(KeyOf(t), NoRecord)
      /\ flag' = flag \/ flag' = [flag EXCEPT ![KeyOf(t)] = FALSE]
  BY DEF ReadRate, DropKey, AuthenticationEnds, ClearFlag
<1>6. TypeOK'
  BY <1>1, <1>2, <1>4, <1>5 DEF TypeOK, SetRecord
<1>7. \A k \in Key :
        /\ rec'[k] # NoRecord => rec'[k] \in Record /\ Backed(k, rec'[k])
        /\ flag'[k] => flag[k]
  BY <1>1, <1>2, <1>5, SessionFacts DEF SetRecord, TypeOK
<1> QED
  BY <1>1, <1>2, <1>4, <1>5, <1>6, <1>7, LightStep DEF KeyOf

LEMMA FailureStep ==
  ASSUME Inv, NEW t \in Thread, AuthenticationFails(t), UNCHANGED setup
  PROVE  Inv'
<1>1. t \in Actor /\ TypeOK /\ KeyOf(t) \in Key
  BY DEF Actor, Inv, ActorInv, AuthenticationFails, KeyOf
<1>2. /\ proc' \in [Actor -> ProcState] /\ Only(t)
      /\ proc'[t].pc = "hasRecord" /\ proc'[t].key = KeyOf(t)
  BY <1>1, GotoMoves DEF AuthenticationFails, Pcs, KeyOf
<1>3. failed' \in [Key -> 0..MaxFailures]
  BY <1>1 DEF AuthenticationFails, TypeOK
<1>4. TypeOK'
  BY <1>1, <1>2, <1>3 DEF AuthenticationFails, TypeOK
<1>5. Kept
  BY <1>4, FailureKeeps
<1>6. ActorInv(t)'
  BY <1>1, <1>2 DEF ActorInv, Holding
<1>7. \A k \in Key :
        /\ rec'[k] = rec[k]
        /\ flag'[k] => flag[k]
  BY DEF AuthenticationFails
<1> QED
  BY <1>1, <1>2, <1>4, <1>5, <1>6, <1>7, ActorStep

\* The record made of a failure counts the one more there was room for.
LEMMA MakeRecordStep ==
  ASSUME Inv, NEW t \in Thread, proc[t].pc \in {"hasRecord", "getRecord"},
         NEW n \in Nat, n <= Room(KeyOf(t)) + 1,
         NEW pc \in {"setFirst", "setNext"}, MakeRecord(t, n, pc),
         UNCHANGED <<now, rec, flag, failed, faults, setup>>
  PROVE  Inv'
<1>1. t \in Actor /\ TypeOK /\ KeyOf(t) \in Key /\ t \in Unrecorded(KeyOf(t))
  BY DEF Actor, Inv, ActorInv, KeyOf, Unrecorded
<1>2. PICK r : r = [count |-> n, date |-> ClockOf(t)]
  OBVIOUS
<1>3. ClockOf(t) \in Nat
  BY <1>1 DEF ClockOf, TypeOK, Setup
<1>4. r \in Record /\ r.count = n /\ r.date = ClockOf(t)
  BY <1>2, <1>3 DEF Record
<1>5. /\ proc' \in [Actor -> ProcState] /\ Only(t)
      /\ proc'[t].pc = pc /\ proc'[t].key = KeyOf(t) /\ proc'[t].copy = r
  <2>1. proc' = [proc EXCEPT ![t].copy = r, ![t].pc = pc]
    BY <1>2 DEF MakeRecord
  <2> QED
    BY <1>1, <1>4, <2>1 DEF TypeOK, ProcState, Pcs, Only, KeyOf
<1>6. /\ lastFail' \in [Key -> Nat]
      /\ \A k \in Key : lastFail[k] <= lastFail'[k]
      /\ ClockOf(t) <= lastFail'[KeyOf(t)]
  BY <1>1, <1>3 DEF MakeRecord, TypeOK
<1>7. TypeOK'
  BY <1>1, <1>5, <1>6 DEF TypeOK
<1>8. Kept
  BY <1>1, <1>5, <1>6, <1>7, QuietStepKeeps
<1>9. Room(KeyOf(t))' = Room(KeyOf(t)) + 1
  <2>1. PICK k \in Key : k = KeyOf(t)
    BY <1>1
  <2>2. Room(k)' = Room(k) + 1
    BY <1>1, <1>5, <2>1, RecordingMakesRoom
  <2>3. KeyOf(t)' = KeyOf(t)
    BY <1>5 DEF KeyOf
  <2> QED
    BY <2>1, <2>2, <2>3
<1>10. ActorInv(t)'
  BY <1>1, <1>4, <1>5, <1>6, <1>9 DEF ActorInv, Holding, Backed, KeyOf
<1> QED
  BY <1>1, <1>5, <1>7, <1>8, <1>10, ActorStep

LEMMA RecordStep ==
  ASSUME Inv, NEW t \in Thread, HasRecord(t) \/ GetRecord(t), UNCHANGED setup
  PROVE  Inv'
<1>1. t \in Actor /\ TypeOK /\ KeyOf(t) \in Key
  BY DEF Actor, Inv, ActorInv, HasRecord, GetRecord, KeyOf
<1>2. Room(KeyOf(t)) \in Int /\ Room(KeyOf(t)) >= 0
  BY <1>1, RoomType DEF Inv, KeyInv
<1>3. CASE HasRecord(t) /\ rec[KeyOf(t)] = NoRecord
  BY <1>2, <1>3, MakeRecordStep DEF HasRecord
<1>4. CASE GetRecord(t) /\ rec[KeyOf(t)] # NoRecord
  <2>1. rec[KeyOf(t)] \in Record /\ rec[KeyOf(t)].count <= Room(KeyOf(t))
    BY <1>1, <1>4, SessionFacts DEF Backed
  <2>2. rec[KeyOf(t)].count + 1 \in Nat /\ rec[KeyOf(t)].count + 1 <= Room(KeyOf(t)) + 1
    BY <1>2, <2>1 DEF Record
  <2> QED
    BY <1>4, <2>2, MakeRecordStep DEF GetRecord
<1>5. CASE \/ HasRecord(t) /\ rec[KeyOf(t)] # NoRecord
           \/ GetRecord(t) /\ rec[KeyOf(t)] = NoRecord
  <2>1. /\ proc[t].pc \in {"hasRecord", "getRecord"}
        /\ Goto(t, "getRecord") \/ Done(t)
        /\ UNCHANGED <<now, rec, flag, failed, lastFail, faults>>
    BY <1>5 DEF HasRecord, GetRecord
  <2>2. /\ proc' \in [Actor -> ProcState] /\ Only(t)
        /\ \/ proc'[t].pc = "idle"
           \/ proc'[t].pc = "getRecord" /\ proc'[t].key = proc[t].key
    <3>1. "getRecord" \in Pcs
      BY DEF Pcs
    <3> QED
      BY <1>1, <2>1, <3>1, GotoMoves, DoneMoves
  <2>3. TypeOK'
    BY <1>1, <2>1, <2>2 DEF TypeOK
  <2> QED
    BY <1>1, <2>1, <2>2, <2>3, LightStep, SessionFacts DEF KeyOf
<1> QED
  BY <1>3, <1>4, <1>5

LEMMA WriteStep ==
  ASSUME Inv, NEW t \in Thread, SetLatest(t) \/ SetFlag(t), UNCHANGED setup
  PROVE  Inv'
<1>1. /\ t \in Actor /\ TypeOK /\ KeyOf(t) \in Key
      /\ proc[t].copy \in Record /\ Backed(KeyOf(t), proc[t].copy)
  BY DEF Actor, Inv, ActorInv, Holding, SetLatest, SetFlag, KeyOf
<1>2. CASE SetLatest(t)
  <2>1. /\ proc' \in [Actor -> ProcState] /\ Only(t)
        /\ \/ proc'[t].pc = "idle"
           \/ /\ proc'[t].pc = "setFlag" /\ proc'[t].key = proc[t].key
              /\ proc'[t].copy = proc[t].copy /\ proc[t].copy.count >= CaptchaThreshold
    BY <1>1, <1>2, GotoMoves, DoneMoves DEF SetLatest, Pcs
  <2>2. /\ rec' = [rec EXCEPT ![KeyOf(t)] = proc[t].copy]
        /\ UNCHANGED <<now, flag, failed, lastFail, faults, setup>>
    BY <1>2 DEF SetLatest, SetRecord
  <2>3. TypeOK'
    BY <1>1, <2>1, <2>2 DEF TypeOK
  <2>4. \A k \in Key : rec'[k] # NoRecord => rec'[k] \in Record /\ Backed(k, rec'[k])
    BY <1>1, <2>2, SessionFacts DEF TypeOK
  <2> QED
    BY <1>1, <2>1, <2>2, <2>3, <2>4, LightStep DEF KeyOf
<1>3. CASE SetFlag(t)
  <2>1. proc' \in [Actor -> ProcState] /\ Only(t) /\ proc'[t].pc = "idle"
    BY <1>1, <1>3, DoneMoves DEF SetFlag
  <2>2. /\ flag' = [flag EXCEPT ![KeyOf(t)] = TRUE]
        /\ UNCHANGED <<now, rec, failed, lastFail, faults, setup>>
    BY <1>3 DEF SetFlag
  <2>3. TypeOK'
    BY <1>1, <2>1, <2>2 DEF TypeOK
  <2>4. failed[KeyOf(t)] >= CaptchaThreshold
    <3>1. proc[t].copy.count >= CaptchaThreshold
      BY <1>1, <1>3 DEF SetFlag, Inv, ActorInv
    <3>2. Room(KeyOf(t)) \in Int /\ Room(KeyOf(t)) <= failed[KeyOf(t)]
      BY <1>1, RoomType DEF Inv, KeyInv
    <3> QED
      BY <1>1, <3>1, <3>2 DEF Backed, Record, TypeOK
  <2>5. \A k \in Key : flag'[k] => flag[k] \/ failed[k] >= CaptchaThreshold
    BY <1>1, <2>2, <2>4 DEF TypeOK
  <2> QED
    BY <1>1, <2>1, <2>2, <2>3, <2>5, LightStep, SessionFacts
<1> QED
  BY <1>2, <1>3

LEMMA NextKeyMoves ==
  ASSUME TypeOK, NEW c \in Actor, NextKey(c)
  PROVE  /\ proc' \in [Actor -> ProcState] /\ Only(c)
         /\ proc'[c].pc \in {"idle", "visit"}
<1>1. PICK s : s = IF proc[c].keys = {} THEN Idle
                   ELSE [proc[c] EXCEPT !.pc = "visit", !.key = NoKey, !.copy = NoRecord]
  OBVIOUS
<1>2. proc[c] \in ProcState
  BY DEF TypeOK
<1>3. s \in ProcState /\ s.pc \in {"idle", "visit"}
  BY <1>1, <1>2 DEF ProcState, Idle, Pcs
<1>4. proc' = [proc EXCEPT ![c] = s]
  BY <1>1 DEF NextKey
<1> QED
  BY <1>3, <1>4 DEF TypeOK, Only

\* The copy a job makes of an aged record is backed, as the record was.
LEMMA VisitStep ==
  ASSUME Inv, NEW c \in Cleaner, VisitKey(c), UNCHANGED setup
  PROVE  Inv'
<1>1. c \in Actor /\ TypeOK /\ proc[c] \in ProcState
  BY DEF Actor, Inv, TypeOK
<1>2. PICK k \in proc[c].keys :
        LET r    == rec[k]
            rest == proc[c].keys \ {k}
            here == [proc[c] EXCEPT !.key = k, !.keys = rest]
        IN proc' = [proc EXCEPT ![c] =
             IF r # NoRecord /\ Aged(proc[c].at, r.date)
             THEN IF LastFailure(r) THEN [here EXCEPT !.pc = "delete"]
                  ELSE [here EXCEPT !.pc = "setAged", !.copy = Decremented(r, here.at)]
             ELSE IF rest = {} THEN Idle ELSE [proc[c] EXCEPT !.keys = rest]]
  BY <1>1 DEF VisitKey, TypeOK
<1>3. k \in Key
  BY <1>1, <1>2 DEF ProcState
<1>4. PICK s : s = proc'[c]
  OBVIOUS
<1>5. /\ s \in ProcState /\ proc' = [proc EXCEPT ![c] = s]
      /\ s.pc \in {"idle", "visit", "delete", "setAged"}
      /\ s.pc \in {"delete", "setAged"} => s.key = k
      /\ s.pc = "setAged" => s.copy \in Record /\ Backed(k, s.copy)
  <2>1. CASE rec[k] # NoRecord /\ Aged(proc[c].at, rec[k].date) /\ LastFailure(rec[k])
    <3>1. s = [proc[c] EXCEPT !.key = k, !.keys = proc[c].keys \ {k}, !.pc = "delete"]
      BY <1>1, <1>2, <1>4, <2>1 DEF TypeOK
    <3> QED
      BY <1>1, <1>2, <1>3, <1>4, <2>1, <3>1 DEF TypeOK, ProcState, Pcs
  <2>2. CASE rec[k] # NoRecord /\ Aged(proc[c].at, rec[k].date) /\ ~LastFailure(rec[k])
    <3>1. PICK d : d = [rec[k] EXCEPT !.count = @ - 1]
      OBVIOUS
    <3>2. rec[k] \in Record /\ Backed(k, rec[k]) /\ rec[k].count > 1
      BY <1>3, <2>2, SessionFacts DEF LastFailure, Record
    <3>3. Room(k) \in Int
      BY <1>3, RoomType DEF Inv, KeyInv
    <3>4. d \in Record /\ Backed(k, d)
      BY <3>1, <3>2, <3>3 DEF Record, Backed
    <3>5. s = [proc[c] EXCEPT !.key = k, !.keys = proc[c].keys \ {k}, !.pc = "setAged", !.copy = d]
      BY <1>1, <1>2, <1>4, <2>2, <3>1 DEF TypeOK, Decremented
    <3>6. proc' = [proc EXCEPT ![c] = s]
      BY <1>1, <1>2, <1>4, <2>2 DEF TypeOK
    <3> QED
      BY <1>1, <1>3, <3>4, <3>5, <3>6 DEF ProcState, Pcs
  <2>3. CASE ~(rec[k] # NoRecord /\ Aged(proc[c].at, rec[k].date))
    <3>1. s = Idle \/ s = [proc[c] EXCEPT !.keys = proc[c].keys \ {k}]
      BY <1>1, <1>2, <1>4, <2>3 DEF TypeOK
    <3>2. proc' = [proc EXCEPT ![c] = s]
      BY <1>1, <1>2, <1>4, <2>3 DEF TypeOK
    <3>3. Idle \in ProcState /\ Idle.pc = "idle"
      BY DEF ProcState, Pcs, Idle
    <3>4. proc[c].pc = "visit"
      BY DEF VisitKey
    <3>5. s \in ProcState /\ s.pc \in {"idle", "visit"}
      BY <1>1, <3>1, <3>3, <3>4 DEF ProcState
    <3> QED
      BY <3>2, <3>5
  <2> QED
    BY <2>1, <2>2, <2>3
<1>6. proc' \in [Actor -> ProcState] /\ Only(c) /\ proc'[c] = s
  BY <1>1, <1>5 DEF TypeOK, Only
<1>7. TypeOK'
  BY <1>1, <1>6 DEF VisitKey, TypeOK
<1> QED
  BY <1>1, <1>3, <1>5, <1>6, <1>7, LightStep, SessionFacts DEF VisitKey

LEMMA JobStep ==
  ASSUME Inv, NEW c \in Cleaner, UNCHANGED setup,
         StartJob(c) \/ DeleteRecord(c) \/ RemoveFlag(c) \/ SetAged(c)
  PROVE  Inv'
<1>1. c \in Actor /\ TypeOK
  BY DEF Actor, Inv
<1>2. CASE StartJob(c)
  <2>1. PICK s : s = [Idle EXCEPT !.pc = "visit", !.at = ClockOf(c),
                                  !.keys = {k \in Key : rec[k] # NoRecord}]
    OBVIOUS
  <2>2. ClockOf(c) \in Nat
    BY <1>1 DEF ClockOf, TypeOK, Setup
  <2>3. s \in ProcState /\ s.pc = "visit"
    BY <2>1, <2>2 DEF Idle, ProcState, Pcs
  <2>4. proc' \in [Actor -> ProcState] /\ Only(c) /\ proc'[c] = s
    BY <1>1, <1>2, <2>1, <2>3 DEF StartJob, TypeOK, Only
  <2>5. TypeOK'
    BY <1>1, <1>2, <2>4 DEF StartJob, TypeOK
  <2> QED
    BY <1>1, <1>2, <2>3, <2>4, <2>5, LightStep, SessionFacts DEF StartJob
<1>3. CASE DeleteRecord(c)
  <2>1. KeyOf(c) \in Key
    BY <1>1, <1>3 DEF DeleteRecord, KeyOf, Inv, ActorInv
  <2>2. /\ proc' \in [Actor -> ProcState] /\ Only(c)
        /\ proc'[c].pc = "unflag" /\ proc'[c].key = proc[c].key
    BY <1>1, <1>3, GotoMoves DEF DeleteRecord, Pcs
  <2>3. /\ rec' = [rec EXCEPT ![KeyOf(c)] = NoRecord]
        /\ UNCHANGED <<now, flag, failed, lastFail, faults, setup>>
    BY <1>3 DEF DeleteRecord, SetRecord
  <2>4. TypeOK'
    BY <1>1, <2>2, <2>3 DEF TypeOK
  <2>5. \A k \in Key : rec'[k] # NoRecord => rec'[k] \in Record /\ Backed(k, rec'[k])
    BY <1>1, <2>1, <2>3, SessionFacts DEF TypeOK
  <2> QED
    BY <1>1, <2>1, <2>2, <2>3, <2>4, <2>5, LightStep DEF KeyOf
<1>4. CASE RemoveFlag(c)
  <2>1. KeyOf(c) \in Key
    BY <1>1, <1>4 DEF RemoveFlag, KeyOf, Inv, ActorInv
  <2>2. proc' \in [Actor -> ProcState] /\ Only(c) /\ proc'[c].pc \in {"idle", "visit"}
    BY <1>1, <1>4, NextKeyMoves DEF RemoveFlag
  <2>3. /\ flag' = [flag EXCEPT ![KeyOf(c)] = FALSE]
        /\ UNCHANGED <<now, rec, failed, lastFail, faults, setup>>
    BY <1>4 DEF RemoveFlag
  <2>4. TypeOK'
    BY <1>1, <2>2, <2>3 DEF TypeOK
  <2>5. \A k \in Key : flag'[k] => flag[k]
    BY <1>1, <2>1, <2>3 DEF TypeOK
  <2> QED
    BY <1>1, <2>2, <2>3, <2>4, <2>5, LightStep, SessionFacts
<1>5. CASE SetAged(c)
  <2>1. KeyOf(c) \in Key /\ proc[c].copy \in Record /\ Backed(KeyOf(c), proc[c].copy)
    BY <1>1, <1>5 DEF SetAged, KeyOf, Inv, ActorInv, Holding
  <2>2. proc' \in [Actor -> ProcState] /\ Only(c) /\ proc'[c].pc \in {"idle", "visit"}
    BY <1>1, <1>5, NextKeyMoves DEF SetAged
  <2>3. /\ rec' = [rec EXCEPT ![KeyOf(c)] = proc[c].copy]
        /\ UNCHANGED <<now, flag, failed, lastFail, faults, setup>>
    BY <1>5 DEF SetAged, SetRecord
  <2>4. TypeOK'
    BY <1>1, <2>1, <2>2, <2>3 DEF TypeOK
  <2>5. \A k \in Key : rec'[k] # NoRecord => rec'[k] \in Record /\ Backed(k, rec'[k])
    BY <1>1, <2>1, <2>3, SessionFacts DEF TypeOK
  <2> QED
    BY <1>1, <2>2, <2>3, <2>4, <2>5, LightStep
<1> QED
  BY <1>2, <1>3, <1>4, <1>5

LEMMA AbortStep ==
  ASSUME Inv, NEW a \in Actor, Abort(a), UNCHANGED setup
  PROVE  Inv'
<1>1. proc' \in [Actor -> ProcState] /\ Only(a) /\ proc'[a].pc = "idle"
  BY DoneMoves DEF Abort, Inv
<1>2. TypeOK'
  BY <1>1 DEF Abort, Inv, TypeOK
<1> QED
  BY <1>1, <1>2, LightStep, SessionFacts DEF Abort

\* A step that only moves the clock, or nothing.
LEMMA ClockStep ==
  ASSUME Inv, (Tick /\ UNCHANGED setup) \/ UNCHANGED vars
  PROVE  Inv'
<1>1. /\ UNCHANGED <<rec, flag, proc, failed, lastFail, faults, setup>>
      /\ now' \in 0..MaxNow
  BY DEF Tick, vars, Inv, TypeOK
<1>2. TypeOK'
  BY <1>1 DEF Inv, TypeOK
<1>3. \A k \in Key : Room(k)' = Room(k) /\ Unrecorded(k)' = Unrecorded(k)
  BY <1>1 DEF Room, Unrecorded
<1>4. \A a \in Actor : ActorInv(a)'
  BY <1>1, <1>3 DEF Inv, ActorInv, Holding, Backed
<1>5. \A k \in Key : KeyInv(k)'
  BY <1>1, <1>3 DEF Inv, KeyInv, Backed
<1> QED
  BY <1>2, <1>4, <1>5 DEF Inv

LEMMA InitInv ==
  ASSUME Init
  PROVE  Inv
<1>1. TypeOK
  BY DEF Init, TypeOK, ProcState, Idle, Pcs
<1>2. \A a \in Actor : ActorInv(a)
  BY DEF Init, ActorInv, Holding, Idle
<1>3. ASSUME NEW k \in Key
      PROVE  KeyInv(k)
  <2>1. Unrecorded(k) = {}
    BY DEF Init, Unrecorded, Idle, Actor
  <2>2. IsFiniteSet(Unrecorded(k)) /\ Cardinality(Unrecorded(k)) = 0
    BY <2>1, FS_EmptySet
  <2> QED
    BY <2>2 DEF Init, KeyInv, Room
<1> QED
  BY <1>1, <1>2, <1>3 DEF Inv

LEMMA NextInv ==
  ASSUME Inv, [Next]_vars
  PROVE  Inv'
<1>1. CASE UNCHANGED vars
  BY <1>1, ClockStep
<1>2. ASSUME Step, UNCHANGED setup
      PROVE  Inv'
  <2>1. ASSUME NEW t \in Thread, RequestSteps(t) \/ \E k \in Key : Submit(t, k)
        PROVE  Inv'
    BY <1>2, <2>1, SubmitStep, CheckStep, FailureStep, RecordStep, WriteStep DEF RequestSteps
  <2>2. ASSUME NEW c \in Cleaner, JobSteps(c)
        PROVE  Inv'
    BY <1>2, <2>2, JobStep, VisitStep DEF JobSteps
  <2>3. ASSUME NEW a \in Actor, Abort(a)
        PROVE  Inv'
    BY <1>2, <2>3, AbortStep
  <2>4. CASE Tick
    BY <1>2, <2>4, ClockStep
  <2> QED
    BY <1>2, <2>1, <2>2, <2>3, <2>4 DEF Step
<1> QED
  BY <1>1, <1>2 DEF Next

LEMMA SpecInv == Spec => []Inv
  BY InitInv, NextInv, PTL DEF Spec

-----------------------------------------------------------------------------
(***************************************************************************)
(* What it promises.                                                       *)
(***************************************************************************)

\* The counts, dates, flags and the state of every request and job keep their
\* types, whatever the requests, the jobs and the failing commands do.
THEOREM TypeCorrect == Spec => []TypeOK
<1>1. Inv => TypeOK
  BY DEF Inv
<1> QED
  BY <1>1, SpecInv, PTL

\* No update that is lost or repeated makes a record count more failures than
\* the session had.
THEOREM CountsAreBacked == Spec => []CountIsBacked
<1>1. ASSUME Inv
      PROVE  CountIsBacked
  <2> SUFFICES ASSUME NEW k \in Key, rec[k] # NoRecord
               PROVE  rec[k].count <= failed[k]
    BY DEF CountIsBacked
  <2>1. rec[k] \in Record /\ rec[k].count <= Room(k)
    BY <1>1, SessionFacts DEF Backed
  <2>2. Room(k) \in Int /\ Room(k) <= failed[k]
    BY <1>1, RoomType DEF Inv, KeyInv
  <2> QED
    BY <1>1, <2>1, <2>2 DEF Record, Inv, TypeOK
<1> QED
  BY <1>1, SpecInv, PTL

\* A captcha is demanded only of a session whose logins have failed
\* CaptchaThreshold times.
THEOREM CaptchaIsEarned == Spec => []CaptchaNeedsFailures
<1>1. Inv => CaptchaNeedsFailures
  BY DEF Inv, KeyInv, CaptchaNeedsFailures
<1> QED
  BY <1>1, SpecInv, PTL

LEMMA LaterIsNoFaster ==
  ASSUME NEW a \in Int, NEW b \in Int, a <= b, NEW n \in Nat
  PROVE  a * n <= b * n
BY SMT

\* Only the check of the rate turns a POST away, and the record it went by is
\* no newer than the latest failure of the session.
LEMMA NextDenial ==
  ASSUME Inv, Next, NEW t \in Thread,
         proc[t].pc = "readRate", proc'[t].pc = "idle", faults' = faults
  PROVE  (ClockOf(t) - lastFail[KeyOf(t)]) * Threshold < PerSecond * RangeSeconds
<1>1. t \in Actor /\ TypeOK /\ KeyOf(t) \in Key
  BY DEF Actor, Inv, ActorInv, KeyOf
<1>2. ReadRate(t)
  <2>1. ASSUME NEW u \in Thread, RequestSteps(u) \/ \E k \in Key : Submit(u, k)
        PROVE  u = t /\ ReadRate(t)
    <3>1. proc'[t] # proc[t]
      OBVIOUS
    <3>2. u \in Actor /\ (u # t => proc'[t] = proc[t])
      BY <1>1, <2>1 DEF Actor, RequestSteps, Submit, ReadRate, DropKey, AuthenticationFails,
         AuthenticationEnds, ClearFlag, HasRecord, GetRecord, MakeRecord, SetLatest, SetFlag,
         Goto, Done, TypeOK
    <3>3. u = t
      BY <3>1, <3>2
    <3>4. ~ \E k \in Key : Submit(t, k)
      <4>1. proc[t] # Idle
        BY DEF Idle
      <4> QED
        BY <4>1 DEF Submit, CanBegin
    <3>5. \/ ReadRate(t)
          \/ proc[t].pc \in {"dropKey", "auth", "cleared", "hasRecord", "getRecord",
                             "setFirst", "setNext", "setFlag"}
      BY <2>1, <3>3, <3>4 DEF RequestSteps, DropKey, AuthenticationFails,
         AuthenticationEnds, ClearFlag, HasRecord, GetRecord, SetLatest, SetFlag
    <3> QED
      BY <3>3, <3>5
  <2>2. ASSUME NEW c \in Cleaner, JobSteps(c)
        PROVE  proc'[t] = proc[t]
    <3>1. c \in Actor /\ c # t
      BY DEF Actor
    <3> QED
      BY <1>1, <2>2, <3>1 DEF JobSteps, StartJob, VisitKey, DeleteRecord, RemoveFlag, SetAged,
         NextKey, Goto, TypeOK
  <2>3. ~ \E a \in Actor : Abort(a)
    BY <1>1 DEF Abort, TypeOK
  <2>4. ~ Tick
    BY DEF Tick
  <2> QED
    BY <2>1, <2>2, <2>3, <2>4 DEF Next, Step
<1>3. PICK k \in Key : k = KeyOf(t)
  BY <1>1
<1>4. rec[k] # NoRecord /\ Exceeds(ClockOf(t), rec[k].date)
  <2>1. ~Goto(t, "dropKey") /\ ~Goto(t, "auth")
    BY <1>1, GotoMoves DEF Pcs
  <2> QED
    BY <1>2, <1>3, <2>1 DEF ReadRate
<1>5. rec[k] \in Record /\ rec[k].date <= lastFail[k]
  BY <1>4, SessionFacts DEF Backed
<1>6. /\ ClockOf(t) \in Nat /\ rec[k].date \in Nat /\ lastFail[k] \in Nat
      /\ Threshold \in Nat /\ PerSecond * RangeSeconds \in Nat
  BY <1>1, <1>5 DEF ClockOf, TypeOK, Setup, Record
<1>7. (ClockOf(t) - lastFail[k]) * Threshold <= (ClockOf(t) - rec[k].date) * Threshold
  BY <1>5, <1>6, LaterIsNoFaster
<1>8. (ClockOf(t) - rec[k].date) * Threshold < PerSecond * RangeSeconds
  BY <1>4 DEF Exceeds
<1>9. /\ (ClockOf(t) - lastFail[k]) * Threshold \in Int
      /\ (ClockOf(t) - rec[k].date) * Threshold \in Int
  BY <1>6
<1> QED
  BY <1>3, <1>6, <1>7, <1>8, <1>9

\* A POST is answered 403 only soon after a failure of its own session, also
\* when a job has put an older record back.
THEOREM DenialsAreRecent == Spec => DenialNeedsRecentFailure
<1> DEFINE Denied ==
      \A t \in Thread : proc[t].pc = "readRate" /\ proc'[t].pc = "idle" /\ faults' = faults
        => (ClockOf(t) - lastFail[KeyOf(t)]) * Threshold < PerSecond * RangeSeconds
<1>1. Inv /\ [Next]_vars => [Denied]_vars
  BY NextDenial
<1> QED
  BY <1>1, SpecInv, PTL DEF Spec, DenialNeedsRecentFailure

-----------------------------------------------------------------------------
(***************************************************************************)
(* Operations that do not overlap.                                         *)
(***************************************************************************)

Alone == \A a, b \in Actor : proc[a] # Idle /\ proc[b] # Idle => a = b

\* What a has found out about the record of its session still holds.
ActorSerial(a) ==
  /\ proc[a].pc \in {"readRate", "getRecord", "setFlag"} => rec[proc[a].key] # NoRecord
  /\ proc[a].pc # "dropKey"

\* A flag without a record is about to go.
KeySerial(k) ==
  flag[k] => rec[k] # NoRecord \/ \E a \in Actor : proc[a].pc = "unflag" /\ proc[a].key = k

Undisturbed == setup.serial /\ faults = MaxFaults

SerialInv ==
  /\ setup.serial => Alone
  /\ Undisturbed => (\A a \in Actor : ActorSerial(a)) /\ (\A k \in Key : KeySerial(k))

\* An actor of the step, whatever the step.
Moves(a) == (proc[a] # Idle \/ CanBegin(a)) /\ Only(a) /\ UNCHANGED setup

LEMMA OthersIdle ==
  ASSUME Inv, SerialInv, setup.serial, NEW a \in Actor, Moves(a)
  PROVE  /\ \A b \in Actor \ {a} : proc[b] = Idle /\ proc'[b] = Idle
         /\ Alone'
<1>1. \A b \in Actor \ {a} : proc[b] = Idle
  BY DEF Moves, SerialInv, Alone, CanBegin, Quiet
<1>2. \A b \in Actor \ {a} : proc'[b] = Idle
  BY <1>1 DEF Moves, Only
<1>3. Idle' = Idle
  BY DEF Idle
<1> QED
  BY <1>1, <1>2, <1>3 DEF Alone

\* What is left to show of a step of a.
LEMMA SerialStep ==
  ASSUME Inv, SerialInv, NEW a \in Actor, Moves(a),
         faults' = MaxFaults => faults = MaxFaults,
         Undisturbed /\ Undisturbed' =>
           /\ ActorSerial(a)'
           /\ \A k \in Key : KeySerial(k)'
  PROVE  SerialInv'
<1>1. setup' = setup
  BY DEF Moves
<1>2. CASE ~setup.serial
  BY <1>1, <1>2 DEF SerialInv, Undisturbed
<1>3. CASE setup.serial
  <2>1. Alone' /\ \A b \in Actor \ {a} : proc'[b] = Idle
    BY <1>3, OthersIdle
  <2>2. \A b \in Actor \ {a} : ActorSerial(b)'
    BY <2>1 DEF ActorSerial, Idle
  <2>3. Undisturbed' => Undisturbed
    BY <1>1, <1>3 DEF Undisturbed
  <2> QED
    BY <1>1, <2>1, <2>2, <2>3 DEF SerialInv
<1> QED
  BY <1>2, <1>3

\* A step of a request or a job has an actor.
LEMMA StepMoves ==
  ASSUME Inv, UNCHANGED setup
  PROVE  /\ \A t \in Thread : RequestSteps(t) \/ (\E k \in Key : Submit(t, k)) => Moves(t)
         /\ \A c \in Cleaner : JobSteps(c) => Moves(c)
         /\ \A a \in Actor : Abort(a) => Moves(a)
<1>1. \A a \in Actor : proc[a].pc # "idle" => proc[a] # Idle
  BY DEF Idle
<1>2. ASSUME NEW t \in Thread, RequestSteps(t) \/ (\E k \in Key : Submit(t, k))
      PROVE  Moves(t)
  <2>1. t \in Actor
    BY DEF Actor
  <2>2. Only(t)
    BY <1>2, <2>1 DEF RequestSteps, Submit, ReadRate, DropKey, AuthenticationFails,
       AuthenticationEnds, ClearFlag, HasRecord, GetRecord, MakeRecord, SetLatest, SetFlag,
       Goto, Done, Inv, TypeOK, Only
  <2>3. proc[t].pc # "idle" \/ CanBegin(t)
    BY <1>2 DEF RequestSteps, Submit, ReadRate, DropKey, AuthenticationFails,
       AuthenticationEnds, ClearFlag, HasRecord, GetRecord, SetLatest, SetFlag
  <2> QED
    BY <1>1, <2>1, <2>2, <2>3 DEF Moves
<1>3. ASSUME NEW c \in Cleaner, JobSteps(c)
      PROVE  Moves(c)
  <2>1. c \in Actor
    BY DEF Actor
  <2>2. Only(c)
    BY <1>3, <2>1 DEF JobSteps, StartJob, VisitKey, DeleteRecord, RemoveFlag, SetAged,
       NextKey, Goto, Inv, TypeOK, Only
  <2>3. proc[c].pc # "idle" \/ CanBegin(c)
    BY <1>3 DEF JobSteps, StartJob, VisitKey, DeleteRecord, RemoveFlag, SetAged
  <2> QED
    BY <1>1, <2>1, <2>2, <2>3 DEF Moves
<1>4. \A a \in Actor : Abort(a) => Moves(a)
  BY DEF Abort, Done, Moves, Only, Inv, TypeOK
<1> QED
  BY <1>2, <1>3, <1>4

LEMMA ThreadSerial ==
  ASSUME Inv, SerialInv, NEW t \in Thread, UNCHANGED setup,
         RequestSteps(t) \/ \E k \in Key : Submit(t, k)
  PROVE  SerialInv'
<1>1. t \in Actor /\ TypeOK /\ Moves(t)
  BY StepMoves DEF Actor, Inv
<1>2. faults' = faults
  BY DEF RequestSteps, Submit, ReadRate, DropKey, AuthenticationFails, AuthenticationEnds,
     ClearFlag, HasRecord, GetRecord, SetLatest, SetFlag
<1>3. SUFFICES ASSUME Undisturbed
               PROVE  ActorSerial(t)' /\ \A k \in Key : KeySerial(k)'
  BY <1>1, <1>2, SerialStep
<1>4. /\ ActorSerial(t) /\ ~DropKey(t)
      /\ \A b \in Actor \ {t} : proc[b] = Idle
  BY <1>1, <1>3, OthersIdle DEF Undisturbed, SerialInv, ActorSerial, DropKey
<1>5. /\ \A k \in Key : flag[k] => rec[k] # NoRecord
      /\ ActorSerial(t)' /\ \A k \in Key : flag'[k] => rec'[k] # NoRecord
  <2>1. ASSUME proc[t].pc # "unflag"
        PROVE  \A k \in Key : flag[k] => rec[k] # NoRecord
    <3>1. \A b \in Actor : proc[b].pc # "unflag"
      BY <1>4, <2>1 DEF Idle
    <3> QED
      BY <1>3, <3>1 DEF SerialInv, KeySerial
  <2>2. CASE \E k \in Key : Submit(t, k)
    <3>1. PICK k \in Key : Submit(t, k)
      BY <2>2
    <3>2. PICK pc : pc = IF rec[k] = NoRecord THEN "auth" ELSE "readRate"
      OBVIOUS
    <3>3. PICK s : s = [Idle EXCEPT !.key = k, !.pc = pc]
      OBVIOUS
    <3>4. s.key = k /\ s.pc = pc /\ Idle.pc = "idle"
      BY <3>3 DEF Idle
    <3>5. proc'[t] = s /\ proc[t] = Idle /\ UNCHANGED <<rec, flag>>
      BY <1>1, <3>1, <3>2, <3>3 DEF Submit, CanBegin, TypeOK
    <3> QED
      BY <2>1, <3>2, <3>4, <3>5 DEF ActorSerial
  <2>3. CASE ReadRate(t)
    <3>1. Goto(t, "auth") \/ Done(t)
      BY <1>4, <2>3 DEF ReadRate, ActorSerial, KeyOf
    <3>2. proc'[t].pc \in {"auth", "idle"} /\ proc[t].pc # "unflag"
      BY <1>1, <2>3, <3>1, GotoMoves, DoneMoves DEF Pcs, ReadRate
    <3> QED
      BY <2>1, <2>3, <3>2 DEF ReadRate, ActorSerial
  <2>4. CASE AuthenticationFails(t) \/ AuthenticationEnds(t) \/ ClearFlag(t)
    <3>1. Goto(t, "hasRecord") \/ Goto(t, "cleared") \/ Done(t)
      BY <2>4 DEF AuthenticationFails, AuthenticationEnds, ClearFlag
    <3>2. {"hasRecord", "cleared"} \subseteq Pcs
      BY DEF Pcs
    <3>3. proc'[t].pc \in {"hasRecord", "cleared", "idle"} /\ proc[t].pc # "unflag"
      BY <1>1, <2>4, <3>1, <3>2, GotoMoves, DoneMoves
         DEF AuthenticationFails, AuthenticationEnds, ClearFlag
    <3>4. KeyOf(t) \in Key
      BY <1>1, <2>4 DEF Inv, ActorInv, KeyOf, AuthenticationFails, AuthenticationEnds, ClearFlag
    <3>5. rec' = rec /\ \A k \in Key : flag'[k] => flag[k]
      BY <1>1, <2>4, <3>4 DEF AuthenticationFails, AuthenticationEnds, ClearFlag, TypeOK
    <3> QED
      BY <2>1, <3>3, <3>5 DEF ActorSerial
  <2>5. CASE HasRecord(t) \/ GetRecord(t)
    <3>1. UNCHANGED <<rec, flag>> /\ proc[t].pc # "unflag"
      BY <2>5 DEF HasRecord, GetRecord
    <3>2. \/ proc'[t].pc \in {"setFirst", "setNext", "idle"}
          \/ /\ proc'[t].pc = "getRecord" /\ proc'[t].key = KeyOf(t)
             /\ rec[KeyOf(t)] # NoRecord
      <4>1. ASSUME NEW n \in Nat, NEW pc \in {"setFirst", "setNext"}, MakeRecord(t, n, pc)
            PROVE  proc'[t].pc = pc
        BY <1>1, <4>1 DEF MakeRecord, TypeOK, ProcState
      <4>2. CASE HasRecord(t)
        BY <1>1, <4>1, <4>2, GotoMoves DEF HasRecord, Pcs, KeyOf
      <4>3. CASE GetRecord(t) /\ rec[KeyOf(t)] = NoRecord
        BY <1>1, <4>3, DoneMoves DEF GetRecord
      <4>4. CASE GetRecord(t) /\ rec[KeyOf(t)] # NoRecord
        <5>1. PICK r : r = rec[KeyOf(t)]
          OBVIOUS
        <5>2. proc' = [proc EXCEPT ![t].copy = [count |-> r.count + 1, date |-> ClockOf(t)],
                                   ![t].pc = "setNext"]
          BY <4>4, <5>1 DEF GetRecord, MakeRecord
        <5> QED
          BY <1>1, <5>2 DEF TypeOK, ProcState
      <4> QED
        BY <2>5, <4>2, <4>3, <4>4
    <3> QED
      BY <2>1, <3>1, <3>2 DEF ActorSerial
  <2>6. CASE SetLatest(t)
    <3>1. KeyOf(t) \in Key /\ proc[t].copy \in Record
      BY <1>1, <2>6 DEF SetLatest, Inv, ActorInv, Holding, KeyOf
    <3>2. /\ proc'[t].pc \in {"idle", "setFlag"} /\ proc[t].pc # "unflag"
          /\ proc'[t].pc = "setFlag" => proc'[t].key = KeyOf(t)
      BY <1>1, <2>6, GotoMoves, DoneMoves DEF SetLatest, Pcs, KeyOf
    <3>3. /\ rec'[KeyOf(t)] # NoRecord /\ flag' = flag
          /\ \A k \in Key : rec[k] # NoRecord => rec'[k] # NoRecord
      BY <1>1, <2>6, <3>1 DEF SetLatest, SetRecord, TypeOK
    <3> QED
      BY <2>1, <3>2, <3>3 DEF ActorSerial
  <2>7. CASE SetFlag(t)
    <3>1. proc'[t].pc = "idle" /\ proc[t].pc = "setFlag"
      BY <1>1, <2>7, DoneMoves DEF SetFlag
    <3>2. rec' = rec /\ \A k \in Key : flag'[k] => flag[k] \/ k = KeyOf(t)
      BY <1>1, <2>7 DEF SetFlag, TypeOK
    <3>3. rec[KeyOf(t)] # NoRecord
      BY <1>4, <3>1 DEF ActorSerial, KeyOf
    <3> QED
      BY <2>1, <3>1, <3>2, <3>3 DEF ActorSerial
  <2> QED
    BY <1>4, <2>2, <2>3, <2>4, <2>5, <2>6, <2>7 DEF RequestSteps
<1> QED
  BY <1>5 DEF KeySerial

LEMMA VisitOrStart ==
  ASSUME Inv, NEW c \in Cleaner, StartJob(c) \/ VisitKey(c)
  PROVE  proc'[c].pc \in {"idle", "visit", "delete", "setAged"}
<1>1. c \in Actor /\ TypeOK /\ proc[c] \in ProcState
  BY DEF Actor, Inv, TypeOK
<1>2. CASE StartJob(c)
  BY <1>1, <1>2 DEF StartJob, TypeOK, Idle
<1>3. CASE VisitKey(c)
  <2>1. PICK k \in proc[c].keys :
          LET r    == rec[k]
              rest == proc[c].keys \ {k}
              here == [proc[c] EXCEPT !.key = k, !.keys = rest]
          IN proc' = [proc EXCEPT ![c] =
               IF r # NoRecord /\ Aged(proc[c].at, r.date)
               THEN IF LastFailure(r) THEN [here EXCEPT !.pc = "delete"]
                    ELSE [here EXCEPT !.pc = "setAged", !.copy = Decremented(r, here.at)]
               ELSE IF rest = {} THEN Idle ELSE [proc[c] EXCEPT !.keys = rest]]
    BY <1>1, <1>3 DEF VisitKey, TypeOK
  <2>2. proc[c].pc = "visit" /\ Idle.pc = "idle"
    BY <1>3 DEF VisitKey, Idle
  <2> QED
    BY <1>1, <2>1, <2>2 DEF TypeOK, ProcState
<1> QED
  BY <1>2, <1>3

LEMMA JobSerial ==
  ASSUME Inv, SerialInv, NEW c \in Cleaner, UNCHANGED setup, JobSteps(c)
  PROVE  SerialInv'
<1>1. c \in Actor /\ TypeOK /\ Moves(c)
  BY StepMoves DEF Actor, Inv
<1>2. faults' = faults
  BY DEF JobSteps, StartJob, VisitKey, DeleteRecord, RemoveFlag, SetAged
<1>3. SUFFICES ASSUME Undisturbed
               PROVE  ActorSerial(c)' /\ \A k \in Key : KeySerial(k)'
  BY <1>1, <1>2, SerialStep
<1>4. \A b \in Actor \ {c} : proc[b] = Idle
  BY <1>1, <1>3, OthersIdle DEF Undisturbed
<1>5. \A k \in Key : flag[k] => rec[k] # NoRecord \/ (proc[c].pc = "unflag" /\ k = KeyOf(c))
  <2>1. \A b \in Actor \ {c} : proc[b].pc # "unflag"
    BY <1>4 DEF Idle
  <2> SUFFICES ASSUME NEW k \in Key, flag[k], rec[k] = NoRecord
               PROVE  proc[c].pc = "unflag" /\ k = KeyOf(c)
    OBVIOUS
  <2>2. \E b \in Actor : proc[b].pc = "unflag" /\ proc[b].key = k
    BY <1>3 DEF SerialInv, KeySerial
  <2> QED
    BY <2>1, <2>2 DEF KeyOf
<1>6. CASE StartJob(c) \/ VisitKey(c)
  <2>1. UNCHANGED <<rec, flag>> /\ proc[c].pc # "unflag"
    <3>1. Idle.pc = "idle"
      BY DEF Idle
    <3> QED
      BY <1>6, <3>1 DEF StartJob, VisitKey, CanBegin
  <2>2. proc'[c].pc \in {"idle", "visit", "delete", "setAged"}
    BY <1>6, VisitOrStart
  <2> QED
    BY <1>5, <2>1, <2>2 DEF ActorSerial, KeySerial
<1>7. CASE DeleteRecord(c)
  <2>1. /\ proc'[c].pc = "unflag" /\ proc'[c].key = KeyOf(c) /\ proc[c].pc # "unflag"
    BY <1>1, <1>7, GotoMoves DEF DeleteRecord, Pcs, KeyOf
  <2>2. flag' = flag /\ \A k \in Key : rec[k] # NoRecord => rec'[k] # NoRecord \/ k = KeyOf(c)
    BY <1>1, <1>7 DEF DeleteRecord, SetRecord, TypeOK
  <2> QED
    BY <1>1, <1>5, <2>1, <2>2 DEF ActorSerial, KeySerial
<1>8. CASE RemoveFlag(c) \/ SetAged(c)
  <2>1. proc'[c].pc \in {"idle", "visit"}
    BY <1>1, <1>8, NextKeyMoves DEF RemoveFlag, SetAged
  <2>2. KeyOf(c) \in Key /\ (SetAged(c) => proc[c].copy \in Record)
    BY <1>1, <1>8 DEF RemoveFlag, SetAged, Inv, ActorInv, Holding, KeyOf
  <2>3. \A k \in Key : flag'[k] => rec'[k] # NoRecord
    BY <1>1, <1>5, <1>8, <2>2 DEF RemoveFlag, SetAged, SetRecord, TypeOK
  <2> QED
    BY <2>1, <2>3 DEF ActorSerial, KeySerial
<1> QED
  BY <1>6, <1>7, <1>8 DEF JobSteps

LEMMA NextSerial ==
  ASSUME Inv, SerialInv, [Next]_vars
  PROVE  SerialInv'
<1>1. CASE (Tick /\ UNCHANGED setup) \/ UNCHANGED vars
  BY <1>1 DEF Tick, vars, SerialInv, Alone, Undisturbed, ActorSerial, KeySerial, Idle
<1>2. ASSUME NEW a \in Actor, Abort(a), UNCHANGED setup
      PROVE  SerialInv'
  <2>1. faults' # MaxFaults
    BY <1>2 DEF Abort, Inv, TypeOK
  <2> QED
    BY <1>2, <2>1, StepMoves, SerialStep DEF Undisturbed
<1> QED
  BY <1>1, <1>2, ThreadSerial, JobSerial DEF Next, Step

LEMMA SpecSerial == Spec => []SerialInv
<1>1. Init => SerialInv
  BY DEF Init, SerialInv, Alone, ActorSerial, KeySerial, Idle
<1>2. Inv /\ SerialInv /\ [Next]_vars => SerialInv'
  BY NextSerial
<1> QED
  BY <1>1, <1>2, SpecInv, PTL DEF Spec

\* Where operations do not overlap and every command succeeds, no session is
\* left with a captcha flag that no run of the job will visit.
THEOREM FlagsHaveRecords == Spec => []FlagNeedsRecord
<1>1. ASSUME SerialInv
      PROVE  FlagNeedsRecord
  <2>1. Quiet => \A a \in Actor : proc[a].pc # "unflag"
    BY DEF Quiet, Idle
  <2> QED
    BY <1>1, <2>1 DEF SerialInv, Undisturbed, KeySerial, FlagNeedsRecord
<1> QED
  BY <1>1, SpecSerial, PTL

-----------------------------------------------------------------------------
(***************************************************************************)
(* ... with clocks that agree: the record is dated by the latest failure,  *)
(* and who finds no record, or is let past it, comes 1/rate after that.    *)
(* Without a rate (Threshold = 0) every failure is too soon while its      *)
(* record lasts, and none is once the record is gone.                      *)
(***************************************************************************)

Apart(k) == (now - lastFail[k]) * Threshold >= PerSecond * RangeSeconds

\* The latest failure of session k has yet to reach Redis.
Recording(k) ==
  \E a \in Actor :
    proc[a].key = k /\ proc[a].pc \in {"hasRecord", "getRecord", "setFirst", "setNext"}

ActorPaced(a) ==
  /\ proc[a].pc \in {"auth", "cleared"} /\ failed[proc[a].key] > 0 => Apart(proc[a].key)
  /\ proc[a].pc \in {"hasRecord", "getRecord"} /\ failed[proc[a].key] > 1 => Apart(proc[a].key)
  /\ proc[a].pc = "delete" => Apart(proc[a].key)
  /\ proc[a].pc \in {"setFirst", "setNext", "setAged"} => proc[a].copy.date = lastFail[proc[a].key]
  /\ proc[a].pc \in {"visit", "delete", "unflag", "setAged"} => proc[a].at <= now

KeyPaced(k) ==
  /\ lastFail[k] <= now
  /\ rec[k] # NoRecord => rec[k].date = lastFail[k] \/ Recording(k)
  /\ rec[k] = NoRecord /\ failed[k] > 0 => Apart(k) \/ Recording(k)

SameClock == \A a \in Actor : setup.ahead[a] = 0

PacedInv ==
  Undisturbed /\ SameClock =>
    (\A a \in Actor : ActorPaced(a)) /\ (\A k \in Key : KeyPaced(k))

\* What is left to show of a step of a.
LEMMA PacedStep ==
  ASSUME Inv, SerialInv, PacedInv, NEW a \in Actor, Moves(a),
         faults' = MaxFaults => faults = MaxFaults,
         Undisturbed /\ SameClock =>
           /\ ActorPaced(a)'
           /\ \A k \in Key : KeyPaced(k)'
  PROVE  PacedInv'
<1> SUFFICES ASSUME Undisturbed', SameClock'
             PROVE  (\A b \in Actor : ActorPaced(b)') /\ (\A k \in Key : KeyPaced(k)')
  BY DEF PacedInv
<1>1. Undisturbed /\ SameClock
  BY DEF Undisturbed, SameClock, Moves
<1>2. \A b \in Actor \ {a} : proc'[b] = Idle
  BY <1>1, OthersIdle DEF Undisturbed
<1>3. \A b \in Actor \ {a} : ActorPaced(b)'
  BY <1>2 DEF ActorPaced, Idle
<1> QED
  BY <1>1, <1>3

\* The waits are over for good: time only passes.
LEMMA ApartType ==
  ASSUME Inv, NEW k \in Key
  PROVE  /\ now \in Nat /\ lastFail[k] \in Nat /\ Threshold \in Nat
         /\ PerSecond * RangeSeconds \in Nat
         /\ (now - lastFail[k]) * Threshold \in Int
BY DEF Inv, TypeOK

\* While nobody has a failure to record: what the record tells.
LEMMA RestingKey ==
  ASSUME Inv, SerialInv, PacedInv, Undisturbed, SameClock, NEW a \in Actor, Moves(a),
         proc[a].pc \notin {"hasRecord", "getRecord", "setFirst", "setNext"},
         NEW k \in Key
  PROVE  /\ lastFail[k] <= now
         /\ rec[k] # NoRecord => rec[k].date = lastFail[k]
         /\ rec[k] = NoRecord /\ failed[k] > 0 => Apart(k)
<1>1. \A b \in Actor \ {a} : proc[b] = Idle
  BY OthersIdle DEF Undisturbed
<1>2. ~Recording(k)
  BY <1>1 DEF Recording, Idle
<1>3. KeyPaced(k)
  BY DEF PacedInv
<1> QED
  BY <1>2, <1>3 DEF KeyPaced

\* A step that leaves the records and the failures as they are.
LEMMA RestingStep ==
  ASSUME Inv, SerialInv, PacedInv, Undisturbed, SameClock, NEW a \in Actor, Moves(a),
         proc[a].pc \notin {"hasRecord", "getRecord", "setFirst", "setNext"},
         UNCHANGED <<now, rec, failed, lastFail>>
  PROVE  \A k \in Key : KeyPaced(k)'
<1> SUFFICES ASSUME NEW k \in Key
             PROVE  KeyPaced(k)'
  OBVIOUS
<1>1. Apart(k)' = Apart(k)
  BY DEF Apart
<1> QED
  BY <1>1, RestingKey DEF KeyPaced

LEMMA CheckPaced ==
  ASSUME Inv, SerialInv, PacedInv, NEW t \in Thread, Moves(t), UNCHANGED setup,
         ReadRate(t) \/ AuthenticationEnds(t) \/ ClearFlag(t) \/ (\E k \in Key : Submit(t, k))
  PROVE  PacedInv'
<1>1. t \in Actor /\ TypeOK
  BY DEF Actor, Inv
<1>2. /\ faults' = faults /\ UNCHANGED <<now, rec, failed, lastFail>>
      /\ proc[t].pc \notin {"hasRecord", "getRecord", "setFirst", "setNext"}
  <2>1. Idle.pc = "idle"
    BY DEF Idle
  <2> QED
    BY <2>1 DEF ReadRate, AuthenticationEnds, ClearFlag, Submit, CanBegin
<1>3. SUFFICES ASSUME Undisturbed, SameClock
               PROVE  ActorPaced(t)'
  BY <1>1, <1>2, PacedStep, RestingStep
<1>4. CASE \E k \in Key : Submit(t, k)
  <2>1. PICK k \in Key : Submit(t, k)
    BY <1>4
  <2>2. PICK pc : pc = IF rec[k] = NoRecord THEN "auth" ELSE "readRate"
    OBVIOUS
  <2>3. PICK s : s = [Idle EXCEPT !.key = k, !.pc = pc]
    OBVIOUS
  <2>4. s.key = k /\ s.pc = pc
    BY <2>3 DEF Idle
  <2>5. proc'[t] = s
    BY <1>1, <2>1, <2>2, <2>3 DEF Submit, TypeOK
  <2>6. Apart(k)' = Apart(k) /\ failed'[k] = failed[k]
    BY <1>2 DEF Apart
  <2>7. rec[k] = NoRecord /\ failed[k] > 0 => Apart(k)
    BY <1>1, <1>2, <1>3, RestingKey
  <2> QED
    BY <2>2, <2>4, <2>5, <2>6, <2>7 DEF ActorPaced
<1>5. CASE AuthenticationEnds(t) \/ ClearFlag(t)
  <2>1. \/ proc'[t].pc = "idle"
        \/ /\ proc'[t].pc = "cleared" /\ proc'[t].key = KeyOf(t)
           /\ proc[t].pc = "auth"
    BY <1>1, <1>5, GotoMoves, DoneMoves DEF AuthenticationEnds, ClearFlag, Pcs, KeyOf
  <2>2. ActorPaced(t)
    BY <1>1, <1>3 DEF PacedInv
  <2>3. Apart(KeyOf(t))' = Apart(KeyOf(t)) \/ proc'[t].pc = "idle"
    BY <1>2, <2>1 DEF Apart, KeyOf
  <2> QED
    BY <1>2, <2>1, <2>2, <2>3 DEF ActorPaced, KeyOf
<1>6. CASE ReadRate(t)
  <2>1. PICK k \in Key : k = KeyOf(t)
    BY <1>1, <1>6 DEF Inv, ActorInv, ReadRate, KeyOf
  <2>2. rec[k] # NoRecord
    BY <1>1, <1>3, <1>6, <2>1 DEF ReadRate, SerialInv, ActorSerial, KeyOf
  <2>3. rec[k].date = lastFail[k] /\ lastFail[k] <= now
    BY <1>1, <1>2, <1>3, <2>2, RestingKey
  <2>4. ClockOf(t) = now
    BY <1>1, <1>3 DEF ClockOf, SameClock, TypeOK
  <2>5. \/ proc'[t].pc = "idle"
        \/ /\ proc'[t].pc = "auth" /\ proc'[t].key = k
           /\ ~Exceeds(now, lastFail[k])
    BY <1>1, <1>6, <2>1, <2>2, <2>3, <2>4, GotoMoves, DoneMoves DEF ReadRate, Pcs, KeyOf
  <2>6. Exceeds(now, lastFail[k]) \/ Apart(k)
    BY <2>3, ApartType DEF Exceeds, Apart
  <2>7. Apart(k)' = Apart(k)
    BY <1>2 DEF Apart
  <2> QED
    BY <2>5, <2>6, <2>7 DEF ActorPaced
<1> QED
  BY <1>4, <1>5, <1>6

LEMMA FailurePaced ==
  ASSUME Inv, SerialInv, PacedInv, NEW t \in Thread, Moves(t), AuthenticationFails(t)
  PROVE  PacedInv'
<1>1. t \in Actor /\ TypeOK /\ faults' = faults /\ UNCHANGED <<now, rec, lastFail>>
  BY DEF Actor, Inv, AuthenticationFails
<1>2. SUFFICES ASSUME Undisturbed, SameClock
               PROVE  ActorPaced(t)' /\ \A k \in Key : KeyPaced(k)'
  BY <1>1, PacedStep
<1>3. PICK l \in Key : l = KeyOf(t)
  BY <1>1 DEF Inv, ActorInv, AuthenticationFails, KeyOf
<1>4. proc'[t].pc = "hasRecord" /\ proc'[t].key = l
  BY <1>1, <1>3, GotoMoves DEF AuthenticationFails, Pcs, KeyOf
<1>5. /\ failed'[l] = failed[l] + 1
      /\ \A k \in Key \ {l} : failed'[k] = failed[k]
  BY <1>1, <1>3 DEF AuthenticationFails, TypeOK
<1>6. \A k \in Key : Apart(k)' = Apart(k)
  BY <1>1 DEF Apart
<1>7. failed[l] > 0 => Apart(l)
  BY <1>1, <1>2, <1>3 DEF PacedInv, ActorPaced, AuthenticationFails, KeyOf
<1>8. ActorPaced(t)'
  BY <1>1, <1>3, <1>4, <1>5, <1>6, <1>7 DEF ActorPaced, TypeOK
<1>9. Recording(l)'
  BY <1>1, <1>4 DEF Recording
<1>10. ASSUME NEW k \in Key
       PROVE  KeyPaced(k)'
  <2>1. /\ lastFail[k] <= now
        /\ rec[k] # NoRecord => rec[k].date = lastFail[k]
        /\ rec[k] = NoRecord /\ failed[k] > 0 => Apart(k)
    BY <1>1, <1>2, RestingKey DEF AuthenticationFails
  <2> QED
    BY <1>1, <1>5, <1>6, <1>9, <2>1 DEF KeyPaced
<1> QED
  BY <1>8, <1>10

\* A step does nothing to the sessions it is not about.
LEMMA OtherKeys ==
  ASSUME Inv, SerialInv, PacedInv, Undisturbed, SameClock, NEW a \in Actor, Moves(a),
         NEW k \in Key, proc[a].key # k, now' = now,
         rec'[k] = rec[k], failed'[k] = failed[k], lastFail'[k] = lastFail[k]
  PROVE  KeyPaced(k)'
<1>1. \A b \in Actor \ {a} : proc[b] = Idle
  BY OthersIdle DEF Undisturbed
<1>2. ~Recording(k)
  BY <1>1 DEF Recording, Idle
<1>3. KeyPaced(k)
  BY DEF PacedInv
<1>4. Apart(k)' = Apart(k)
  BY DEF Apart
<1> QED
  BY <1>2, <1>3, <1>4 DEF KeyPaced

\* The latest failure is dated now.
LEMMA MakeRecordPaced ==
  ASSUME Inv, SerialInv, PacedInv, NEW t \in Thread, Moves(t),
         proc[t].pc \in {"hasRecord", "getRecord"},
         NEW n \in Nat, NEW pc \in {"setFirst", "setNext"}, MakeRecord(t, n, pc),
         UNCHANGED <<now, rec, flag, failed, faults>>, Undisturbed, SameClock
  PROVE  PacedInv' /\ lastFail'[KeyOf(t)] = now
<1>1. t \in Actor /\ TypeOK /\ KeyOf(t) \in Key
  BY DEF Actor, Inv, ActorInv, KeyOf
<1>2. PICK k \in Key : k = KeyOf(t)
  BY <1>1
<1>3. ClockOf(t) = now /\ now \in Nat
  BY <1>1 DEF ClockOf, SameClock, TypeOK
<1>4. lastFail[k] <= now /\ lastFail[k] \in Nat
  BY <1>1 DEF PacedInv, KeyPaced, TypeOK
<1>5. /\ lastFail'[k] = now
      /\ \A j \in Key \ {k} : lastFail'[j] = lastFail[j]
  BY <1>1, <1>2, <1>3, <1>4 DEF MakeRecord, TypeOK
<1>6. PICK r : r = [count |-> n, date |-> now]
  OBVIOUS
<1>7. proc'[t].pc = pc /\ proc'[t].key = k /\ proc'[t].copy.date = now
  <2>1. proc' = [proc EXCEPT ![t].copy = r, ![t].pc = pc] /\ r.date = now
    BY <1>3, <1>6 DEF MakeRecord
  <2> QED
    BY <1>1, <1>2, <2>1 DEF TypeOK, ProcState, KeyOf
<1>8. ActorPaced(t)'
  BY <1>5, <1>7 DEF ActorPaced
<1>9. KeyPaced(k)'
  <2>1. Recording(k)'
    BY <1>1, <1>7 DEF Recording
  <2> QED
    BY <1>3, <1>5, <2>1 DEF KeyPaced
<1>10. \A j \in Key \ {k} : KeyPaced(j)'
  BY <1>1, <1>2, <1>5, OtherKeys DEF KeyOf
<1> QED
  BY <1>1, <1>2, <1>5, <1>8, <1>9, <1>10, PacedStep

LEMMA RecordPaced ==
  ASSUME Inv, SerialInv, PacedInv, NEW t \in Thread, Moves(t), HasRecord(t) \/ GetRecord(t)
  PROVE  PacedInv'
<1>1. t \in Actor /\ TypeOK /\ KeyOf(t) \in Key /\ faults' = faults
  BY DEF Actor, Inv, ActorInv, HasRecord, GetRecord, KeyOf
<1>2. SUFFICES ASSUME Undisturbed, SameClock
               PROVE  PacedInv'
  BY <1>1 DEF PacedInv, Undisturbed, SameClock, Moves
<1>3. CASE HasRecord(t) /\ rec[KeyOf(t)] = NoRecord
  BY <1>2, <1>3, MakeRecordPaced DEF HasRecord
<1>4. CASE GetRecord(t)
  <2>1. rec[KeyOf(t)] # NoRecord
    BY <1>1, <1>2, <1>4 DEF SerialInv, ActorSerial, GetRecord, KeyOf
  <2>2. rec[KeyOf(t)].count + 1 \in Nat
    BY <1>1, <2>1, SessionFacts DEF Record
  <2> QED
    BY <1>2, <1>4, <2>1, <2>2, MakeRecordPaced DEF GetRecord
<1>5. CASE HasRecord(t) /\ rec[KeyOf(t)] # NoRecord
  <2>1. /\ proc'[t].pc = "getRecord" /\ proc'[t].key = KeyOf(t) /\ proc[t].pc = "hasRecord"
        /\ UNCHANGED <<now, rec, failed, lastFail>>
    BY <1>1, <1>5, GotoMoves DEF HasRecord, Pcs, KeyOf
  <2>2. \A k \in Key : Apart(k)' = Apart(k)
    BY <2>1 DEF Apart
  <2>3. ActorPaced(t)'
    BY <1>1, <1>2, <2>1, <2>2 DEF PacedInv, ActorPaced, KeyOf
  <2>4. \A k \in Key : KeyPaced(k)'
    <3> SUFFICES ASSUME NEW k \in Key
                 PROVE  KeyPaced(k)'
      OBVIOUS
    <3>1. CASE k = KeyOf(t)
      <4>1. Recording(k)'
        BY <1>1, <2>1, <3>1 DEF Recording
      <4> QED
        BY <1>2, <2>1, <4>1 DEF KeyPaced, PacedInv
    <3>2. CASE k # KeyOf(t)
      BY <1>1, <1>2, <2>1, <3>2, OtherKeys DEF KeyOf
    <3> QED
      BY <3>1, <3>2
  <2> QED
    BY <1>1, <2>3, <2>4, PacedStep
<1> QED
  BY <1>3, <1>4, <1>5

LEMMA WritePaced ==
  ASSUME Inv, SerialInv, PacedInv, NEW t \in Thread, Moves(t), SetLatest(t) \/ SetFlag(t)
  PROVE  PacedInv'
<1>1. /\ t \in Actor /\ TypeOK /\ KeyOf(t) \in Key /\ faults' = faults
      /\ UNCHANGED <<now, failed, lastFail>>
  BY DEF Actor, Inv, ActorInv, SetLatest, SetFlag, KeyOf
<1>2. SUFFICES ASSUME Undisturbed, SameClock
               PROVE  ActorPaced(t)' /\ \A k \in Key : KeyPaced(k)'
  BY <1>1, PacedStep
<1>3. proc'[t].pc \in {"idle", "setFlag"}
  BY <1>1, GotoMoves, DoneMoves DEF SetLatest, SetFlag, Pcs
<1>4. ActorPaced(t)'
  BY <1>3 DEF ActorPaced
<1>5. CASE SetFlag(t)
  BY <1>1, <1>2, <1>4, <1>5, RestingStep DEF SetFlag
<1>6. CASE SetLatest(t)
  <2>1. PICK k \in Key : k = KeyOf(t)
    BY <1>1
  <2>2. /\ proc[t].copy \in Record /\ proc[t].copy.date = lastFail[k]
        /\ lastFail[k] <= now
    BY <1>1, <1>2, <1>6, <2>1 DEF SetLatest, Inv, ActorInv, Holding, PacedInv, ActorPaced, KeyPaced, KeyOf
  <2>3. rec'[k] = proc[t].copy /\ \A j \in Key \ {k} : rec'[j] = rec[j]
    BY <1>1, <1>6, <2>1 DEF SetLatest, SetRecord, TypeOK
  <2>4. KeyPaced(k)'
    BY <1>1, <2>2, <2>3 DEF KeyPaced
  <2>5. \A j \in Key \ {k} : KeyPaced(j)'
    BY <1>1, <1>2, <2>1, <2>3, OtherKeys DEF KeyOf
  <2> QED
    BY <1>4, <2>4, <2>5
<1> QED
  BY <1>5, <1>6

LEMMA LongEnough ==
  ASSUME NEW a \in Int, NEW b \in Nat, a >= b, NEW n \in Nat, n > 0
  PROVE  a * n >= b
<1>1. a * n >= a
  BY SMT
<1> QED
  BY <1>1

LEMMA VisitPaced ==
  ASSUME Threshold > 0, Inv, SerialInv, PacedInv, NEW c \in Cleaner, Moves(c), VisitKey(c)
  PROVE  PacedInv'
<1>1. /\ c \in Actor /\ TypeOK /\ proc[c] \in ProcState /\ faults' = faults
      /\ proc[c].pc = "visit" /\ UNCHANGED <<now, rec, failed, lastFail>>
  BY DEF Actor, Inv, TypeOK, VisitKey
<1>2. SUFFICES ASSUME Undisturbed, SameClock
               PROVE  ActorPaced(c)'
  BY <1>1, PacedStep, RestingStep
<1>3. PICK k \in proc[c].keys :
        LET r    == rec[k]
            rest == proc[c].keys \ {k}
            here == [proc[c] EXCEPT !.key = k, !.keys = rest]
        IN proc' = [proc EXCEPT ![c] =
             IF r # NoRecord /\ Aged(proc[c].at, r.date)
             THEN IF LastFailure(r) THEN [here EXCEPT !.pc = "delete"]
                  ELSE [here EXCEPT !.pc = "setAged", !.copy = Decremented(r, here.at)]
             ELSE IF rest = {} THEN Idle ELSE [proc[c] EXCEPT !.keys = rest]]
  BY <1>1 DEF VisitKey, TypeOK
<1>4. k \in Key /\ proc[c].at \in Nat /\ proc[c].at <= now
  BY <1>1, <1>2, <1>3 DEF ProcState, PacedInv, ActorPaced
<1>5. PICK s : s = proc'[c]
  OBVIOUS
<1>6. CASE rec[k] # NoRecord /\ Aged(proc[c].at, rec[k].date)
  <2>1. rec[k].date = lastFail[k] /\ rec[k] \in Record
    BY <1>1, <1>2, <1>4, <1>6, RestingKey, SessionFacts
  <2>2. Apart(k)
    <3>1. now \in Nat /\ lastFail[k] \in Nat
      BY <1>4, ApartType
    <3>2. now - lastFail[k] >= PerSecond * RangeSeconds
      BY <1>4, <1>6, <2>1, <3>1 DEF Aged
    <3>3. PerSecond * RangeSeconds \in Nat /\ now - lastFail[k] \in Int
      BY <3>1
    <3> QED
      BY <3>2, <3>3, LongEnough DEF Apart
  <2>3. PICK d : d = [rec[k] EXCEPT !.count = @ - 1]
    OBVIOUS
  <2>4. d.date = lastFail[k]
    BY <2>1, <2>3 DEF Record
  <2>5. \/ s = [proc[c] EXCEPT !.key = k, !.keys = proc[c].keys \ {k}, !.pc = "delete"]
        \/ s = [proc[c] EXCEPT !.key = k, !.keys = proc[c].keys \ {k}, !.pc = "setAged", !.copy = d]
    BY <1>1, <1>3, <1>5, <1>6, <2>3 DEF TypeOK, Decremented
  <2>6. /\ s.key = k /\ s.at = proc[c].at
        /\ s.pc = "delete" \/ (s.pc = "setAged" /\ s.copy = d)
    BY <1>1, <2>5 DEF ProcState
  <2>7. Apart(k)' = Apart(k)
    BY <1>1 DEF Apart
  <2> QED
    BY <1>1, <1>4, <1>5, <2>2, <2>4, <2>6, <2>7 DEF ActorPaced
<1>7. CASE ~(rec[k] # NoRecord /\ Aged(proc[c].at, rec[k].date))
  <2>1. s = Idle \/ s = [proc[c] EXCEPT !.keys = proc[c].keys \ {k}]
    BY <1>1, <1>3, <1>5, <1>7 DEF TypeOK
  <2>2. Idle.pc = "idle"
    BY DEF Idle
  <2>3. s.pc = "idle" \/ (s.pc = "visit" /\ s.at = proc[c].at)
    BY <1>1, <2>1, <2>2 DEF ProcState
  <2> QED
    BY <1>1, <1>4, <1>5, <2>3 DEF ActorPaced
<1> QED
  BY <1>6, <1>7

LEMMA NextKeyKeepsTime ==
  ASSUME TypeOK, NEW c \in Actor, NextKey(c)
  PROVE  proc'[c].pc = "idle" \/ (proc'[c].pc = "visit" /\ proc'[c].at = proc[c].at)
<1>1. PICK s : s = IF proc[c].keys = {} THEN Idle
                   ELSE [proc[c] EXCEPT !.pc = "visit", !.key = NoKey, !.copy = NoRecord]
  OBVIOUS
<1>2. proc[c] \in ProcState
  BY DEF TypeOK
<1>3. s.pc = "idle" \/ (s.pc = "visit" /\ s.at = proc[c].at)
  BY <1>1, <1>2 DEF ProcState, Idle
<1>4. proc' = [proc EXCEPT ![c] = s]
  BY <1>1 DEF NextKey
<1> QED
  BY <1>3, <1>4 DEF TypeOK

LEMMA JobPaced ==
  ASSUME Inv, SerialInv, PacedInv, NEW c \in Cleaner, Moves(c),
         StartJob(c) \/ DeleteRecord(c) \/ RemoveFlag(c) \/ SetAged(c)
  PROVE  PacedInv'
<1>1. c \in Actor /\ TypeOK /\ faults' = faults /\ UNCHANGED <<now, failed, lastFail>>
  BY DEF Actor, Inv, StartJob, DeleteRecord, RemoveFlag, SetAged
<1>2. SUFFICES ASSUME Undisturbed, SameClock
               PROVE  ActorPaced(c)' /\ \A k \in Key : KeyPaced(k)'
  BY <1>1, PacedStep
<1>3. proc[c].pc \notin {"hasRecord", "getRecord", "setFirst", "setNext"}
  <2>1. Idle.pc = "idle"
    BY DEF Idle
  <2> QED
    BY <2>1 DEF StartJob, CanBegin, DeleteRecord, RemoveFlag, SetAged
<1>4. \A k \in Key : Apart(k)' = Apart(k)
  BY <1>1 DEF Apart
<1>5. CASE StartJob(c)
  <2>1. PICK s : s = [Idle EXCEPT !.pc = "visit", !.at = ClockOf(c),
                                  !.keys = {k \in Key : rec[k] # NoRecord}]
    OBVIOUS
  <2>2. s.pc = "visit" /\ s.at = ClockOf(c)
    BY <2>1 DEF Idle
  <2>3. proc'[c] = s /\ rec' = rec
    BY <1>1, <1>5, <2>1 DEF StartJob, TypeOK
  <2>4. ClockOf(c) = now /\ now \in Nat
    BY <1>1, <1>2 DEF ClockOf, SameClock, TypeOK
  <2>5. ActorPaced(c)'
    BY <1>1, <2>2, <2>3, <2>4 DEF ActorPaced
  <2> QED
    BY <1>1, <1>2, <1>3, <2>3, <2>5, RestingStep
<1>6. CASE DeleteRecord(c)
  <2>1. PICK k \in Key : k = KeyOf(c)
    BY <1>1, <1>6 DEF DeleteRecord, KeyOf, Inv, ActorInv
  <2>2. proc'[c] = [proc[c] EXCEPT !.pc = "unflag"] /\ proc[c].pc = "delete" /\ proc[c] \in ProcState
    BY <1>1, <1>6 DEF DeleteRecord, Goto, TypeOK
  <2>3. proc'[c].pc = "unflag" /\ proc'[c].at = proc[c].at
    BY <2>2 DEF ProcState
  <2>4. Apart(k) /\ proc[c].at <= now /\ lastFail[k] <= now
    BY <1>1, <1>2, <2>1, <2>2 DEF PacedInv, ActorPaced, KeyPaced, KeyOf
  <2>5. rec'[k] = NoRecord /\ \A j \in Key \ {k} : rec'[j] = rec[j]
    BY <1>1, <1>6, <2>1 DEF DeleteRecord, SetRecord, TypeOK
  <2>6. ActorPaced(c)'
    BY <1>1, <2>3, <2>4 DEF ActorPaced
  <2>7. KeyPaced(k)'
    BY <1>1, <1>4, <2>4, <2>5 DEF KeyPaced
  <2>8. \A j \in Key \ {k} : KeyPaced(j)'
    BY <1>1, <1>2, <2>1, <2>5, OtherKeys DEF KeyOf
  <2> QED
    BY <2>6, <2>7, <2>8
<1>7. CASE RemoveFlag(c) \/ SetAged(c)
  <2>1. proc'[c].pc = "idle" \/ (proc'[c].pc = "visit" /\ proc'[c].at = proc[c].at)
    BY <1>1, <1>7, NextKeyKeepsTime DEF RemoveFlag, SetAged
  <2>2. proc[c].at <= now
    BY <1>1, <1>2, <1>7 DEF RemoveFlag, SetAged, PacedInv, ActorPaced
  <2>3. ActorPaced(c)'
    BY <1>1, <2>1, <2>2 DEF ActorPaced
  <2>4. CASE RemoveFlag(c)
    BY <1>1, <1>2, <1>3, <2>3, <2>4, RestingStep DEF RemoveFlag
  <2>5. CASE SetAged(c)
    <3>1. PICK k \in Key : k = KeyOf(c)
      BY <1>1, <2>5 DEF SetAged, KeyOf, Inv, ActorInv
    <3>2. /\ proc[c].copy \in Record /\ proc[c].copy.date = lastFail[k]
          /\ lastFail[k] <= now
      BY <1>1, <1>2, <2>5, <3>1 DEF SetAged, Inv, ActorInv, Holding, PacedInv, ActorPaced, KeyPaced, KeyOf
    <3>3. rec'[k] = proc[c].copy /\ \A j \in Key \ {k} : rec'[j] = rec[j]
      BY <1>1, <2>5, <3>1 DEF SetAged, SetRecord, TypeOK
    <3>4. KeyPaced(k)'
      BY <1>1, <3>2, <3>3 DEF KeyPaced
    <3>5. \A j \in Key \ {k} : KeyPaced(j)'
      BY <1>1, <1>2, <3>1, <3>3, OtherKeys DEF KeyOf
    <3> QED
      BY <2>3, <3>4, <3>5
  <2> QED
    BY <1>7, <2>4, <2>5
<1> QED
  BY <1>5, <1>6, <1>7

\* Time passes: who had waited long enough still has.
LEMMA TickPaced ==
  ASSUME Inv, PacedInv, (Tick /\ UNCHANGED setup) \/ UNCHANGED vars
  PROVE  PacedInv'
<1>1. /\ UNCHANGED <<rec, flag, proc, failed, lastFail, faults, setup>>
      /\ now <= now' /\ now \in Nat /\ now' \in Nat
  BY DEF Tick, vars, Inv, TypeOK
<1>2. SUFFICES ASSUME Undisturbed, SameClock
               PROVE  (\A a \in Actor : ActorPaced(a)') /\ (\A k \in Key : KeyPaced(k)')
  BY <1>1 DEF PacedInv, Undisturbed, SameClock
<1>3. ASSUME NEW k \in Key, Apart(k)
      PROVE  Apart(k)'
  <2>1. lastFail[k] \in Nat /\ now - lastFail[k] <= now' - lastFail[k]
    BY <1>1, ApartType
  <2>2. (now - lastFail[k]) * Threshold <= (now' - lastFail[k]) * Threshold
    BY <1>1, <2>1, LaterIsNoFaster
  <2>3. (now' - lastFail[k]) * Threshold \in Int
    BY <1>1, <2>1
  <2> QED
    BY <1>1, <1>3, <2>2, <2>3, ApartType DEF Apart
<1>4. \A a \in Actor : ActorPaced(a)'
  <2> SUFFICES ASSUME NEW a \in Actor
               PROVE  ActorPaced(a)'
    OBVIOUS
  <2>1. ActorPaced(a) /\ (proc[a].pc \notin {"idle", "visit"} => proc[a].key \in Key)
    BY <1>2 DEF PacedInv, Inv, ActorInv
  <2>2. proc[a].at \in Nat
    BY DEF Inv, TypeOK, ProcState
  <2> QED
    BY <1>1, <1>3, <2>1, <2>2 DEF ActorPaced
<1>5. \A k \in Key : KeyPaced(k)'
  <2> SUFFICES ASSUME NEW k \in Key
               PROVE  KeyPaced(k)'
    OBVIOUS
  <2>1. KeyPaced(k) /\ Recording(k)' = Recording(k) /\ lastFail[k] \in Nat
    BY <1>1, <1>2, ApartType DEF PacedInv, Recording
  <2> QED
    BY <1>1, <1>3, <2>1 DEF KeyPaced
<1> QED
  BY <1>4, <1>5

LEMMA NextPaced ==
  ASSUME Threshold > 0, Inv, SerialInv, PacedInv, [Next]_vars
  PROVE  PacedInv'
<1>1. CASE UNCHANGED vars
  BY <1>1, TickPaced
<1>2. ASSUME Step, UNCHANGED setup
      PROVE  PacedInv'
  <2>1. ASSUME NEW t \in Thread, RequestSteps(t) \/ \E k \in Key : Submit(t, k)
        PROVE  PacedInv'
    <3>1. Moves(t) /\ t \in Actor
      BY <1>2, <2>1, StepMoves DEF Actor
    <3>2. CASE DropKey(t)
      <4>1. faults' = faults /\ proc[t].pc = "dropKey"
        BY <3>2 DEF DropKey
      <4> QED
        BY <3>1, <4>1, PacedStep DEF SerialInv, ActorSerial
    <3> QED
      BY <1>2, <2>1, <3>1, <3>2, CheckPaced, FailurePaced, RecordPaced, WritePaced DEF RequestSteps
  <2>2. ASSUME NEW c \in Cleaner, JobSteps(c)
        PROVE  PacedInv'
    BY <1>2, <2>2, StepMoves, JobPaced, VisitPaced DEF JobSteps
  <2>3. ASSUME NEW a \in Actor, Abort(a)
        PROVE  PacedInv'
    BY <2>3 DEF Abort, PacedInv, Undisturbed, Inv, TypeOK
  <2>4. CASE Tick
    BY <1>2, <2>4, TickPaced
  <2> QED
    BY <1>2, <2>1, <2>2, <2>3, <2>4 DEF Step
<1> QED
  BY <1>1, <1>2 DEF Next

\* Only recording a failure dates one.
LEMMA NextFailure ==
  ASSUME Inv, SerialInv, PacedInv, [Next]_vars, Undisturbed, SameClock,
         NEW k \in Key, failed[k] > 1, lastFail'[k] # lastFail[k]
  PROVE  (lastFail'[k] - lastFail[k]) * Threshold >= PerSecond * RangeSeconds
<1>1. PICK t \in Thread : HasRecord(t) \/ GetRecord(t)
  BY DEF Next, vars, Step, RequestSteps, Submit, ReadRate, DropKey, AuthenticationFails,
     AuthenticationEnds, ClearFlag, SetLatest, SetFlag, JobSteps, StartJob, VisitKey,
     DeleteRecord, RemoveFlag, SetAged, Abort, Tick
<1>2. t \in Actor /\ TypeOK /\ Moves(t) /\ KeyOf(t) \in Key
  <2>1. UNCHANGED setup
    BY <1>1 DEF Next, vars
  <2> QED
    BY <1>1, <2>1, StepMoves DEF RequestSteps, Actor, Inv, ActorInv, HasRecord, GetRecord, KeyOf
<1>3. \E n \in Nat : \E pc \in {"setFirst", "setNext"} : MakeRecord(t, n, pc)
  <2>1. CASE HasRecord(t)
    BY <1>1, <2>1 DEF HasRecord
  <2>2. CASE GetRecord(t)
    <3>1. rec[KeyOf(t)] # NoRecord
      BY <2>2 DEF GetRecord
    <3>2. rec[KeyOf(t)].count + 1 \in Nat
      BY <1>2, <3>1, SessionFacts DEF Record
    <3> QED
      BY <2>2, <3>1, <3>2 DEF GetRecord
  <2> QED
    BY <1>1, <2>1, <2>2
<1>4. proc[t].pc \in {"hasRecord", "getRecord"} /\ UNCHANGED <<now, rec, flag, failed, faults>>
  BY <1>1 DEF HasRecord, GetRecord
<1>5. lastFail'[KeyOf(t)] = now
  BY <1>2, <1>3, <1>4, MakeRecordPaced
<1>6. k = KeyOf(t)
  BY <1>2, <1>3 DEF MakeRecord, TypeOK
<1>7. Apart(k)
  BY <1>2, <1>4, <1>6 DEF PacedInv, ActorPaced, KeyOf
<1> QED
  BY <1>5, <1>6, <1>7 DEF Apart

\* Two failures of a session are recorded 1/rate seconds apart, where there is
\* a rate, operations do not overlap, the clocks agree and no command fails.
THEOREM FailuresKeepTheirDistance ==
  ASSUME Threshold > 0
  PROVE  Spec => FailuresArePaced
<1> DEFINE Paced ==
      setup.serial /\ faults = MaxFaults /\ (\A a \in Actor : setup.ahead[a] = 0) =>
        \A k \in Key : failed[k] > 1 /\ lastFail'[k] # lastFail[k]
          => (lastFail'[k] - lastFail[k]) * Threshold >= PerSecond * RangeSeconds
<1>1. Init => PacedInv
  BY DEF Init, PacedInv, ActorPaced, KeyPaced, Idle
<1>2. Inv /\ SerialInv /\ PacedInv /\ [Next]_vars => PacedInv'
  BY NextPaced
<1>3. Inv /\ SerialInv /\ PacedInv /\ [Next]_vars => [Paced]_vars
  BY NextFailure DEF Undisturbed, SameClock
<1> QED
  BY <1>1, <1>2, <1>3, SpecInv, SpecSerial, PTL DEF Spec, FailuresArePaced

-----------------------------------------------------------------------------
(***************************************************************************)
(* The flow implements the throttle: what it does between preHandle and    *)
(* postHandle is one of the steps LoginThrottle allows it, or none of the  *)
(* throttle's business.  So what is proved of the throttle is true of the  *)
(* flow.  A captcha is single-use because the number of an image grows,    *)
(* and a text that was taken out of the session never comes back into it.  *)
(***************************************************************************)
USE FlowAssumption

LEMMA RespondThrottles ==
  ASSUME NEW t \in Thread, Respond(t)
  PROVE  Step \/ UNCHANGED vars
BY DEF Respond, Step, RequestSteps

LEMMA FlowStepThrottles ==
  ASSUME NEW t \in Thread, FlowSteps(t)
  PROVE  Step \/ UNCHANGED vars
<1>1. CASE ServiceCheck(t)
  BY <1>1 DEF ServiceCheck, Step, RequestSteps
<1>2. CASE GetFlag(t)
  BY <1>2 DEF GetFlag, Step, RequestSteps
<1>3. CASE ~ServiceCheck(t) /\ ~GetFlag(t)
  BY <1>3, RespondThrottles DEF FlowSteps, BindingFails, ReadCaptcha, RemoveCaptcha,
     AuthenticationFailure, RenewSucceeds, RenewFails, CreateTicketGrantingTicket,
     GenerateServiceTicket, SsoRefused, HasFlag, SendForm, End, ToForm
<1> QED
  BY <1>1, <1>2, <1>3

LEMMA FlowNextThrottles ==
  ASSUME [FlowNext]_flowVars
  PROVE  [Next]_vars
<1>1. CASE UNCHANGED flowVars
  BY <1>1 DEF flowVars
<1>2. CASE FlowNext
  <2>1. CASE \E t \in Thread : PreHandle(t)
    BY <1>2, <2>1 DEF PreHandle, FlowNext, Next, Step, RequestSteps
  <2>2. ASSUME NEW t \in Thread, FlowSteps(t)
        PROVE  Step \/ UNCHANGED vars
    BY <2>2, FlowStepThrottles
  <2>3. ASSUME NEW t \in Thread, NEW k \in Key, Launch(t, k) \/ Post(t, k)
        PROVE  Step \/ UNCHANGED vars
    BY <2>3 DEF Launch, Post, Step
  <2>4. CASE \/ \E k \in Key : DrawCaptcha(k) \/ Logout(k)
             \/ \E id \in Tgt : SessionEnds(id)
    BY <2>4 DEF DrawCaptcha, Logout, SessionEnds
  <2>5. CASE ThrottleSteps
    BY <1>2, <2>5 DEF ThrottleSteps, PostHandle, FlowNext, Next, Step, RequestSteps
  <2> QED
    BY <1>2, <2>1, <2>2, <2>3, <2>4, <2>5 DEF FlowNext, FlowStep, Next
<1> QED
  BY <1>1, <1>2

\* The login flow implements the login throttle: every behaviour of the flow,
\* seen through the interceptor's variables, is one of the throttle.
THEOREM FlowImplementsThrottle == FlowSpec => Spec
<1>1. FlowInit => Init
  BY DEF FlowInit
<1> QED
  BY <1>1, FlowNextThrottles, PTL DEF FlowSpec, Spec

\* So the flow keeps what the throttle promises.
THEOREM FlowKeepsPromises ==
  FlowSpec => /\ [](TypeOK /\ CountIsBacked /\ CaptchaNeedsFailures)
              /\ DenialNeedsRecentFailure
BY FlowImplementsThrottle, TypeCorrect, CountsAreBacked, CaptchaIsEarned, DenialsAreRecent, PTL

-----------------------------------------------------------------------------
(***************************************************************************)
(* The invariant of the flow.                                              *)
(***************************************************************************)

FlowTypes ==
  /\ pages \in [Key -> SUBSET Page]
  /\ captcha \in [Key -> Text \cup {NoText}]
  /\ drawn \in [Key -> 0..MaxTexts]
  /\ spent \in [Key -> SUBSET Text]
  /\ cookie \in [Key -> Tgt \cup {NoTgt}]
  /\ made \in 0..MaxTgts
  /\ alive \in SUBSET Tgt
  /\ req \in [Thread -> Request]

\* Every text that was used was drawn, and the one in the session was not used.
CaptchaInv(k) ==
  /\ \A x \in spent[k] : x <= drawn[k]
  /\ captcha[k] <= drawn[k] /\ captcha[k] \notin spent[k]

\* What a request knows of the texts that were used before it came.
RequestInv(t) ==
  /\ req[t].at # "none" => req[t].key \in Key
  /\ req[t].at \in {"posted", "removeCaptcha"} => req[t].spentThen \subseteq spent[req[t].key]
  /\ req[t].at = "removeCaptcha" =>
       req[t].seen <= drawn[req[t].key] /\ req[t].seen \notin req[t].spentThen

FlowInv ==
  /\ FlowTypes
  /\ \A t \in Thread : Wrapped(t)
  /\ \A k \in Key : CaptchaInv(k)
  /\ \A t \in Thread : RequestInv(t)

NoOneElse(t) == \A o \in Thread \ {t} : req'[o] = req[o] /\ proc'[o] = proc[o]

\* What is left to show of a step of t: its own request.
LEMMA RequestStep ==
  ASSUME FlowInv, FlowTypes', NEW t \in Thread, NoOneElse(t), Wrapped(t)', RequestInv(t)',
         \A k \in Key : CaptchaInv(k)' /\ spent[k] \subseteq spent'[k] /\ drawn[k] <= drawn'[k]
  PROVE  FlowInv'
<1>1. ASSUME NEW o \in Thread \ {t}
      PROVE  Wrapped(o)' /\ RequestInv(o)'
  <2>1. req'[o] = req[o] /\ proc'[o] = proc[o] /\ Wrapped(o) /\ RequestInv(o)
    BY DEF FlowInv, NoOneElse
  <2>2. Wrapped(o)'
    BY <2>1 DEF Wrapped
  <2>3. \A k \in Key : drawn[k] \in Nat /\ drawn'[k] \in Nat
    BY DEF FlowInv, FlowTypes
  <2>4. req[o] \in Request
    BY DEF FlowInv, FlowTypes
  <2>5. req[o].seen \in Nat
    BY <2>4 DEF Request, Text, NoText
  <2>6. RequestInv(o)'
    <3>1. req[o].at # "none" => req[o].key \in Key
      BY <2>1 DEF RequestInv
    <3>2. req[o].at \in {"posted", "removeCaptcha"} => req[o].spentThen \subseteq spent'[req[o].key]
      BY <2>1, <3>1 DEF RequestInv
    <3>3. req[o].at = "removeCaptcha" =>
            req[o].seen <= drawn'[req[o].key] /\ req[o].seen \notin req[o].spentThen
      BY <2>1, <2>3, <2>5, <3>1 DEF RequestInv
    <3> QED
      BY <2>1, <3>1, <3>2, <3>3 DEF RequestInv
  <2> QED
    BY <2>2, <2>6
<1> QED
  BY <1>1 DEF FlowInv

\* No captcha is drawn or taken out.
LEMMA SameCaptchas ==
  ASSUME FlowInv, UNCHANGED <<captcha, drawn, spent>>
  PROVE  \A k \in Key : CaptchaInv(k)' /\ spent[k] \subseteq spent'[k] /\ drawn[k] <= drawn'[k]
BY DEF FlowInv, FlowTypes, CaptchaInv

\* The request of t ends.
LEMMA EndStep ==
  ASSUME FlowInv, NEW t \in Thread, req' = [req EXCEPT ![t] = NoRequest],
         \A o \in Thread \ {t} : proc'[o] = proc[o],
         pages' \in [Key -> SUBSET Page],
         UNCHANGED <<captcha, drawn, spent, cookie, made, alive>>
  PROVE  FlowInv'
<1>1. NoRequest \in Request /\ NoRequest.at = "none"
  BY DEF NoRequest, Request, Ats, NoPage, Page, Text, NoText, NoTgt
<1>2. FlowTypes' /\ req'[t] = NoRequest /\ NoOneElse(t)
  BY <1>1 DEF FlowInv, FlowTypes, NoOneElse
<1>3. Wrapped(t)' /\ RequestInv(t)'
  BY <1>1, <1>2 DEF Wrapped, RequestInv
<1> QED
  BY <1>2, <1>3, SameCaptchas, RequestStep

\* The flow of t goes on, past its captcha.
LEMMA MoveStep ==
  ASSUME FlowInv, NEW t \in Thread, NEW r \in Request, req' = [req EXCEPT ![t] = r],
         r.key = req[t].key, r.get = req[t].get, req[t].at # "none",
         r.at \in {"submit", "serviceCheck", "grant", "initialize", "getFlag", "form", "end"},
         req[t].get \/ proc[t].pc \in {"auth", "cleared"},
         \A o \in Thread \ {t} : proc'[o] = proc[o],
         proc'[t] = proc[t] \/ (proc'[t].key = proc[t].key /\ proc'[t].pc = "cleared"),
         \A k \in Key : CaptchaInv(k)' /\ spent[k] \subseteq spent'[k] /\ drawn[k] <= drawn'[k],
         FlowTypes'
  PROVE  FlowInv'
<1>1. NoOneElse(t) /\ req'[t] = r /\ Wrapped(t) /\ RequestInv(t)
  BY DEF FlowInv, FlowTypes, NoOneElse
<1>2. Wrapped(t)'
  <2> SUFFICES ASSUME ~r.get
               PROVE  proc'[t].key = r.key /\ proc'[t].pc \in {"auth", "cleared"}
    BY <1>1 DEF Wrapped
  <2>1. proc[t].key = r.key /\ proc[t].pc \in {"auth", "cleared"}
    BY <1>1 DEF Wrapped
  <2> QED
    BY <2>1
<1>3. RequestInv(t)'
  BY <1>1 DEF RequestInv
<1> QED
  BY <1>1, <1>2, <1>3, RequestStep

LEMMA RespondStep ==
  ASSUME FlowInv, TypeOK, NEW t \in Thread, Respond(t), pages' \in [Key -> SUBSET Page],
         UNCHANGED <<captcha, drawn, spent, cookie, made, alive>>
  PROVE  FlowInv'
<1>1. req' = [req EXCEPT ![t] = NoRequest]
  BY DEF Respond
<1>2. \A o \in Thread \ {t} : proc'[o] = proc[o]
  BY DEF Respond, vars, AuthenticationFails, AuthenticationEnds, Goto, Done, TypeOK, Actor
<1> QED
  BY <1>1, <1>2, EndStep

\* ... to another place, and nothing else.
LEMMA MoveToStep ==
  ASSUME FlowInv, TypeOK, NEW t \in Thread, UNCHANGED <<pages, captcha, drawn, spent, cookie, made>>,
         alive' \in SUBSET Tgt,
         NEW at \in {"serviceCheck", "grant", "initialize", "getFlag", "end"}, MoveTo(t, at),
         req[t].at # "none", req[t].get \/ proc[t].pc \in {"auth", "cleared"},
         UNCHANGED vars \/ ClearFlag(t)
  PROVE  FlowInv'
<1>1. PICK r : r = [req[t] EXCEPT !.at = at]
  OBVIOUS
<1>2. req[t] \in Request /\ at \in Ats
  BY DEF FlowInv, FlowTypes, Ats
<1>3. /\ r \in Request /\ req' = [req EXCEPT ![t] = r]
      /\ r.at = at /\ r.key = req[t].key /\ r.get = req[t].get
  BY <1>1, <1>2 DEF MoveTo, Request
<1>4. FlowTypes'
  BY <1>3 DEF FlowInv, FlowTypes
<1>5. /\ \A o \in Thread \ {t} : proc'[o] = proc[o]
      /\ proc'[t] = proc[t] \/ (proc'[t].key = proc[t].key /\ proc'[t].pc = "cleared")
  <2>1. CASE UNCHANGED vars
    BY <2>1 DEF vars
  <2>2. CASE ClearFlag(t)
    BY <2>2 DEF ClearFlag, Goto, TypeOK, Actor, ProcState
  <2> QED
    BY <2>1, <2>2
<1> QED
  BY <1>3, <1>4, <1>5, SameCaptchas, MoveStep

\* The places of a flow that the interceptor has let pass.
LEMMA InFlow ==
  ASSUME NEW t \in Thread,
         \/ AtRealSubmit(t)
         \/ \E at \in {"posted", "removeCaptcha", "submit", "serviceCheck", "grant", "initialize",
                      "getFlag", "form", "end"} :
              IsAt(t, at)
  PROVE  req[t].at # "none" /\ (req[t].get \/ proc[t].pc \in {"auth", "cleared"})
BY DEF AtRealSubmit, IsAt

LEMMA ToFormStep ==
  ASSUME FlowInv, TypeOK, NEW t \in Thread, UNCHANGED <<pages, captcha, drawn, spent, tgts>>,
         ToForm(t) \/ Respond(t),
         req[t].at # "none", req[t].get \/ proc[t].pc \in {"auth", "cleared"}
  PROVE  FlowInv'
<1>1. UNCHANGED <<cookie, made, alive>> /\ alive \in SUBSET Tgt /\ pages \in [Key -> SUBSET Page]
  BY DEF tgts, FlowInv, FlowTypes
<1>2. CASE Respond(t)
  BY <1>1, <1>2, RespondStep
<1>3. CASE ToForm(t)
  BY <1>1, <1>3, MoveToStep DEF ToForm
<1> QED
  BY <1>2, <1>3

\* The steps of a flow that touch neither the forms nor the captchas.
LEMMA PlainStep ==
  ASSUME FlowInv, TypeOK, NEW t \in Thread,
         \/ BindingFails(t) \/ AuthenticationFailure(t) \/ RenewSucceeds(t) \/ RenewFails(t)
         \/ ServiceCheck(t) \/ GenerateServiceTicket(t) \/ End(t)
  PROVE  FlowInv'
<1>1. req[t].at # "none" /\ (req[t].get \/ proc[t].pc \in {"auth", "cleared"})
  BY InFlow DEF BindingFails, AuthenticationFailure, RenewSucceeds, RenewFails, ServiceCheck,
     GenerateServiceTicket, End
<1>2. UNCHANGED <<pages, captcha, drawn, spent, cookie, made>>
  BY DEF BindingFails, AuthenticationFailure, RenewSucceeds, RenewFails, ServiceCheck,
     GenerateServiceTicket, End, tgts
<1>3. CASE RenewFails(t)
  <2>1. alive' \in SUBSET Tgt
    BY <1>3 DEF RenewFails, FlowInv, FlowTypes
  <2> QED
    BY <1>1, <1>2, <1>3, <2>1, MoveToStep DEF RenewFails
<1>4. CASE ServiceCheck(t)
  <2>1. alive' \in SUBSET Tgt
    BY <1>4 DEF ServiceCheck, tgts, FlowInv, FlowTypes
  <2> QED
    BY <1>1, <1>2, <1>4, <2>1, MoveToStep DEF ServiceCheck
<1>5. CASE \/ BindingFails(t) \/ AuthenticationFailure(t) \/ RenewSucceeds(t)
           \/ GenerateServiceTicket(t) \/ End(t)
  BY <1>1, <1>5, ToFormStep DEF BindingFails, AuthenticationFailure, RenewSucceeds,
     GenerateServiceTicket, End
<1> QED
  BY <1>3, <1>4, <1>5

\* Only now there is a session more.
LEMMA CreateStep ==
  ASSUME FlowInv, TypeOK, NEW t \in Thread, CreateTicketGrantingTicket(t)
  PROVE  FlowInv'
<1>1. req[t].at # "none" /\ (req[t].get \/ proc[t].pc \in {"auth", "cleared"})
  BY InFlow DEF CreateTicketGrantingTicket
<1>2. PICK id : id = made + 1
  OBVIOUS
<1>3. /\ id \in Tgt /\ made' = id /\ id \in 0..MaxTgts
      /\ alive' = alive \cup {id} /\ cookie' = [cookie EXCEPT ![req[t].key] = id]
      /\ req' = [req EXCEPT ![t].page.tgt = id, ![t].at = "serviceCheck"]
      /\ UNCHANGED <<vars, pages, captcha, drawn, spent>>
  BY <1>2 DEF CreateTicketGrantingTicket, FlowInv, FlowTypes, Tgt
<1>4. PICK p : p = [req[t].page EXCEPT !.tgt = id]
  OBVIOUS
<1>5. req[t] \in Request /\ req[t].page \in Page
  BY DEF FlowInv, FlowTypes, Request
<1>6. p \in Page
  BY <1>3, <1>4, <1>5 DEF Page
<1>7. PICK r : r = [req[t] EXCEPT !.page = p, !.at = "serviceCheck"]
  OBVIOUS
<1>8. /\ r \in Request /\ req' = [req EXCEPT ![t] = r]
      /\ r.at = "serviceCheck" /\ r.key = req[t].key /\ r.get = req[t].get
  <2>1. r \in Request /\ r.at = "serviceCheck" /\ r.key = req[t].key /\ r.get = req[t].get
    BY <1>5, <1>6, <1>7 DEF Request, Ats
  <2>2. req' = [req EXCEPT ![t] = r]
    BY <1>3, <1>4, <1>5, <1>7 DEF FlowInv, FlowTypes, Request
  <2> QED
    BY <2>1, <2>2
<1>9. FlowTypes'
  BY <1>3, <1>8 DEF FlowInv, FlowTypes
<1> QED
  BY <1>1, <1>3, <1>8, <1>9, SameCaptchas, MoveStep DEF vars

\* hasKey and get: nothing changes but the request.
LEMMA ChooseStep ==
  ASSUME FlowInv, TypeOK, NEW t \in Thread, HasFlag(t) \/ GetFlag(t)
  PROVE  FlowInv'
<1>1. req[t].at # "none" /\ (req[t].get \/ proc[t].pc \in {"auth", "cleared"})
  BY InFlow DEF HasFlag, GetFlag
<1>2. UNCHANGED <<pages, captcha, drawn, spent, cookie, made, alive>> /\ alive \in SUBSET Tgt
      /\ pages \in [Key -> SUBSET Page]
  BY DEF HasFlag, GetFlag, tgts, FlowInv, FlowTypes
<1>3. ASSUME NEW b \in BOOLEAN, UNCHANGED vars,
             req' = [req EXCEPT ![t].at = "form", ![t].page.captcha = b]
      PROVE  FlowInv'
  <2>1. req[t] \in Request /\ req[t].page \in Page
    BY DEF FlowInv, FlowTypes, Request
  <2>2. PICK p : p = [req[t].page EXCEPT !.captcha = b]
    OBVIOUS
  <2>3. p \in Page
    BY <2>1, <2>2 DEF Page
  <2>4. PICK r : r = [req[t] EXCEPT !.at = "form", !.page = p]
    OBVIOUS
  <2>5. r \in Request /\ r.at = "form" /\ r.key = req[t].key /\ r.get = req[t].get
    BY <2>1, <2>3, <2>4 DEF Request, Ats
  <2>6. req' = [req EXCEPT ![t] = r]
    BY <1>3, <2>1, <2>2, <2>4 DEF FlowInv, FlowTypes, Request
  <2>7. FlowTypes'
    BY <1>2, <2>5, <2>6 DEF FlowInv, FlowTypes
  <2> QED
    BY <1>1, <1>2, <1>3, <2>5, <2>6, <2>7, SameCaptchas, MoveStep DEF vars
<1>4. CASE HasFlag(t)
  <2>1. CASE MoveTo(t, "getFlag") /\ UNCHANGED vars
    BY <1>1, <1>2, <2>1, MoveToStep
  <2> QED
    BY <1>3, <1>4, <2>1 DEF HasFlag
<1>5. CASE GetFlag(t)
  <2>1. CASE req' = [req EXCEPT ![t] = NoRequest]
    <3>1. \A o \in Thread \ {t} : proc'[o] = proc[o]
      <4>1. UNCHANGED vars \/ AuthenticationEnds(t)
        BY <1>5, <2>1 DEF GetFlag
      <4> QED
        BY <4>1 DEF vars, AuthenticationEnds, Done, TypeOK, Actor
    <3> QED
      BY <1>2, <2>1, <3>1, EndStep
  <2> QED
    BY <1>3, <1>5, <2>1 DEF GetFlag
<1> QED
  BY <1>4, <1>5

LEMMA FormStep ==
  ASSUME FlowInv, TypeOK, NEW t \in Thread, SsoRefused(t) \/ SendForm(t)
  PROVE  FlowInv'
<1>1. req[t] \in Request /\ req[t].page \in Page
  BY DEF FlowInv, FlowTypes, Request
<1>2. PICK p \in Page : Form(t, p)
  <2>1. [req[t].page EXCEPT !.captcha = FALSE] \in Page
    BY <1>1 DEF Page
  <2> QED
    BY <1>1, <2>1 DEF SsoRefused, SendForm
<1>3. pages' \in [Key -> SUBSET Page]
  BY <1>2 DEF Form, FlowInv, FlowTypes
<1>4. Respond(t) /\ UNCHANGED <<captcha, drawn, spent, cookie, made, alive>>
  BY DEF SsoRefused, SendForm, tgts
<1> QED
  BY <1>3, <1>4, RespondStep

\* What is read from the session was not used before.
LEMMA ReadStep ==
  ASSUME FlowInv, TypeOK, NEW t \in Thread, ReadCaptcha(t)
  PROVE  FlowInv'
<1>1. /\ req[t].at = "posted" /\ (req[t].get \/ proc[t].pc \in {"auth", "cleared"})
      /\ UNCHANGED <<vars, pages, captcha, drawn, spent, cookie, made, alive>>
  BY DEF ReadCaptcha, IsAt, tgts
<1>2. req[t] \in Request /\ req[t].key \in Key /\ RequestInv(t) /\ Wrapped(t)
  BY <1>1 DEF FlowInv, FlowTypes, RequestInv
<1>3. PICK x : x = captcha[req[t].key]
  OBVIOUS
<1>4. x \in Text \cup {NoText} /\ x <= drawn[req[t].key] /\ x \notin spent[req[t].key]
  BY <1>2, <1>3 DEF FlowInv, FlowTypes, CaptchaInv
<1>5. PICK r : r = [req[t] EXCEPT !.seen = x, !.at = "removeCaptcha"]
  OBVIOUS
<1>6. /\ r \in Request /\ r.at = "removeCaptcha" /\ r.seen = x /\ r.key = req[t].key
      /\ r.get = req[t].get /\ r.spentThen = req[t].spentThen
  BY <1>2, <1>4, <1>5 DEF Request, Ats
<1>7. req' = [req EXCEPT ![t] = r]
  BY <1>2, <1>3, <1>5 DEF ReadCaptcha, FlowInv, FlowTypes, Request
<1>8. FlowTypes' /\ req'[t] = r /\ NoOneElse(t)
  BY <1>1, <1>6, <1>7 DEF FlowInv, FlowTypes, NoOneElse, vars
<1>9. Wrapped(t)'
  BY <1>1, <1>2, <1>6, <1>8 DEF Wrapped, vars
<1>10. RequestInv(t)'
  BY <1>1, <1>2, <1>4, <1>6, <1>8 DEF RequestInv
<1> QED
  BY <1>1, <1>8, <1>9, <1>10, SameCaptchas, RequestStep

\* What is taken out was drawn, and leaves the session without a text.
LEMMA RemoveStep ==
  ASSUME FlowInv, TypeOK, NEW t \in Thread, RemoveCaptcha(t)
  PROVE  FlowInv'
<1>1. /\ req[t].at = "removeCaptcha" /\ (req[t].get \/ proc[t].pc \in {"auth", "cleared"})
      /\ UNCHANGED <<vars, pages, drawn, cookie, made, alive>>
  BY DEF RemoveCaptcha, IsAt, tgts
<1>2. PICK k \in Key : k = req[t].key
  BY <1>1 DEF FlowInv, RequestInv
<1>3. /\ req[t] \in Request /\ req[t].seen \in Text \cup {NoText} /\ req[t].seen <= drawn[k]
      /\ captcha[k] \in Text \cup {NoText} /\ captcha[k] <= drawn[k]
  BY <1>1, <1>2 DEF FlowInv, FlowTypes, RequestInv, CaptchaInv, Request
<1>4. PICK used : used = {req[t].seen, captcha[k]} \ {NoText}
  OBVIOUS
<1>5. used \subseteq Text /\ \A x \in used : x <= drawn[k]
  BY <1>3, <1>4
<1>6. /\ captcha' = [captcha EXCEPT ![k] = NoText]
      /\ spent' = [spent EXCEPT ![k] = @ \cup used]
  BY <1>2, <1>4 DEF RemoveCaptcha
<1>7. PICK r : r = [req[t] EXCEPT !.at = IF Matches(req[t]) THEN "submit" ELSE "initialize",
                                  !.typed = NoText, !.seen = NoText, !.spentThen = {}]
  OBVIOUS
<1>8. /\ r \in Request /\ r.at \in {"submit", "initialize"}
      /\ r.key = req[t].key /\ r.get = req[t].get
  BY <1>3, <1>7 DEF Request, Ats, Text, NoText
<1>9. req' = [req EXCEPT ![t] = r]
  BY <1>7 DEF RemoveCaptcha, Validated
<1>10. FlowTypes'
  BY <1>1, <1>5, <1>6, <1>8, <1>9 DEF FlowInv, FlowTypes
<1>11. \A j \in Key : CaptchaInv(j)' /\ spent[j] \subseteq spent'[j] /\ drawn[j] <= drawn'[j]
  <2> SUFFICES ASSUME NEW j \in Key
               PROVE  CaptchaInv(j)' /\ spent[j] \subseteq spent'[j] /\ drawn[j] <= drawn'[j]
    OBVIOUS
  <2>1. /\ spent'[j] = IF j = k THEN spent[j] \cup used ELSE spent[j]
        /\ captcha'[j] = IF j = k THEN NoText ELSE captcha[j]
        /\ drawn'[j] = drawn[j] /\ drawn[j] \in Nat /\ CaptchaInv(j)
    <3>1. DOMAIN spent = Key /\ DOMAIN captcha = Key /\ drawn[j] \in Nat /\ CaptchaInv(j)
      BY DEF FlowInv, FlowTypes
    <3> QED
      BY <1>1, <1>6, <3>1
  <2>2. NoText \notin spent[j] /\ NoText \notin used /\ NoText <= drawn[j]
    BY <1>4, <2>1 DEF FlowInv, FlowTypes, Text, NoText
  <2> QED
    BY <1>5, <2>1, <2>2 DEF CaptchaInv
<1> QED
  BY <1>1, <1>8, <1>9, <1>10, <1>11, MoveStep DEF vars

\* The next image shows a text that was never used.
LEMMA DrawStep ==
  ASSUME FlowInv, NEW k \in Key, DrawCaptcha(k)
  PROVE  FlowInv'
<1>1. /\ drawn[k] \in Nat /\ drawn[k] + 1 \in 0..MaxTexts /\ drawn[k] + 1 \in Text
      /\ UNCHANGED <<vars, pages, spent, cookie, made, alive, req>>
  BY DEF DrawCaptcha, FlowInv, FlowTypes, tgts, Text
<1>2. /\ drawn' = [drawn EXCEPT ![k] = drawn[k] + 1]
      /\ captcha' = [captcha EXCEPT ![k] = drawn[k] + 1]
  BY DEF DrawCaptcha
<1>3. FlowTypes'
  BY <1>1, <1>2 DEF FlowInv, FlowTypes
<1>4. \A j \in Key : CaptchaInv(j)'
  <2> SUFFICES ASSUME NEW j \in Key
               PROVE  CaptchaInv(j)'
    OBVIOUS
  <2>1. /\ drawn'[j] = IF j = k THEN drawn[j] + 1 ELSE drawn[j]
        /\ captcha'[j] = IF j = k THEN drawn[j] + 1 ELSE captcha[j]
        /\ spent'[j] = spent[j] /\ spent[j] \subseteq Nat /\ drawn[j] \in Nat /\ CaptchaInv(j)
    BY <1>1, <1>2 DEF FlowInv, FlowTypes, Text
  <2> QED
    BY <2>1 DEF CaptchaInv
<1>5. \A t \in Thread : Wrapped(t)'
  BY <1>1 DEF FlowInv, Wrapped, vars
<1>6. ASSUME NEW t \in Thread
      PROVE  RequestInv(t)'
  <2>1. RequestInv(t) /\ req[t] \in Request /\ req' = req /\ spent' = spent
    BY <1>1 DEF FlowInv, FlowTypes
  <2>2. req[t].seen \in Nat
    BY <2>1 DEF Request, Text, NoText
  <2>3. \A j \in Key : drawn[j] \in Nat /\ drawn'[j] \in Nat /\ drawn[j] <= drawn'[j]
    BY <1>1, <1>2 DEF FlowInv, FlowTypes
  <2> QED
    BY <2>1, <2>2, <2>3 DEF RequestInv
<1> QED
  BY <1>3, <1>4, <1>5, <1>6 DEF FlowInv

\* What happens to sessions and clocks alone, and nothing.
LEMMA OutsideStep ==
  ASSUME FlowInv, UNCHANGED <<pages, captcha, drawn, spent, made, req, proc>>,
         cookie' \in [Key -> Tgt \cup {NoTgt}], alive' \in SUBSET Tgt
  PROVE  FlowInv'
<1>1. FlowTypes'
  BY DEF FlowInv, FlowTypes
<1>2. \A t \in Thread : Wrapped(t)' /\ RequestInv(t)'
  BY DEF FlowInv, Wrapped, RequestInv
<1>3. \A k \in Key : CaptchaInv(k)'
  BY DEF FlowInv, CaptchaInv
<1> QED
  BY <1>1, <1>2, <1>3 DEF FlowInv

LEMMA SessionStep ==
  ASSUME FlowInv, \/ \E k \in Key : Logout(k)
                  \/ \E id \in Tgt : SessionEnds(id)
                  \/ UNCHANGED flowVars
                  \/ Tick /\ UNCHANGED flowOnly
  PROVE  FlowInv'
<1>1. cookie' \in [Key -> Tgt \cup {NoTgt}] /\ alive' \in SUBSET Tgt
  BY DEF Logout, SessionEnds, flowVars, flowOnly, FlowInv, FlowTypes
<1>2. UNCHANGED <<pages, captcha, drawn, spent, made, req, proc>>
  BY DEF Logout, SessionEnds, flowVars, flowOnly, vars, Tick
<1> QED
  BY <1>1, <1>2, OutsideStep

LEMMA LaunchStep ==
  ASSUME FlowInv, NEW t \in Thread, NEW k \in Key, Launch(t, k)
  PROVE  FlowInv'
<1>1. PICK link \in Link :
        /\ req' = [req EXCEPT ![t] = [NoRequest EXCEPT !.key = k, !.get = TRUE,
             !.page = [captcha |-> FALSE, tgt |-> cookie[k],
                       renew |-> link.renew, service |-> link.service],
             !.at = IF cookie[k] \in alive /\ ~link.renew THEN "grant" ELSE "initialize"]]
        /\ cookie' = IF cookie[k] \in alive THEN cookie ELSE [cookie EXCEPT ![k] = NoTgt]
  BY DEF Launch
<1>2. UNCHANGED <<vars, pages, captcha, drawn, spent, made, alive>>
  BY DEF Launch
<1>3. PICK p : p = [captcha |-> FALSE, tgt |-> cookie[k], renew |-> link.renew, service |-> link.service]
  OBVIOUS
<1>4. p \in Page
  BY <1>3 DEF Page, FlowInv, FlowTypes
<1>5. PICK at \in {"grant", "initialize"} :
        at = IF cookie[k] \in alive /\ ~link.renew THEN "grant" ELSE "initialize"
  OBVIOUS
<1>6. PICK r : r = [NoRequest EXCEPT !.key = k, !.get = TRUE, !.page = p, !.at = at]
  OBVIOUS
<1>7. r \in Request /\ r.at = at /\ r.get = TRUE /\ r.key = k
  BY <1>4, <1>5, <1>6 DEF NoRequest, Request, Ats, Text, NoText
<1>8. req' = [req EXCEPT ![t] = r]
  BY <1>1, <1>3, <1>5, <1>6
<1>9. FlowTypes' /\ req'[t] = r /\ NoOneElse(t)
  BY <1>1, <1>2, <1>7, <1>8 DEF FlowInv, FlowTypes, NoOneElse, vars
<1>10. Wrapped(t)' /\ RequestInv(t)'
  BY <1>5, <1>7, <1>9 DEF Wrapped, RequestInv
<1> QED
  BY <1>2, <1>9, <1>10, SameCaptchas, RequestStep

LEMMA PostStep ==
  ASSUME FlowInv, TypeOK, NEW t \in Thread, NEW k \in Key, Post(t, k)
  PROVE  FlowInv'
<1>1. PICK p \in pages[k], text \in 0..drawn[k], used \in {spent[k], {}} :
        req' = [req EXCEPT ![t] = [NoRequest EXCEPT !.at = "posted", !.key = k,
                  !.page = p, !.typed = text, !.spentThen = used]]
  <2>1. NoText \in 0..drawn[k]
    BY DEF FlowInv, FlowTypes, NoText
  <2>2. PICK p \in pages[k], text \in 0..drawn[k] :
          req' = [req EXCEPT ![t] = [NoRequest EXCEPT !.at = "posted", !.key = k,
                    !.page = p, !.typed = text,
                    !.spentThen = IF p.captcha THEN spent[k] ELSE {}]]
    BY <2>1 DEF Post
  <2>3. PICK used : used = IF p.captcha THEN spent[k] ELSE {}
    OBVIOUS
  <2> QED
    BY <2>2, <2>3
<1>2. Submit(t, k) /\ UNCHANGED <<pages, captcha, drawn, spent, cookie, made, alive>>
  BY DEF Post, tgts
<1>3. p \in Page /\ text \in Text \cup {NoText} /\ spent[k] \subseteq Text
  BY <1>1 DEF FlowInv, FlowTypes, Text, NoText
<1>4. PICK r : r = [NoRequest EXCEPT !.at = "posted", !.key = k, !.page = p,
                                     !.typed = text, !.spentThen = used]
  OBVIOUS
<1>5. /\ r \in Request /\ r.at = "posted" /\ r.key = k /\ r.spentThen \subseteq spent[k]
  BY <1>3, <1>4 DEF NoRequest, Request, Ats, NoText
<1>6. req' = [req EXCEPT ![t] = r]
  BY <1>1, <1>4
<1>7. /\ \A o \in Thread \ {t} : proc'[o] = proc[o]
      /\ proc'[t].key = k /\ proc'[t].pc \in {"auth", "readRate"}
  <2>1. PICK pc \in {"auth", "readRate"} : pc = IF rec[k] = NoRecord THEN "auth" ELSE "readRate"
    OBVIOUS
  <2>2. PICK q : q = [Idle EXCEPT !.key = k, !.pc = pc]
    OBVIOUS
  <2>3. q.key = k /\ q.pc = pc
    BY <2>2 DEF Idle
  <2>4. proc' = [proc EXCEPT ![t] = q]
    BY <1>2, <2>1, <2>2 DEF Submit
  <2> QED
    BY <2>1, <2>3, <2>4 DEF TypeOK, Actor
<1>8. FlowTypes' /\ req'[t] = r /\ NoOneElse(t)
  BY <1>2, <1>5, <1>6, <1>7 DEF FlowInv, FlowTypes, NoOneElse
<1>9. Wrapped(t)'
  BY <1>5, <1>7, <1>8 DEF Wrapped
<1>10. RequestInv(t)'
  BY <1>2, <1>5, <1>8 DEF RequestInv
<1> QED
  BY <1>2, <1>8, <1>9, <1>10, SameCaptchas, RequestStep

LEMMA PreHandleStep ==
  ASSUME FlowInv, TypeOK, NEW t \in Thread, PreHandle(t)
  PROVE  FlowInv'
<1>1. UNCHANGED <<pages, captcha, drawn, spent, cookie, made, alive>> /\ t \in Actor
  BY DEF PreHandle, tgts, Actor
<1>2. Done(t) \/ Goto(t, "dropKey") \/ Goto(t, "auth")
  BY DEF PreHandle, ReadRate, DropKey
<1>3. \A o \in Thread \ {t} : proc'[o] = proc[o]
  BY <1>2 DEF Done, Goto, TypeOK, Actor
<1>4. CASE proc'[t] = Idle
  BY <1>1, <1>3, <1>4, EndStep DEF PreHandle, FlowInv, FlowTypes
<1>5. CASE proc'[t] # Idle
  <2>1. req' = req
    BY <1>5 DEF PreHandle
  <2>2. ~Done(t)
    BY <1>1, <1>5 DEF Done, TypeOK
  <2>3. "dropKey" \in Pcs /\ "auth" \in Pcs
    BY DEF Pcs
  <2>4. proc'[t].pc \in {"dropKey", "auth"} /\ proc'[t].key = proc[t].key
    BY <1>1, <1>2, <2>2, <2>3, GotoMoves
  <2>5. FlowTypes' /\ NoOneElse(t)
    BY <1>1, <1>3, <2>1 DEF FlowInv, FlowTypes, NoOneElse
  <2>6. Wrapped(t)'
    <3>1. Wrapped(t) /\ proc[t].pc \in {"readRate", "dropKey"}
      BY DEF FlowInv, PreHandle, ReadRate, DropKey
    <3> QED
      BY <2>1, <2>4, <3>1 DEF Wrapped
  <2>7. RequestInv(t)'
    BY <1>1, <2>1 DEF FlowInv, RequestInv
  <2> QED
    BY <1>1, <2>5, <2>6, <2>7, SameCaptchas, RequestStep
<1> QED
  BY <1>4, <1>5

\* postHandle runs when the flow of the thread is over.
LEMMA PostHandleStep ==
  ASSUME FlowInv, TypeOK, NEW t \in Thread, PostHandle(t), UNCHANGED flowOnly
  PROVE  FlowInv'
<1>1. UNCHANGED <<pages, captcha, drawn, spent, cookie, made, alive, req>>
  BY DEF flowOnly
<1>2. \A o \in Thread \ {t} : proc'[o] = proc[o]
  BY DEF PostHandle, HasRecord, GetRecord, MakeRecord, SetLatest, SetFlag, Goto, Done, TypeOK, Actor
<1>3. proc[t].pc \in {"hasRecord", "getRecord", "setFirst", "setNext", "setFlag"}
  BY DEF PostHandle, HasRecord, GetRecord, SetLatest, SetFlag
<1>4. FlowTypes' /\ NoOneElse(t)
  BY <1>1, <1>2 DEF FlowInv, FlowTypes, NoOneElse
<1>5. Wrapped(t)'
  BY <1>1, <1>3 DEF FlowInv, Wrapped
<1>6. RequestInv(t)'
  BY <1>1 DEF FlowInv, RequestInv
<1> QED
  BY <1>1, <1>4, <1>5, <1>6, SameCaptchas, RequestStep

LEMMA NextFlowInv ==
  ASSUME FlowInv, TypeOK, [FlowNext]_flowVars
  PROVE  FlowInv'
<1>1. CASE UNCHANGED flowVars
  BY <1>1, SessionStep
<1>2. CASE FlowStep
  <2>1. ASSUME NEW t \in Thread, FlowSteps(t)
        PROVE  FlowInv'
    BY <2>1, PlainStep, CreateStep, ChooseStep, FormStep, ReadStep, RemoveStep DEF FlowSteps
  <2>2. CASE ThrottleSteps
    BY <2>2, PostHandleStep, SessionStep DEF ThrottleSteps
  <2> QED
    BY <1>2, <2>1, <2>2, PreHandleStep, LaunchStep, PostStep, DrawStep, SessionStep DEF FlowStep
<1> QED
  BY <1>1, <1>2 DEF FlowNext

LEMMA FlowInvHolds == FlowSpec => []FlowInv
<1>1. FlowInit => FlowInv
  <2> SUFFICES ASSUME FlowInit
               PROVE  FlowInv
    OBVIOUS
  <2>1. NoRequest \in Request /\ NoRequest.at = "none"
    BY DEF NoRequest, Request, Ats, NoPage, Page, Text, NoText, NoTgt
  <2>2. FlowTypes
    BY <2>1 DEF FlowInit, FlowTypes, NoText, NoTgt
  <2>3. \A t \in Thread : Wrapped(t) /\ RequestInv(t)
    BY <2>1 DEF FlowInit, Wrapped, RequestInv
  <2>4. ASSUME NEW k \in Key
        PROVE  CaptchaInv(k)
    <3>1. captcha[k] = 0 /\ drawn[k] = 0 /\ spent[k] = {}
      BY DEF FlowInit, NoText
    <3> QED
      BY <3>1 DEF CaptchaInv
  <2> QED
    BY <2>2, <2>3, <2>4 DEF FlowInv
<1>2. FlowInv /\ TypeOK /\ [FlowNext]_flowVars => FlowInv'
  BY NextFlowInv
<1> QED
  BY <1>1, <1>2, FlowImplementsThrottle, TypeCorrect, PTL DEF FlowSpec

-----------------------------------------------------------------------------
(***************************************************************************)
(* What it promises.                                                       *)
(***************************************************************************)

\* Only the comparison with the text of the session lets a captcha pass.
LEMMA OnlyRemovePasses ==
  ASSUME FlowInv, FlowNext, NEW t \in Thread,
         req[t].at = "removeCaptcha", req'[t].at = "submit"
  PROVE  Matches(req[t])
<1>1. DOMAIN req = Thread /\ req'[t] # req[t] /\ NoRequest.at = "none"
  BY DEF FlowInv, FlowTypes, NoRequest
<1>2. PICK o \in Thread : FlowSteps(o)
  <2>1. ASSUME NEW o \in Thread, PreHandle(o) \/ \E k \in Key : Launch(o, k) \/ Post(o, k)
        PROVE  FALSE
    <3>1. o = t
      BY <1>1, <2>1 DEF PreHandle, Launch, Post
    <3> QED
      BY <1>1, <2>1, <3>1 DEF PreHandle, Launch, Post
  <2> QED
    BY <1>1, <2>1 DEF FlowNext, FlowStep, DrawCaptcha, Logout, SessionEnds, ThrottleSteps, flowOnly
<1>3. o = t
  BY <1>1, <1>2 DEF FlowSteps, BindingFails, ReadCaptcha, RemoveCaptcha, Validated,
     AuthenticationFailure, RenewSucceeds, RenewFails, CreateTicketGrantingTicket, ServiceCheck,
     GenerateServiceTicket, SsoRefused, HasFlag, GetFlag, SendForm, End, ToForm, MoveTo, Respond
<1>4. RemoveCaptcha(t)
  BY <1>2, <1>3 DEF FlowSteps, BindingFails, ReadCaptcha, AtRealSubmit, IsAt,
     AuthenticationFailure, RenewSucceeds, RenewFails, CreateTicketGrantingTicket, ServiceCheck,
     GenerateServiceTicket, SsoRefused, HasFlag, GetFlag, SendForm, End
<1>5. ~Matches(req[t]) => req'[t].at = "initialize"
  <2>1. req[t] \in Request
    BY DEF FlowInv, FlowTypes
  <2>2. PICK at : at = IF Matches(req[t]) THEN "submit" ELSE "initialize"
    OBVIOUS
  <2>3. req'[t] = [req[t] EXCEPT !.at = at, !.typed = NoText, !.seen = NoText, !.spentThen = {}]
    BY <1>1, <1>4, <2>2 DEF RemoveCaptcha, Validated
  <2>4. req'[t].at = at
    BY <2>1, <2>3 DEF Request
  <2> QED
    BY <2>2, <2>4
<1> QED
  BY <1>5

\* A captcha serves one attempt: a form that comes after a validation has taken
\* the text out of the session does not pass with it.
THEOREM CaptchasAreSpent == FlowSpec => SpentCaptchaIsRefused
<1> DEFINE Refused ==
      \A t \in Thread : req[t].at = "removeCaptcha" /\ req'[t].at = "submit"
        => req[t].typed \notin req[t].spentThen
<1>1. ASSUME FlowInv, FlowNext, NEW t \in Thread,
             req[t].at = "removeCaptcha", req'[t].at = "submit"
      PROVE  req[t].typed \notin req[t].spentThen
  BY <1>1, OnlyRemovePasses DEF FlowInv, RequestInv, Matches
<1>2. FlowInv /\ [FlowNext]_flowVars => [Refused]_flowVars
  BY <1>1
<1> QED
  BY <1>2, FlowInvHolds, PTL DEF FlowSpec, SpentCaptchaIsRefused

\* What the history holds of a request: the flag as it is, and the form that
\* was chosen.
FlagInv ==
  /\ flagWas \in [Thread -> SUBSET BOOLEAN]
  /\ FormsFollowFlag

\* A form is chosen by the flag as it is at that step.
LEMMA FormChosen ==
  ASSUME FlowInv, TypeOK, FlowNext, NEW t \in Thread, req'[t].at = "form", req'[t] # req[t]
  PROVE  req'[t].key \in Key /\ req'[t].page.captcha = flag'[req'[t].key]
<1>1. DOMAIN req = Thread /\ NoRequest.at = "none"
  BY DEF FlowInv, FlowTypes, NoRequest
<1>2. PICK o \in Thread : FlowSteps(o)
  <2>1. ASSUME NEW o \in Thread, PreHandle(o) \/ \E k \in Key : Launch(o, k) \/ Post(o, k)
        PROVE  FALSE
    <3>1. o = t
      BY <1>1, <2>1 DEF PreHandle, Launch, Post
    <3>2. ~PreHandle(t)
      BY <1>1 DEF PreHandle
    <3>3. ASSUME NEW k \in Key, Launch(t, k)
          PROVE  FALSE
      <4>1. PICK p, at \in {"grant", "initialize"} :
              req'[t] = [NoRequest EXCEPT !.key = k, !.get = TRUE, !.page = p, !.at = at]
        BY <1>1, <3>3 DEF Launch
      <4> QED
        BY <4>1 DEF NoRequest
    <3>4. ASSUME NEW k \in Key, Post(t, k)
          PROVE  FALSE
      <4>1. PICK p, text :
              req' = [req EXCEPT ![t] = [NoRequest EXCEPT !.at = "posted", !.key = k,
                        !.page = p, !.typed = text,
                        !.spentThen = IF p.captcha THEN spent[k] ELSE {}]]
        BY <3>4 DEF Post
      <4>2. PICK used : used = IF p.captcha THEN spent[k] ELSE {}
        OBVIOUS
      <4>3. req'[t] = [NoRequest EXCEPT !.at = "posted", !.key = k, !.page = p, !.typed = text,
                                        !.spentThen = used]
        BY <1>1, <4>1, <4>2
      <4> QED
        BY <4>3 DEF NoRequest
    <3> QED
      BY <2>1, <3>1, <3>2, <3>3, <3>4
  <2> QED
    BY <1>1, <2>1 DEF FlowNext, FlowStep, DrawCaptcha, Logout, SessionEnds, ThrottleSteps, flowOnly
<1>3. o = t
  BY <1>1, <1>2 DEF FlowSteps, BindingFails, ReadCaptcha, RemoveCaptcha, Validated,
     AuthenticationFailure, RenewSucceeds, RenewFails, CreateTicketGrantingTicket, ServiceCheck,
     GenerateServiceTicket, SsoRefused, HasFlag, GetFlag, SendForm, End, ToForm, MoveTo, Respond
<1>4. HasFlag(t) \/ GetFlag(t)
  <2>1. ~RemoveCaptcha(t)
    <3> SUFFICES ASSUME RemoveCaptcha(t)
                 PROVE  FALSE
      OBVIOUS
    <3>1. PICK at \in {"submit", "initialize"} : at = IF Matches(req[t]) THEN "submit" ELSE "initialize"
      OBVIOUS
    <3>2. req'[t] = [req[t] EXCEPT !.at = at, !.typed = NoText, !.seen = NoText, !.spentThen = {}]
      BY <1>1, <3>1 DEF RemoveCaptcha, Validated
    <3> QED
      BY <3>1, <3>2 DEF FlowInv, FlowTypes, Request
  <2>2. req[t] \in Request
    BY DEF FlowInv, FlowTypes
  <2>3. ~ReadCaptcha(t) /\ ~CreateTicketGrantingTicket(t) /\ ~ServiceCheck(t) /\ ~RenewFails(t)
    BY <1>1, <2>2 DEF ReadCaptcha, CreateTicketGrantingTicket, ServiceCheck, RenewFails, MoveTo,
       Request
  <2>4. ~Respond(t) /\ ~ToForm(t)
    BY <1>1, <2>2 DEF Respond, ToForm, MoveTo, Request
  <2> QED
    BY <1>2, <1>3, <2>1, <2>3, <2>4 DEF FlowSteps, BindingFails, AuthenticationFailure,
       RenewSucceeds, GenerateServiceTicket, SsoRefused, SendForm, End
<1>5. req[t] \in Request /\ req[t].page \in Page /\ req[t].key \in Key
  <2>1. req[t].at # "none"
    BY <1>4, InFlow DEF HasFlag, GetFlag
  <2> QED
    BY <2>1 DEF FlowInv, FlowTypes, Request, RequestInv
<1>6. flag[req[t].key] \in BOOLEAN
  BY <1>5 DEF TypeOK
<1>7. CASE HasFlag(t)
  <2>1. ~flag[req[t].key] /\ UNCHANGED flag
    BY <1>1, <1>5, <1>7 DEF HasFlag, MoveTo, vars, Request
  <2>2. req'[t] = [req[t] EXCEPT !.at = "form", !.page.captcha = FALSE]
    BY <1>1, <1>7, <2>1 DEF HasFlag
  <2>3. req'[t].key = req[t].key /\ req'[t].page.captcha = FALSE
    BY <1>5, <2>2 DEF Request, Page
  <2> QED
    BY <1>5, <1>6, <2>1, <2>3
<1>8. CASE GetFlag(t)
  <2>1. flag[req[t].key] /\ UNCHANGED flag
    BY <1>1, <1>8 DEF GetFlag, vars
  <2>2. req'[t] = [req[t] EXCEPT !.at = "form", !.page.captcha = TRUE]
    BY <1>1, <1>8, <2>1 DEF GetFlag
  <2>3. req'[t].key = req[t].key /\ req'[t].page.captcha = TRUE
    BY <1>5, <2>2 DEF Request, Page
  <2> QED
    BY <1>5, <1>6, <2>1, <2>3
<1> QED
  BY <1>4, <1>7, <1>8

LEMMA NextFlagInv ==
  ASSUME FlowInv, FlowInv', TypeOK, TypeOK', FlagInv, [FlowNext]_flowVars
  PROVE  FlagInv'
<1>1. CASE UNCHANGED flowVars
  BY <1>1 DEF flowVars, flowOnly, FlagInv, FormsFollowFlag
<1>2. CASE FlowNext
  <2>1. flagWas' = [t \in Thread |-> IF req'[t].at = "none" THEN {}
                                     ELSE flagWas[t] \cup {flag'[req'[t].key]}]
    BY <1>2 DEF FlowNext, Remember
  <2>3. ASSUME NEW t \in Thread, req'[t].at = "form"
        PROVE  req'[t].page.captcha \in flagWas'[t]
    <3>1. flagWas'[t] = flagWas[t] \cup {flag'[req'[t].key]}
      BY <2>1, <2>3
    <3>2. CASE req'[t] = req[t]
      BY <2>3, <3>1, <3>2 DEF FlagInv, FormsFollowFlag
    <3>3. CASE req'[t] # req[t]
      BY <1>2, <2>3, <3>1, <3>3, FormChosen
    <3> QED
      BY <3>2, <3>3
  <2>4. ASSUME NEW t \in Thread
        PROVE  flagWas'[t] \in SUBSET BOOLEAN
    <3>1. CASE req'[t].at = "none"
      BY <2>1, <3>1
    <3>2. CASE req'[t].at # "none"
      <4>1. req'[t].key \in Key
        BY <3>2 DEF FlowInv, RequestInv
      <4>2. flag'[req'[t].key] \in BOOLEAN /\ flagWas[t] \in SUBSET BOOLEAN
        BY <4>1 DEF TypeOK, FlagInv
      <4> QED
        BY <2>1, <3>2, <4>2
    <3> QED
      BY <3>1, <3>2
  <2> QED
    BY <2>1, <2>3, <2>4 DEF FlagInv, FormsFollowFlag
<1> QED
  BY <1>1, <1>2

LEMMA FlagInvHolds == FlowSpec => []FlagInv
<1>1. FlowInit => FlagInv
  BY DEF FlowInit, FlagInv, FormsFollowFlag, NoRequest
<1>2. FlowInv /\ FlowInv' /\ TypeOK /\ TypeOK' /\ FlagInv /\ [FlowNext]_flowVars => FlagInv'
  BY NextFlagInv
<1> QED
  BY <1>1, <1>2, FlowInvHolds, FlowImplementsThrottle, TypeCorrect, PTL DEF FlowSpec

\* Forms, texts, sessions and requests keep their types, and a POST is in the
\* flow only while the interceptor is around it.
THEOREM FlowTypeCorrect == FlowSpec => []FlowTypeOK
<1>1. FlowInv /\ TypeOK /\ FlagInv => FlowTypeOK
  BY DEF FlowInv, FlowTypes, FlagInv, FlowTypeOK
<1> QED
  BY <1>1, FlowInvHolds, FlagInvHolds, FlowImplementsThrottle, TypeCorrect, PTL

\* The form a request is sent by initializeLogin goes by what the flag of its
\* session was at some time while the request was under way.
THEOREM FlagsChooseForms == FlowSpec => []FormsFollowFlag
<1>1. FlagInv => FormsFollowFlag
  BY DEF FlagInv
<1> QED
  BY <1>1, FlagInvHolds, PTL
=============================================================================
