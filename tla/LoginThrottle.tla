----------------------------- MODULE LoginThrottle --------------------------
(***************************************************************************)
(* The throttling of failed logins: the interceptor around the login flow  *)
(* (preHandle / postHandle), the login records and captcha flags it keeps  *)
(* in Redis under the id of the HTTP session, and the Quartz job that ages *)
(* the records.  The job runs on every node, beside the request threads.   *)
(*                                                                         *)
(* Each action is at most one Redis command.  Every check of the code is a *)
(* hasKey, a get and a set, so three steps, and the interceptor keeps no   *)
(* lock: everything may change between them.                               *)
(***************************************************************************)
EXTENDS Integers

CONSTANTS
  Key,                 \* ids of HTTP sessions
  Thread, Cleaner,     \* request threads, throttle jobs
  Setups,              \* how the clocks of the nodes differ, and whether operations overlap
  Threshold,           \* cas.throttle.failure.threshold
  RangeSeconds,        \* cas.throttle.failure.range.seconds
  CaptchaThreshold,    \* cas.throttle.show.captcha.threshold
  PerSecond,           \* clock units in a second (SUBMISSION_RATE_DIVIDEND)
  NoRecord, NoKey,
  MaxNow, MaxFailures, MaxFaults   \* bounds

Actor == Thread \cup Cleaner

\* ahead: how far the clock of an actor's node runs ahead; serial: an operation
\* begins only when no other runs.
Setup == [ahead : [Actor -> Nat], serial : BOOLEAN]

Record == [count : Nat, date : Nat]      \* LoginRecord

ASSUME ThrottleAssumption ==
  /\ {Threshold, RangeSeconds, CaptchaThreshold, PerSecond} \subseteq Nat
  /\ {MaxNow, MaxFailures, MaxFaults} \subseteq Nat
  /\ Setups \subseteq Setup
  /\ NoRecord \notin Record /\ NoKey \notin Key
  /\ Thread \cap Cleaner = {}

VARIABLES
  now,       \* wall clock
  rec,       \* LOGIN_RECORD.<session>
  flag,      \* IS_THROTTLED.<session>: the login form shows a captcha
  proc,      \* what each actor is doing
  failed,    \* how many logins of the session have failed
  lastFail,  \* the date of the latest record made of a failure
  faults,    \* failures that may still happen
  setup      \* which of the setups this is

vars == <<now, rec, flag, proc, failed, lastFail, faults, setup>>

Pcs == {"idle", "readRate", "dropKey", "auth", "hasRecord", "getRecord",
        "setFirst", "setNext", "setFlag", "cleared",
        "visit", "delete", "unflag", "setAged"}

\* copy: a record in the actor's hands; at: the time the job started;
\* keys: the keys it has still to visit.
ProcState == [pc : Pcs, key : Key \cup {NoKey}, copy : Record \cup {NoRecord},
              at : Nat, keys : SUBSET Key]

Idle == [pc |-> "idle", key |-> NoKey, copy |-> NoRecord, at |-> 0, keys |-> {}]

TypeOK ==
  /\ now \in 0..MaxNow
  /\ rec \in [Key -> Record \cup {NoRecord}]
  /\ flag \in [Key -> BOOLEAN]
  /\ proc \in [Actor -> ProcState]
  /\ failed \in [Key -> 0..MaxFailures]
  /\ lastFail \in [Key -> Nat]
  /\ faults \in 0..MaxFaults
  /\ setup \in Setups

Init ==
  /\ now = 0
  /\ rec = [k \in Key |-> NoRecord]
  /\ flag = [k \in Key |-> FALSE]
  /\ proc = [a \in Actor |-> Idle]
  /\ failed = [k \in Key |-> 0]
  /\ lastFail = [k \in Key |-> 0]
  /\ faults = MaxFaults
  /\ setup \in Setups

Quiet == \A a \in Actor : proc[a] = Idle

CanBegin(a) == proc[a] = Idle /\ (setup.serial => Quiet)

ClockOf(a) == now + setup.ahead[a]

\* Mutation of Exceeds: two failures at the same instant have rate 0.
ExceedsNotAtOnce(time, last) ==
  LET gap == time - last
  IN  gap > 0 /\ gap * Threshold < PerSecond * RangeSeconds

\* submissionRate(now, last) > getThresholdRate(), in integers: with a gap of
\* 0 the rate is Infinity, with a negative one it is negative.
Exceeds(time, last) ==
  LET gap == time - last
  IN  gap >= 0 /\ gap * Threshold < PerSecond * RangeSeconds

Aged(time, date) == time - date > RangeSeconds * PerSecond

Goto(a, pc) == proc' = [proc EXCEPT ![a].pc = pc]
Done(a) == proc' = [proc EXCEPT ![a] = Idle]

KeyOf(a) == proc[a].key
SetRecord(k, r) == rec' = [rec EXCEPT ![k] = r]

-----------------------------------------------------------------------------
(***************************************************************************)
(* A login POST of session k.                                              *)
(***************************************************************************)

\* preHandle / exceedsThreshold: hasKey.
Submit(t, k) ==
  /\ CanBegin(t)
  /\ failed[k] < MaxFailures
  /\ proc' = [proc EXCEPT ![t] =
       [Idle EXCEPT !.key = k, !.pc = IF rec[k] = NoRecord THEN "auth" ELSE "readRate"]]
  /\ UNCHANGED <<now, rec, flag, failed, lastFail, faults>>

\* ... get: too soon after the last failure, the POST is answered 403.
ReadRate(t) ==
  /\ proc[t].pc = "readRate"
  /\ LET r == rec[KeyOf(t)]
     IN IF r = NoRecord THEN Goto(t, "dropKey")
        ELSE IF Exceeds(ClockOf(t), r.date) THEN Done(t)
        ELSE Goto(t, "auth")
  /\ UNCHANGED <<now, rec, flag, failed, lastFail, faults>>

\* ... the record vanished between hasKey and get: the key is deleted.
DropKey(t) ==
  /\ proc[t].pc = "dropKey"
  /\ SetRecord(KeyOf(t), NoRecord)
  /\ Goto(t, "auth")
  /\ UNCHANGED <<now, flag, failed, lastFail, faults>>

\* The login flow runs.  It fails with a status postHandle records ...
AuthenticationFails(t) ==
  /\ proc[t].pc \in {"auth", "cleared"}
  /\ failed[KeyOf(t)] < MaxFailures
  /\ failed' = [failed EXCEPT ![KeyOf(t)] = @ + 1]
  /\ Goto(t, "hasRecord")
  /\ UNCHANGED <<now, rec, flag, lastFail, faults>>

\* ... or ends with a status (200, 201, 302) postHandle does not record ...
AuthenticationEnds(t) ==
  /\ proc[t].pc \in {"auth", "cleared"}
  /\ Done(t)
  /\ UNCHANGED <<now, rec, flag, failed, lastFail, faults>>

\* ... or succeeds: serviceCheck calls clearThrottleInfoAfterLoginSuccess, and
\* the flow goes on, as granting a service ticket may still fail.
ClearFlag(t) ==
  /\ proc[t].pc = "auth"
  /\ flag' = [flag EXCEPT ![KeyOf(t)] = FALSE]
  /\ Goto(t, "cleared")
  /\ UNCHANGED <<now, rec, failed, lastFail, faults>>

\* new LoginRecord(n) is in the thread's hands, dated now.
MakeRecord(t, n, pc) ==
  /\ proc' = [proc EXCEPT ![t].copy = [count |-> n, date |-> ClockOf(t)], ![t].pc = pc]
  /\ lastFail' = [lastFail EXCEPT ![KeyOf(t)] = IF ClockOf(t) > @ THEN ClockOf(t) ELSE @]

\* Mutation of HasRecord: the count of a new record starts at 2.
HasRecordStartsAtTwo(t) ==
  /\ proc[t].pc = "hasRecord"
  /\ IF rec[KeyOf(t)] = NoRecord THEN MakeRecord(t, 2, "setFirst")
     ELSE Goto(t, "getRecord") /\ UNCHANGED lastFail
  /\ UNCHANGED <<now, rec, flag, failed, faults>>

\* postHandle / recordSubmissionFailure: hasKey.
HasRecord(t) ==
  /\ proc[t].pc = "hasRecord"
  /\ IF rec[KeyOf(t)] = NoRecord THEN MakeRecord(t, 1, "setFirst")
     ELSE Goto(t, "getRecord") /\ UNCHANGED lastFail
  /\ UNCHANGED <<now, rec, flag, failed, faults>>

\* ... get: a record deleted in between is a null pointer and ends the request.
GetRecord(t) ==
  /\ proc[t].pc = "getRecord"
  /\ LET r == rec[KeyOf(t)]
     IN IF r = NoRecord THEN Done(t) /\ UNCHANGED lastFail
        ELSE MakeRecord(t, r.count + 1, "setNext")
  /\ UNCHANGED <<now, rec, flag, failed, faults>>

\* Mutation of SetLatest: every failure raises the flag.
SetLatestFlagsFirst(t) ==
  /\ proc[t].pc \in {"setFirst", "setNext"}
  /\ SetRecord(KeyOf(t), proc[t].copy)
  /\ Goto(t, "setFlag")
  /\ UNCHANGED <<now, flag, failed, lastFail, faults>>

\* ... set: only a repeated failure can raise the captcha flag.
SetLatest(t) ==
  /\ proc[t].pc \in {"setFirst", "setNext"}
  /\ SetRecord(KeyOf(t), proc[t].copy)
  /\ IF proc[t].pc = "setNext" /\ proc[t].copy.count >= CaptchaThreshold
     THEN Goto(t, "setFlag") ELSE Done(t)
  /\ UNCHANGED <<now, flag, failed, lastFail, faults>>

\* ... setThrottled.
SetFlag(t) ==
  /\ proc[t].pc = "setFlag"
  /\ flag' = [flag EXCEPT ![KeyOf(t)] = TRUE]
  /\ Done(t)
  /\ UNCHANGED <<now, rec, failed, lastFail, faults>>

-----------------------------------------------------------------------------
(***************************************************************************)
(* execute / decrementCounts.                                              *)
(***************************************************************************)

\* KEYS, and the one `now' the whole run compares with.
StartJob(c) ==
  /\ CanBegin(c)
  /\ \E k \in Key : rec[k] # NoRecord
  /\ proc' = [proc EXCEPT ![c] =
       [Idle EXCEPT !.pc = "visit", !.at = ClockOf(c), !.keys = {k \in Key : rec[k] # NoRecord}]]
  /\ UNCHANGED <<now, rec, flag, failed, lastFail, faults>>

\* On to the next key, or to the end.
NextKey(c) ==
  proc' = [proc EXCEPT ![c] =
    IF @.keys = {} THEN Idle
    ELSE [@ EXCEPT !.pc = "visit", !.key = NoKey, !.copy = NoRecord]]

\* Only the one failure is left: the record goes with it.
LastFailure(r) == r.count <= 1

\* Mutations of Decremented: a new date; nothing is forgiven.
DecrementedToday(r, at) == [count |-> r.count - 1, date |-> at]
DecrementedByNone(r, at) == r

\* The record with one failure less, of the same date.
Decremented(r, at) == [r EXCEPT !.count = @ - 1]

\* get, and the decision taken on the copy it returned.
VisitKey(c) ==
  /\ proc[c].pc = "visit"
  /\ \E k \in proc[c].keys :
       LET r    == rec[k]
           rest == proc[c].keys \ {k}
           here == [proc[c] EXCEPT !.key = k, !.keys = rest]
       IN proc' = [proc EXCEPT ![c] =
            IF r # NoRecord /\ Aged(proc[c].at, r.date)
            THEN IF LastFailure(r) THEN [here EXCEPT !.pc = "delete"]
                 ELSE [here EXCEPT !.pc = "setAged", !.copy = Decremented(r, here.at)]
            ELSE IF rest = {} THEN Idle ELSE [@ EXCEPT !.keys = rest]]
  /\ UNCHANGED <<now, rec, flag, failed, lastFail, faults>>

DeleteRecord(c) ==
  /\ proc[c].pc = "delete"
  /\ SetRecord(KeyOf(c), NoRecord)
  /\ Goto(c, "unflag")
  /\ UNCHANGED <<now, flag, failed, lastFail, faults>>

\* Mutation of RemoveFlag: the flag stays.
RemoveFlagKeepsIt(c) ==
  /\ proc[c].pc = "unflag"
  /\ NextKey(c)
  /\ UNCHANGED <<now, rec, flag, failed, lastFail, faults>>

\* removeThrottled.
RemoveFlag(c) ==
  /\ proc[c].pc = "unflag"
  /\ flag' = [flag EXCEPT ![KeyOf(c)] = FALSE]
  /\ NextKey(c)
  /\ UNCHANGED <<now, rec, failed, lastFail, faults>>

\* The aged copy overwrites whatever record is there by now.
SetAged(c) ==
  /\ proc[c].pc = "setAged"
  /\ SetRecord(KeyOf(c), proc[c].copy)
  /\ NextKey(c)
  /\ UNCHANGED <<now, flag, failed, lastFail, faults>>

-----------------------------------------------------------------------------
\* A Redis command throws: the request ends in an error, a job ends early.
Abort(a) ==
  /\ proc[a] # Idle
  /\ faults > 0
  /\ faults' = faults - 1
  /\ Done(a)
  /\ UNCHANGED <<now, rec, flag, failed, lastFail>>

Tick ==
  /\ now < MaxNow
  /\ now' = now + 1
  /\ UNCHANGED <<rec, flag, proc, failed, lastFail, faults>>

RequestSteps(t) ==
  \/ ReadRate(t) \/ DropKey(t) \/ AuthenticationFails(t) \/ AuthenticationEnds(t)
  \/ ClearFlag(t) \/ HasRecord(t) \/ GetRecord(t) \/ SetLatest(t) \/ SetFlag(t)

JobSteps(c) ==
  StartJob(c) \/ VisitKey(c) \/ DeleteRecord(c) \/ RemoveFlag(c) \/ SetAged(c)

Step ==
  \/ \E t \in Thread : RequestSteps(t) \/ \E k \in Key : Submit(t, k)
  \/ \E c \in Cleaner : JobSteps(c)
  \/ \E a \in Actor : Abort(a)
  \/ Tick

Next == Step /\ UNCHANGED setup

Spec == Init /\ [][Next]_vars

\* A request that has begun ends; Quartz repeats the job forever.
FairSpec ==
  /\ Spec
  /\ \A t \in Thread : WF_vars(RequestSteps(t) /\ UNCHANGED setup)
  /\ \A c \in Cleaner : WF_vars(JobSteps(c) /\ UNCHANGED setup)

-----------------------------------------------------------------------------
(***************************************************************************)
(* Under every interleaving.                                               *)
(***************************************************************************)

\* No stale copy a job or a request writes back counts more failures than
\* the session had: recordSubmissionFailure and decrementCounts lose
\* updates, but only downwards.
CountIsBacked ==
  \A k \in Key : rec[k] # NoRecord => rec[k].count <= failed[k]

\* A captcha is demanded only of a session whose logins have failed as often
\* as cas.throttle.show.captcha.threshold says.
CaptchaNeedsFailures ==
  \A k \in Key : flag[k] => failed[k] >= CaptchaThreshold

\* A POST is denied (403) only within 1/rate seconds of a failure of its own
\* session, also when the job has put back an older record.
DenialNeedsRecentFailure ==
  [][\A t \in Thread : proc[t].pc = "readRate" /\ proc'[t].pc = "idle" /\ faults' = faults
       => (ClockOf(t) - lastFail[KeyOf(t)]) * Threshold < PerSecond * RangeSeconds]_vars

\* A record that has aged does not stay as it is: it is counted down until it
\* is deleted, or a new failure is recorded.
AgedRecordsFade ==
  \A k \in Key :
    ~setup.serial /\ rec[k] # NoRecord /\ Aged(now, rec[k].date)
      ~> rec[k] = NoRecord \/ ~Aged(now, rec[k].date)

(***************************************************************************)
(* When operations do not overlap.                                         *)
(***************************************************************************)

\* The captcha flag of a session goes when its record goes; only the record
\* makes the job ever visit the session again.  A Redis command that fails in
\* between leaves the flag behind.
FlagNeedsRecord ==
  setup.serial /\ Quiet /\ faults = MaxFaults => \A k \in Key : flag[k] => rec[k] # NoRecord

\* Two failures of a session are recorded at least 1/rate seconds apart, where
\* the clocks of the nodes agree and no command has failed.
FailuresArePaced ==
  [][setup.serial /\ faults = MaxFaults /\ (\A a \in Actor : setup.ahead[a] = 0) =>
       \A k \in Key : failed[k] > 1 /\ lastFail'[k] # lastFail[k]
         => (lastFail'[k] - lastFail[k]) * Threshold >= PerSecond * RangeSeconds]_vars
=============================================================================
