----------------------------- MODULE BillingCron -----------------------------
(***************************************************************************)
(* The billing reminders (src/routes/api/cron/billing.ts and              *)
(* src/lib/services/billing-emails.ts) of one subscription row: each row   *)
(* is selected, claimed and mailed independently of the others.  Runs of   *)
(* the cron job overlap; between its read of the row and its claim the     *)
(* owner may renew or cancel.  Time is in whole days: a reminder is due    *)
(* after a whole number of days, and the notice window is one too.         *)
(***************************************************************************)
EXTENDS Integers, Sequences

CONSTANTS
  Jobs,        \* runs of the cron job that may overlap
  NoticeDays,  \* PRE_EXPIRY_NOTICE_DAYS
  Schedule,    \* REMINDER_SCHEDULE_DAYS
  PeriodDays,  \* BILLING_PERIOD_DAYS
  MaxDay,      \* bound on the clock
  MaxGrants    \* bound on renewals

ASSUME CronAssumption ==
  /\ NoticeDays \in Nat /\ PeriodDays \in Nat \ {0}
  /\ Schedule \in Seq(Nat \ {0})
  /\ MaxDay \in Nat /\ MaxGrants \in Nat

VARIABLES
  day,     \* the clock
  sub,     \* plan is paid, currentPeriodEnd, reminderCount, renewals so far
  job,     \* local state of each run
  mails    \* the mails claimed so far, oldest first, each with the stage and
           \* count it was selected for, the renewal and whether the period
           \* was over when it was claimed

cronVars == <<day, sub, job, mails>>

Last == Len(Schedule)
NoRun == [pc |-> "idle", count |-> 0, stage |-> 0]

\* The counter stays within the schedule and every job holds a count and a stage
\* it selected.
CronTypeOK ==
  /\ day \in 0 .. MaxDay
  /\ sub \in [paid : BOOLEAN, end : Nat, count : 0 .. Last + 1, grants : 0 .. MaxGrants]
  /\ job \in [Jobs -> [pc : {"idle", "selected", "claimed"}, count : 0 .. Last,
                       stage : 0 .. Last]]
  /\ \A i \in DOMAIN mails :
       mails[i] \in [stage : 0 .. Last, count : 0 .. Last,
                     grants : 0 .. MaxGrants, paused : BOOLEAN]

CronInit ==
  /\ day = 0
  /\ sub = [paid |-> TRUE, end |-> NoticeDays + 1, count |-> 0, grants |-> 0]
  /\ job = [j \in Jobs |-> NoRun]
  /\ mails = <<>>

-----------------------------------------------------------------------------
(* selectBillingEmailTargets: stage 0 is the notice, stage n the n-th      *)
(* reminder.                                                               *)

(* Faulty: the notice does not count as a stage.                           *)
RemindedEarly(count) == IF count > Last THEN Last ELSE count

Reminded(count) == IF count <= 1 THEN 0 ELSE IF count - 1 > Last THEN Last ELSE count - 1

DueStage ==
  IF day <= sub.end
  THEN {n \in {0} : sub.count = 0 /\ sub.end - day <= NoticeDays}
  ELSE {n \in 1 .. Last : n = Reminded(sub.count) + 1 /\ day - sub.end >= Schedule[n]}

Select(j) ==
  /\ job[j] = NoRun
  /\ sub.paid
  /\ \E n \in DueStage :
       job' = [job EXCEPT ![j] = [pc |-> "selected", count |-> sub.count, stage |-> n]]
  /\ UNCHANGED <<day, sub, mails>>

(* Faulty: claims without the predicate on the count.                      *)
ClaimBlind(j) ==
  /\ job[j].pc = "selected"
  /\ sub.count <= Last
  /\ sub' = [sub EXCEPT !.count = @ + 1]
  /\ job' = [job EXCEPT ![j].pc = "claimed"]
  /\ mails' = Append(mails, [stage |-> job[j].stage, count |-> job[j].count,
                             grants |-> sub.grants, paused |-> day > sub.end])
  /\ UNCHANGED day

(* The conditional UPDATE that claims the stage before the mail is sent.   *)
(* A mail counts from its claim: what follows can only lose it.            *)
ClaimNotice(j) ==
  /\ job[j].pc = "selected"
  /\ sub.count = job[j].count
  /\ sub' = [sub EXCEPT !.count = @ + 1]
  /\ job' = [job EXCEPT ![j].pc = "claimed"]
  /\ mails' = Append(mails, [stage |-> job[j].stage, count |-> job[j].count,
                             grants |-> sub.grants, paused |-> day > sub.end])
  /\ UNCHANGED day

Skip(j) ==
  /\ job[j].pc = "selected"
  /\ sub.count # job[j].count
  /\ job' = [job EXCEPT ![j] = NoRun]
  /\ UNCHANGED <<day, sub, mails>>

(* The mail is sent or fails: the stage is consumed either way.  A run     *)
(* that stops is one that takes no further step.                           *)
Finish(j) ==
  /\ job[j].pc = "claimed"
  /\ job' = [job EXCEPT ![j] = NoRun]
  /\ UNCHANGED <<day, sub, mails>>

-----------------------------------------------------------------------------
(* What else writes the row.                                               *)

(* applyPaymentSuccess: a running period is extended, an ended one starts  *)
(* anew, and reminderCount starts over.                                    *)
Purchase ==
  /\ sub.grants < MaxGrants
  /\ sub' = [paid |-> TRUE, count |-> 0, grants |-> sub.grants + 1,
             end |-> (IF sub.paid /\ day <= sub.end THEN sub.end ELSE day) + PeriodDays]
  /\ UNCHANGED <<day, job, mails>>

(* cancelSubscription leaves reminderCount alone.                          *)
Cancel ==
  /\ sub.paid
  /\ sub' = [sub EXCEPT !.paid = FALSE, !.end = day + PeriodDays]
  /\ UNCHANGED <<day, job, mails>>

NextDay ==
  /\ day < MaxDay
  /\ day' = day + 1
  /\ UNCHANGED <<sub, job, mails>>

JobStep(j) == Select(j) \/ ClaimNotice(j) \/ Skip(j) \/ Finish(j)

CronNext == (\E j \in Jobs : JobStep(j)) \/ Purchase \/ Cancel \/ NextDay

CronSpec == CronInit /\ [][CronNext]_cronVars

(* The platform calls the job every day, and days pass.                    *)
CronFairSpec == CronSpec /\ WF_cronVars(NextDay) /\ \A j \in Jobs : WF_cronVars(JobStep(j))

-----------------------------------------------------------------------------
(* Properties.                                                             *)

(* Overlapping runs never mail twice for one value of the counter within   *)
(* one paid period, and the values come in their order.                    *)
OneMailPerCount ==
  \A i, k \in DOMAIN mails :
    i < k /\ mails[i].grants = mails[k].grants => mails[i].count < mails[k].count

(* At most a notice and one reminder per entry of the schedule are sent in *)
(* one paid period.                                                        *)
BoundedCycle ==
  \A g \in 0 .. MaxGrants :
    Len(SelectSeq(mails, LAMBDA m : m.grants = g)) <= Last + 1

(* An account that neither renews nor cancels is reminded to the end of    *)
(* the schedule, though runs overlap and mails are lost.                   *)
CycleCompletes ==
  \A g \in 0 .. MaxGrants :
    (sub.grants = g /\ sub.paid /\ sub.end + Schedule[Last] <= MaxDay)
      ~> (sub.grants # g \/ ~sub.paid \/ sub.count = Last + 1)

(* Statements of the documentation that the code does not keep.            *)

(* No mail is sent twice although runs are missed or repeated.             *)
StageOnce ==
  \A i, k \in DOMAIN mails :
    mails[i].grants = mails[k].grants /\ mails[i].stage = mails[k].stage => i = k

(* A reminder is sent to a subscription whose period is over.              *)
ReminderMeansPaused ==
  \A i \in DOMAIN mails : mails[i].stage > 0 => mails[i].paused
=============================================================================
