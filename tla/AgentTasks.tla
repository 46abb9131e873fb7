----------------------------- MODULE AgentTasks ------------------------------
(***************************************************************************)
(* The queue of agent tasks and the supervisors that work it off.          *)
(*                                                                         *)
(* A worker claims a task under a lease, runs it and reports the result    *)
(* with the token of its claim.  A failure is retried later or, finally,   *)
(* put into a dead letter, from which an operator may requeue the work as  *)
(* a new task.  A lease that ran out lets another worker take the task     *)
(* while the first still runs.  The market context scheduler enqueues a    *)
(* task per cycle and cancels the older ones it found waiting.             *)
(*                                                                         *)
(* Every call is one transaction that locks its task's row; supersession   *)
(* is one statement, which picks its rows from a snapshot and locks them   *)
(* later, without looking at their status again.                           *)
(*                                                                         *)
(* Clocks are left out: a retry delay and a lease end at some time, by an  *)
(* action.  A claim adds one to the task's attempts and draws a token that *)
(* is never used again, so that the attempt number stands for token and    *)
(* worker.  The order of claims (priority, age, rows skipped because       *)
(* another claim holds them), lanes, pools, the scheduler gate and the     *)
(* deployment hold only delay a claim.  PENDING is a READY task; nothing   *)
(* writes RUNNING, EXPIRED or WAITING_DEPENDENCY.                          *)
(***************************************************************************)
EXTENDS Integers, FiniteSets

CONSTANTS
    Roots,          \* tasks that producers enqueue
    ContextRoots,   \* those of the market context scheduler
    Workers,        \* supervisors
    MaxAttempts,    \* agent_tasks.max_attempts
    MaxLapses,      \* bound: no faults once a task's lease ran out as often
    MaxRecoveries   \* bound: how often the work of a root is requeued

ASSUME ConstantsAssumption ==
    /\ ContextRoots \subseteq Roots
    /\ MaxAttempts \in Nat \ {0}
    /\ MaxLapses \in Nat
    /\ MaxRecoveries \in [Roots -> Nat]

\* A task is what was enqueued or its n-th recovery.
Tasks == UNION {{r} \X (0..MaxRecoveries[r]) : r \in Roots}

VARIABLES
    status,     \* agent_tasks.status, "none" when there is no row
    attempts,   \* agent_tasks.attempt_count
    waiting,    \* not_before_utc lies ahead
    lapsed,     \* lease_expires_at_utc has passed
    early,      \* claimed_at_utc lies before created_at_utc
    output,     \* the attempt whose output_ref is stored, 0 for none
    letter,     \* agent_task_dead_letters.status of the task's dead letter
    lapses,     \* how often the task's lease ran out
    worker,     \* per worker: what it does
    cycle       \* the scheduler's cycle: its task and what it supersedes

rows == <<status, attempts, waiting, lapsed, early, output, letter>>
vars == <<rows, lapses, worker, cycle>>

-----------------------------------------------------------------------------
Final == {"DONE", "ERROR", "CANCELLED"}
Open == {"READY", "CLAIMED"}

NoRun == [phase |-> "idle"]
Runs == {NoRun} \cup
        [phase : {"running", "late", "reporting"}, task : Tasks, token : Nat]

\* The scheduler between its statements: keep is the cycle's own task, or none.
NoCycle == [phase |-> "idle"]
Cycles == {NoCycle} \cup
          [phase : {"listed"}, keep : SUBSET ContextRoots, stale : SUBSET ContextRoots]

TypeOK ==
    /\ status \in [Tasks -> {"none"} \cup Open \cup Final]
    /\ attempts \in [Tasks -> Nat]
    /\ waiting \in [Tasks -> BOOLEAN]
    /\ lapsed \in [Tasks -> BOOLEAN]
    /\ early \in [Tasks -> BOOLEAN]
    /\ output \in [Tasks -> Nat]
    /\ letter \in [Tasks -> {"none", "OPEN", "REQUEUED"}]
    /\ lapses \in [Tasks -> Nat]
    /\ worker \in [Workers -> Runs]
    /\ cycle \in Cycles

Init ==
    /\ status = [t \in Tasks |-> "none"]
    /\ attempts = [t \in Tasks |-> 0]
    /\ waiting = [t \in Tasks |-> FALSE]
    /\ lapsed = [t \in Tasks |-> FALSE]
    /\ early = [t \in Tasks |-> FALSE]
    /\ output = [t \in Tasks |-> 0]
    /\ letter = [t \in Tasks |-> "none"]
    /\ lapses = [t \in Tasks |-> 0]
    /\ worker = [w \in Workers |-> NoRun]
    /\ cycle = NoCycle

-----------------------------------------------------------------------------
\* A definition marked "faulty" is not the code's: it is the operator after it
\* with a plausible bug, by which the properties are shown to notice that bug.

\* Workers.

\* The domain refuses to touch a row whose times contradict each other.
Sound(t) == ~early[t]

\* faulty: counts lapsed attempts, with nobody to end the task.
ClaimableCounted(t) ==
    /\ Sound(t)
    /\ attempts[t] < MaxAttempts
    /\ \/ status[t] = "READY" /\ ~waiting[t]
       \/ status[t] = "CLAIMED" /\ lapsed[t]

\* selectClaimableTask and the preflight of claimAgentTaskV1; attempts that
\* ended with a lapsed lease are not counted against max_attempts.
Claimable(t) ==
    /\ Sound(t)
    /\ \/ status[t] = "READY" /\ ~waiting[t]
       \/ status[t] = "CLAIMED" /\ lapsed[t]

Take(w, t) ==
    /\ worker[w] = NoRun
    /\ Claimable(t)
    /\ status' = [status EXCEPT ![t] = "CLAIMED"]
    /\ attempts' = [attempts EXCEPT ![t] = @ + 1]
    /\ lapsed' = [lapsed EXCEPT ![t] = FALSE]
    /\ worker' = [worker EXCEPT ![w] =
                    [phase |-> "running", task |-> t, token |-> attempts[t] + 1]]
    /\ UNCHANGED <<waiting, output, letter, lapses, cycle>>

Claim(w, t) == Take(w, t) /\ UNCHANGED early

\* runOnce reads the clock before it claims.  A task enqueued in between is
\* claimed with a time before its created_at_utc, which the database sets;
\* a recovery is not: its not_before_utc is its created_at_utc.
ClaimEarly(w, t) ==
    /\ t[2] = 0
    /\ attempts[t] = 0
    /\ Take(w, t)
    /\ early' = [early EXCEPT ![t] = TRUE]

\* faulty: forgets to compare the token.
HoldsAny(w) == status[worker[w].task] = "CLAIMED" /\ Sound(worker[w].task)

\* leasePreflight.
Holds(w) ==
    /\ status[worker[w].task] = "CLAIMED"
    /\ worker[w].token = attempts[worker[w].task]
    /\ Sound(worker[w].task)

\* The runner returned: the worker reads the clock for its report.
Finish(w) ==
    /\ worker[w].phase = "running"
    /\ worker' = [worker EXCEPT ![w] =
                    [phase |-> IF lapsed[worker[w].task] THEN "late" ELSE "reporting",
                     task |-> worker[w].task, token |-> worker[w].token]]
    /\ UNCHANGED <<rows, lapses, cycle>>

\* completeTask.
Complete(w) ==
    /\ worker[w].phase = "reporting"
    /\ Holds(w)
    /\ status' = [status EXCEPT ![worker[w].task] = "DONE"]
    /\ output' = [output EXCEPT ![worker[w].task] = worker[w].token]
    /\ lapsed' = [lapsed EXCEPT ![worker[w].task] = FALSE]
    /\ worker' = [worker EXCEPT ![w] = NoRun]
    /\ UNCHANGED <<attempts, waiting, early, letter, lapses, cycle>>

\* completeTask and failTask refuse; nobody catches the former.
Reject(w) ==
    /\ \/ worker[w].phase = "late"
       \/ worker[w].phase \in {"running", "reporting"} /\ ~Holds(w)
    /\ worker' = [worker EXCEPT ![w] = NoRun]
    /\ UNCHANGED <<rows, lapses, cycle>>

\* failTask does not ask whether the lease has run out.
Fail(w) ==
    /\ worker[w].phase = "running"
    /\ Holds(w)
    /\ lapsed' = [lapsed EXCEPT ![worker[w].task] = FALSE]
    /\ worker' = [worker EXCEPT ![w] = NoRun]
    /\ UNCHANGED <<attempts, early, output, lapses, cycle>>

\* faulty: allows one attempt more.
AttemptsRemainMore(t) == attempts[t] <= MaxAttempts

AttemptsRemain(t) == attempts[t] < MaxAttempts

\* A retryable error leaves the task to be claimed again after a delay.
FailRetryable(w) ==
    LET t == worker[w].task IN
    /\ Fail(w)
    /\ AttemptsRemain(t)
    /\ status' = [status EXCEPT ![t] = "READY"]
    /\ waiting' = [waiting EXCEPT ![t] = TRUE]
    /\ UNCHANGED letter

\* faulty: the dead letter is written, the task is left to be claimed.
FailTerminalOpen(w) ==
    LET t == worker[w].task IN
    /\ Fail(w)
    /\ status' = [status EXCEPT ![t] = "READY"]
    /\ letter' = [letter EXCEPT ![t] = "OPEN"]
    /\ UNCHANGED waiting

\* Another error, or the last attempt, ends the task and writes its dead letter.
FailTerminal(w) ==
    LET t == worker[w].task IN
    /\ Fail(w)
    /\ status' = [status EXCEPT ![t] = "ERROR"]
    /\ letter' = [letter EXCEPT ![t] = "OPEN"]
    /\ UNCHANGED waiting

FaultsRemain == \A t \in Tasks : lapses[t] < MaxLapses

\* The worker, or its connection to the database, is lost.
Crash(w) ==
    /\ worker[w] # NoRun
    /\ FaultsRemain
    /\ worker' = [worker EXCEPT ![w] = NoRun]
    /\ UNCHANGED <<rows, lapses, cycle>>

-----------------------------------------------------------------------------
\* Time.

\* A worker still runs under the task's present claim.
Held(t) ==
    \E w \in Workers : /\ worker[w] # NoRun
                       /\ worker[w].task = t
                       /\ worker[w].token = attempts[t]

Lapse(t) ==
    /\ status[t] = "CLAIMED"
    /\ ~lapsed[t]
    /\ Held(t) => FaultsRemain
    /\ lapsed' = [lapsed EXCEPT ![t] = TRUE]
    /\ lapses' = [lapses EXCEPT ![t] = @ + 1]
    /\ UNCHANGED <<status, attempts, waiting, early, output, letter, worker, cycle>>

\* not_before_utc passes.
Due(t) ==
    /\ status[t] = "READY"
    /\ waiting[t]
    /\ waiting' = [waiting EXCEPT ![t] = FALSE]
    /\ UNCHANGED <<status, attempts, lapsed, early, output, letter, lapses, worker, cycle>>

-----------------------------------------------------------------------------
\* Producers and operators.

Enqueue(r) ==
    /\ r \in Roots \ ContextRoots
    /\ status[<<r, 0>>] = "none"
    /\ status' = [status EXCEPT ![<<r, 0>>] = "READY"]
    /\ UNCHANGED <<attempts, waiting, lapsed, early, output, letter, lapses, worker, cycle>>

\* faulty: cancels what has ended already.
CancelTaskFinal(t) ==
    /\ status[t] \notin {"none", "CANCELLED"}
    /\ status' = [status EXCEPT ![t] = "CANCELLED"]
    /\ waiting' = [waiting EXCEPT ![t] = FALSE]
    /\ lapsed' = [lapsed EXCEPT ![t] = FALSE]
    /\ UNCHANGED <<attempts, early, output, letter, lapses, worker, cycle>>

CancelTask(t) ==
    /\ status[t] \in Open
    /\ status' = [status EXCEPT ![t] = "CANCELLED"]
    /\ waiting' = [waiting EXCEPT ![t] = FALSE]
    /\ lapsed' = [lapsed EXCEPT ![t] = FALSE]
    /\ UNCHANGED <<attempts, early, output, letter, lapses, worker, cycle>>

Recovery(t) == <<t[1], t[2] + 1>>

\* A dead letter that is not open is answered with its recovery.
RequeueDeadLetter(t) ==
    /\ letter[t] = "OPEN"
    /\ t[2] < MaxRecoveries[t[1]]
    /\ status' = [status EXCEPT ![Recovery(t)] = "READY"]
    /\ letter' = [letter EXCEPT ![t] = "REQUEUED"]
    /\ UNCHANGED <<attempts, waiting, lapsed, early, output, lapses, worker, cycle>>

-----------------------------------------------------------------------------
\* The market context scheduler.

\* runCycle's statement reads which due READY tasks are older than its own;
\* recoveries are no dispatches.
ListStale(keep, stale) ==
    /\ cycle = NoCycle
    /\ \A k, l \in keep : k = l
    /\ keep \cap stale = {}
    /\ \A r \in stale : status[<<r, 0>>] = "READY" /\ ~waiting[<<r, 0>>]
    /\ cycle' = [phase |-> "listed", keep |-> keep, stale |-> stale]
    /\ UNCHANGED <<rows, lapses, worker>>

IsStale(t) == t[2] = 0 /\ t[1] \in cycle.stale

\* It then cancels them, whatever became of them, and commits its own task.
Supersede ==
    /\ cycle # NoCycle
    /\ status' = [t \in Tasks |->
                    IF IsStale(t) THEN "CANCELLED"
                    ELSE IF t[2] = 0 /\ t[1] \in cycle.keep /\ status[t] = "none" THEN "READY"
                    ELSE status[t]]
    /\ lapsed' = [t \in Tasks |-> lapsed[t] /\ ~IsStale(t)]
    /\ cycle' = NoCycle
    /\ UNCHANGED <<attempts, waiting, early, output, letter, lapses, worker>>

\* The scheduler dies and its transaction is rolled back.
AbortCycle ==
    /\ cycle # NoCycle
    /\ cycle' = NoCycle
    /\ UNCHANGED <<rows, lapses, worker>>

-----------------------------------------------------------------------------
Step(w) ==
    \/ Finish(w) \/ Complete(w) \/ Reject(w)
    \/ FailRetryable(w) \/ FailTerminal(w)

Next ==
    \/ \E w \in Workers, t \in Tasks : Claim(w, t) \/ ClaimEarly(w, t)
    \/ \E w \in Workers : Step(w) \/ Crash(w)
    \/ \E t \in Tasks : Lapse(t) \/ Due(t) \/ CancelTask(t) \/ RequeueDeadLetter(t)
    \/ \E r \in Roots : Enqueue(r)
    \/ \E keep, stale \in SUBSET ContextRoots : ListStale(keep, stale)
    \/ Supersede
    \/ AbortCycle

Spec == Init /\ [][Next]_vars

\* Supervisors poll and are restarted, runners end (they are killed after a
\* timeout) and time passes.  Nothing is asked of operators or the scheduler.
Fairness ==
    /\ WF_vars(\E w \in Workers, t \in Tasks : Claim(w, t))
    /\ \A w \in Workers : WF_vars(Step(w))
    /\ \A t \in Tasks : WF_vars(Lapse(t)) /\ WF_vars(Due(t))

FairSpec == Spec /\ Fairness

-----------------------------------------------------------------------------
\* Properties.

\* A stored result is that of the last claim: nobody took the task after the
\* worker whose completion was accepted, and no later report replaced it.
ResultIsOfLastClaim ==
    \A t \in Tasks :
       /\ output[t] # 0 => output[t] = attempts[t]
       /\ status[t] = "DONE" => output[t] # 0

\* Retries are bounded by max_attempts; only a lease that ran out, which the
\* claim does not hold against the task, allows an attempt beyond.
AttemptsAreBounded == \A t \in Tasks : attempts[t] <= MaxAttempts + lapses[t]

\* completeTask never replaces a stored result: no report of another claim, and
\* no second report, comes through once the task has one.
ResultsStay ==
    [][\A t \in Tasks : output[t] # 0 => output'[t] = output[t]]_vars

\* The workers that run a task, each under some claim of it.
Runners(t) == {w \in Workers : worker[w] # NoRun /\ worker[w].task = t}

\* A second worker runs a task only for a lease that ran out: retries, which
\* make the task claimable again, are reported by a worker that is through.
OverlapCostsLapses == \A t \in Tasks : Cardinality(Runners(t)) <= 1 + lapses[t]

\* A piece of work has one open task at most: a dead letter's task is over for
\* good, and is requeued once.
OneTaskOpen ==
    \A t, u \in Tasks :
       t[1] = u[1] /\ status[t] \in Open /\ status[u] \in Open => t = u

\* The work of a root, over all its recoveries.
Some(r, states) == \E t \in Tasks : t[1] = r /\ status[t] \in states

OutcomeOf(r) ==
    IF ~Some(r, Open \cup Final) THEN "none"
    ELSE IF Some(r, Open) THEN "open"
    ELSE IF Some(r, {"DONE"}) THEN "done"
    ELSE IF \E t \in Tasks : t[1] = r /\ letter[t] = "OPEN" THEN "failed"
    ELSE "cancelled"

Outcome == INSTANCE WorkOutcome WITH
    Work <- Roots, Withdrawable <- ContextRoots,
    outcome <- [r \in Roots |-> OutcomeOf(r)]

\* Claims, retries, dead letters, requeues, late reports and crashes together
\* keep the promise of WorkOutcome.
WorkRefined == Outcome!Spec

\* Every task ends, however its workers fail, unless its row was made unsound
\* by a claim that read the clock before the task was created.
TasksEnd == \A t \in Tasks : status[t] # "none" ~> status[t] \in Final \/ ~Sound(t)
=============================================================================
