-------------------------- MODULE AgentTasksProofs --------------------------
(***************************************************************************)
(* Theorems about AgentTasks, for any tasks, workers, bounds and numbers   *)
(* of attempts.                                                            *)
(*                                                                         *)
(* The recoveries of a root form a chain: a task is there only if the dead *)
(* letters of all before it were requeued, and a task with a dead letter   *)
(* is over.  Hence one task of a chain is open at most, and what becomes   *)
(* of that one becomes of the work.                                        *)
(***************************************************************************)
EXTENDS AgentTasks, FiniteSetTheorems, TLAPS

\* Before a row is inserted nothing is known of the task.
NoRowNothing ==
    \A t \in Tasks : status[t] = "none" => attempts[t] = 0 /\ output[t] = 0 /\ ~waiting[t]

\* A task with a dead letter is over.
LettersEnd == \A t \in Tasks : letter[t] # "none" => status[t] \in {"ERROR", "CANCELLED"}

\* Of the tasks of a root all but the last were requeued.
Chain ==
    \A t, u \in Tasks :
       t[1] = u[1] /\ t[2] < u[2] /\ status[u] # "none" => letter[t] = "REQUEUED"

\* What may be claimed has an attempt left, or a lapsed lease to make up for it.
AttemptLeft ==
    \A t \in Tasks :
       /\ attempts[t] <= MaxAttempts + lapses[t]
       /\ status[t] = "READY" \/ (status[t] = "CLAIMED" /\ lapsed[t])
             => attempts[t] < MaxAttempts + lapses[t]

\* The stored result.
Results ==
    \A t \in Tasks :
       /\ output[t] # 0 => output[t] = attempts[t] /\ status[t] \in {"DONE", "CANCELLED"}
       /\ status[t] = "DONE" => output[t] # 0
       /\ status[t] = "CLAIMED" => attempts[t] # 0

\* What the scheduler listed is there.
ListedIsThere ==
    cycle # NoCycle => \A t \in Tasks : IsStale(t) => status[t] # "none"

IInv ==
    /\ TypeOK
    /\ NoRowNothing /\ LettersEnd /\ Chain
    /\ AttemptLeft /\ Results /\ ListedIsThere

-----------------------------------------------------------------------------
\* Facts about the data.

\* A task is a root and a number.
LEMMA TaskShape ==
  /\ \A t \in Tasks : /\ t[1] \in Roots /\ t[2] \in Nat
                      /\ t[2] <= MaxRecoveries[t[1]]
                      /\ t = <<t[1], t[2]>>
  /\ \A r \in Roots : <<r, 0>> \in Tasks
  /\ \A r \in Roots : \A n \in 0..MaxRecoveries[r] : <<r, n>> \in Tasks
  BY ConstantsAssumption DEF Tasks

\* Tasks of one root with one number are the same.
LEMMA SameTask ==
  ASSUME NEW t \in Tasks, NEW u \in Tasks, t[1] = u[1], t[2] = u[2]
  PROVE  t = u
  BY TaskShape

\* A worker that does something does it for a task.
LEMMA RunHasTask ==
  ASSUME TypeOK, NEW w \in Workers, worker[w] # NoRun
  PROVE  worker[w].task \in Tasks /\ worker[w].token \in Nat
  BY DEF TypeOK, Runs

\* The last task of a chain: it is there and was not requeued.  All others are
\* over, without an open dead letter.
LEMMA Alone ==
  ASSUME IInv, NEW t \in Tasks, status[t] # "none", letter[t] # "REQUEUED",
         NEW u \in Tasks, u[1] = t[1], u # t
  PROVE  status[u] \in {"none", "ERROR", "CANCELLED"} /\ letter[u] # "OPEN"
  <1>1. t[2] \in Nat /\ u[2] \in Nat /\ t[2] # u[2]
    BY TaskShape, SameTask
  <1>2. CASE u[2] < t[2]
    <2>1. letter[u] = "REQUEUED"
      BY <1>2 DEF IInv, Chain
    <2> QED
      BY <2>1 DEF IInv, LettersEnd
  <1>3. CASE t[2] < u[2]
    <2>1. status[u] = "none"
      BY <1>3 DEF IInv, Chain
    <2> QED
      BY <2>1 DEF IInv, LettersEnd
  <1> QED
    BY <1>1, <1>2, <1>3

\* An open task has no dead letter.
LEMMA OpenHasNoLetter ==
  ASSUME IInv, NEW t \in Tasks, status[t] \in Open \cup {"DONE"}
  PROVE  letter[t] = "none" /\ status[t] # "none"
  BY DEF IInv, LettersEnd, Open

-----------------------------------------------------------------------------
\* The steps.

LEMMA IInvInit == Init => IInv
  BY ConstantsAssumption
  DEF Init, IInv, TypeOK, NoRowNothing, LettersEnd, Chain, AttemptLeft, Results, ListedIsThere,
      Runs, Cycles, Open, Final

\* A task that is there changes its status and keeps, or gets, its dead letter:
\* the chains stay as they are.
LEMMA ChainStep ==
  ASSUME IInv, NEW t \in Tasks, status[t] # "none",
         NEW s, s # "none", NEW l,
         status' = [status EXCEPT ![t] = s],
         letter' = [letter EXCEPT ![t] = l],
         l = letter[t] \/ letter[t] = "none",
         l # "none" => s \in {"ERROR", "CANCELLED"},
         UNCHANGED cycle
  PROVE  LettersEnd' /\ Chain' /\ ListedIsThere'
  <1>0. /\ status \in [Tasks -> {"none"} \cup Open \cup Final]
        /\ letter \in [Tasks -> {"none", "OPEN", "REQUEUED"}]
    BY DEF IInv, TypeOK
  <1>1. LettersEnd'
    BY <1>0 DEF IInv, LettersEnd
  <1>2. Chain'
    BY <1>0 DEF IInv, Chain
  <1>3. ListedIsThere'
    BY <1>0 DEF IInv, ListedIsThere, IsStale
  <1> QED
    BY <1>1, <1>2, <1>3

\* Steps that leave the rows alone.
LEMMA SameRows ==
  ASSUME IInv, UNCHANGED rows, UNCHANGED lapses,
         worker' \in [Workers -> Runs], cycle' \in Cycles, ListedIsThere'
  PROVE  IInv'
  BY DEF IInv, rows, TypeOK, NoRowNothing, LettersEnd, Chain, AttemptLeft, Results

LEMMA WorkerSteps ==
  ASSUME IInv, NEW w \in Workers, Finish(w) \/ Reject(w) \/ Crash(w)
  PROVE  IInv'
  <1>0. TypeOK
    BY DEF IInv
  <1>1. CASE Finish(w)
    <2>1. worker[w] # NoRun /\ worker[w] \in Runs
      BY <1>0, <1>1 DEF Finish, NoRun, TypeOK
    <2>2. worker[w].task \in Tasks /\ worker[w].token \in Nat
      BY <1>0, <2>1, RunHasTask
    <2>4. worker' \in [Workers -> Runs]
      BY <1>0, <1>1, <2>2 DEF Finish, TypeOK, Runs
    <2> QED
      BY <1>1, <2>4, SameRows DEF Finish, IInv, TypeOK, ListedIsThere, IsStale, rows
  <1>2. CASE Reject(w) \/ Crash(w)
    <2>1. worker' \in [Workers -> Runs] /\ UNCHANGED <<rows, lapses, cycle>>
      BY <1>0, <1>2 DEF Reject, Crash, TypeOK, Runs
    <2> QED
      BY <2>1, SameRows DEF IInv, TypeOK, ListedIsThere, IsStale, rows
  <1> QED
    BY <1>1, <1>2

LEMMA TakeStep ==
  ASSUME IInv, NEW w \in Workers, NEW t \in Tasks, Take(w, t), early' \in [Tasks -> BOOLEAN]
  PROVE  IInv'
  <1>0. TypeOK
    BY DEF IInv
  <1>1. /\ status[t] = "READY" \/ (status[t] = "CLAIMED" /\ lapsed[t])
        /\ attempts[t] \in Nat /\ lapses[t] \in Nat
    BY <1>0 DEF Take, Claimable, TypeOK
  <1>2. TypeOK'
    <2>1. worker' \in [Workers -> Runs]
      BY <1>0, <1>1 DEF Take, TypeOK, Runs
    <2> QED
      BY <1>0, <1>1, <2>1 DEF Take, TypeOK, Open
  <1>3. NoRowNothing'
    BY <1>0, <1>1 DEF Take, IInv, NoRowNothing, TypeOK
  <1>4. LettersEnd' /\ Chain' /\ ListedIsThere'
    <2>1. letter[t] = "none"
      BY <1>1, OpenHasNoLetter DEF Open
    <2>2. letter' = [letter EXCEPT ![t] = letter[t]]
      BY <1>0 DEF Take, TypeOK
    <2> QED
      BY <1>1, <2>1, <2>2, ChainStep DEF Take
  <1>5. AttemptLeft'
    <2>1. attempts[t] < MaxAttempts + lapses[t]
      BY <1>1 DEF IInv, AttemptLeft
    <2>2. attempts[t] + 1 <= MaxAttempts + lapses[t]
      BY <1>1, <2>1, ConstantsAssumption
    <2> QED
      BY <1>0, <1>1, <2>2 DEF Take, IInv, AttemptLeft, TypeOK
  <1>6. Results'
    <2>1. output[t] = 0
      BY <1>1 DEF IInv, Results
    <2> QED
      BY <1>0, <1>1, <2>1 DEF Take, IInv, Results, TypeOK
  <1> QED
    BY <1>2, <1>3, <1>4, <1>5, <1>6 DEF IInv

LEMMA CompleteStep ==
  ASSUME IInv, NEW w \in Workers, Complete(w)
  PROVE  IInv'
  <1> DEFINE t == worker[w].task
  <1>0. TypeOK
    BY DEF IInv
  <1>1. /\ t \in Tasks /\ worker[w].token \in Nat
        /\ status[t] = "CLAIMED" /\ worker[w].token = attempts[t]
    BY <1>0, RunHasTask DEF Complete, Holds, NoRun
  <1>2. TypeOK'
    <2>1. worker' \in [Workers -> Runs]
      BY <1>0 DEF Complete, TypeOK, Runs
    <2> QED
      BY <1>0, <1>1, <2>1 DEF Complete, TypeOK, Final
  <1>3. NoRowNothing'
    BY <1>0, <1>1 DEF Complete, IInv, NoRowNothing, TypeOK
  <1>4. LettersEnd' /\ Chain' /\ ListedIsThere'
    <2>1. letter[t] = "none"
      BY <1>1, OpenHasNoLetter DEF Open
    <2>2. letter' = [letter EXCEPT ![t] = letter[t]]
      BY <1>0 DEF Complete, TypeOK
    <2> QED
      BY <1>1, <2>1, <2>2, ChainStep DEF Complete
  <1>5. AttemptLeft'
    BY <1>0, <1>1 DEF Complete, IInv, AttemptLeft, TypeOK
  <1>6. Results'
    BY <1>0, <1>1 DEF Complete, IInv, Results, TypeOK
  <1> QED
    BY <1>2, <1>3, <1>4, <1>5, <1>6 DEF IInv

LEMMA FailStep ==
  ASSUME IInv, NEW w \in Workers, FailRetryable(w) \/ FailTerminal(w)
  PROVE  IInv'
  <1> DEFINE t == worker[w].task
  <1>0. TypeOK
    BY DEF IInv
  <1>1. /\ t \in Tasks /\ status[t] = "CLAIMED"
        /\ lapsed' = [lapsed EXCEPT ![t] = FALSE]
        /\ worker' = [worker EXCEPT ![w] = NoRun]
        /\ UNCHANGED <<attempts, early, output, lapses, cycle>>
    BY <1>0, RunHasTask DEF FailRetryable, FailTerminal, Fail, Holds, NoRun
  <1>2. PICK s \in {"READY", "ERROR"}, l \in {"none", "OPEN"}, v \in BOOLEAN :
          /\ status' = [status EXCEPT ![t] = s]
          /\ letter' = [letter EXCEPT ![t] = l]
          /\ waiting' = [waiting EXCEPT ![t] = v]
          /\ s = "READY" => attempts[t] < MaxAttempts
          /\ l # "none" => s = "ERROR"
    <2>1. letter[t] = "none" /\ letter = [letter EXCEPT ![t] = letter[t]]
          /\ waiting = [waiting EXCEPT ![t] = waiting[t]] /\ waiting[t] \in BOOLEAN
      BY <1>0, <1>1, OpenHasNoLetter DEF Open, TypeOK
    <2>2. CASE FailRetryable(w)
      BY <2>1, <2>2 DEF FailRetryable, AttemptsRemain
    <2>3. CASE FailTerminal(w)
      BY <2>1, <2>3 DEF FailTerminal
    <2> QED
      BY <2>2, <2>3
  <1>3. TypeOK'
    <2>1. worker' \in [Workers -> Runs]
      BY <1>0, <1>1 DEF TypeOK, Runs
    <2> QED
      BY <1>0, <1>1, <1>2, <2>1 DEF TypeOK, Open, Final
  <1>4. NoRowNothing'
    BY <1>0, <1>1, <1>2 DEF IInv, NoRowNothing, TypeOK
  <1>5. LettersEnd' /\ Chain' /\ ListedIsThere'
    <2>1. letter[t] = "none"
      BY <1>1, OpenHasNoLetter DEF Open
    <2> QED
      BY <1>1, <1>2, <2>1, ChainStep
  <1>6. AttemptLeft'
    BY <1>0, <1>1, <1>2, ConstantsAssumption DEF IInv, AttemptLeft, TypeOK
  <1>7. Results'
    BY <1>0, <1>1, <1>2 DEF IInv, Results, TypeOK
  <1> QED
    BY <1>3, <1>4, <1>5, <1>6, <1>7 DEF IInv

LEMMA LapseStep ==
  ASSUME IInv, NEW t \in Tasks, Lapse(t)
  PROVE  IInv'
  <1>0. TypeOK
    BY DEF IInv
  <1>1. /\ status[t] = "CLAIMED" /\ ~lapsed[t]
        /\ attempts[t] <= MaxAttempts + lapses[t]
        /\ attempts[t] \in Nat /\ lapses[t] \in Nat
        /\ lapses' = [lapses EXCEPT ![t] = lapses[t] + 1]
        /\ attempts' = attempts
    BY <1>0 DEF Lapse, IInv, AttemptLeft, TypeOK
  <1>2. attempts[t] < MaxAttempts + (lapses[t] + 1)
    BY <1>1, ConstantsAssumption
  <1>3. AttemptLeft'
    BY <1>0, <1>1, <1>2, ConstantsAssumption DEF Lapse, IInv, AttemptLeft, TypeOK
  <1>4. TypeOK'
    BY <1>0, <1>1 DEF Lapse, TypeOK
  <1> QED
    BY <1>3, <1>4
    DEF Lapse, IInv, NoRowNothing, LettersEnd, Chain, Results, ListedIsThere, IsStale

LEMMA DueStep ==
  ASSUME IInv, NEW t \in Tasks, Due(t)
  PROVE  IInv'
  BY DEF Due, IInv, TypeOK, NoRowNothing, LettersEnd, Chain, AttemptLeft, Results,
         ListedIsThere, IsStale

\* A new row, where there is none and all before it in its chain are requeued.
LEMMA NewRow ==
  ASSUME IInv, NEW t \in Tasks, status[t] = "none",
         status' = [status EXCEPT ![t] = "READY"],
         UNCHANGED <<attempts, waiting, lapsed, early, output, lapses, worker, cycle>>
  PROVE  /\ (letter' \in [Tasks -> {"none", "OPEN", "REQUEUED"}] => TypeOK')
         /\ NoRowNothing' /\ AttemptLeft' /\ Results' /\ ListedIsThere'
  <1>0. TypeOK
    BY DEF IInv
  <1>1. attempts[t] = 0 /\ output[t] = 0 /\ lapses[t] \in Nat
    BY <1>0 DEF IInv, NoRowNothing, TypeOK
  <1>2. letter' \in [Tasks -> {"none", "OPEN", "REQUEUED"}] => TypeOK'
    BY <1>0 DEF TypeOK, Open
  <1>3. NoRowNothing' /\ Results'
    BY <1>0, <1>1 DEF IInv, NoRowNothing, Results, TypeOK
  <1>4. AttemptLeft'
    <2>1. attempts[t] < MaxAttempts + lapses[t]
      BY <1>1, ConstantsAssumption
    <2> QED
      BY <1>0, <1>1, <2>1 DEF IInv, AttemptLeft, TypeOK
  <1>5. ListedIsThere'
    BY <1>0 DEF IInv, ListedIsThere, IsStale, TypeOK
  <1> QED
    BY <1>2, <1>3, <1>4, <1>5

LEMMA EnqueueStep ==
  ASSUME IInv, NEW r \in Roots, Enqueue(r)
  PROVE  IInv'
  <1> DEFINE t == <<r, 0>>
  <1>0. TypeOK
    BY DEF IInv
  <1>1. t \in Tasks /\ status[t] = "none" /\ t[2] = 0 /\ UNCHANGED letter
    BY TaskShape DEF Enqueue
  <1>2. TypeOK' /\ NoRowNothing' /\ AttemptLeft' /\ Results' /\ ListedIsThere'
    BY <1>0, <1>1, NewRow DEF Enqueue, TypeOK
  <1>3. LettersEnd'
    BY <1>0, <1>1 DEF Enqueue, IInv, LettersEnd, TypeOK
  <1>4. Chain'
    <2>1. \A u \in Tasks : ~(u[2] < 0)
      BY TaskShape
    <2> QED
      BY <1>0, <1>1, <2>1 DEF Enqueue, IInv, Chain, TypeOK
  <1> QED
    BY <1>2, <1>3, <1>4 DEF IInv

LEMMA CancelStep ==
  ASSUME IInv, NEW t \in Tasks, CancelTask(t)
  PROVE  IInv'
  <1>0. TypeOK
    BY DEF IInv
  <1>1. status[t] \in Open /\ status[t] # "none"
    BY DEF CancelTask, Open
  <1>2. TypeOK'
    BY <1>0 DEF CancelTask, TypeOK, Final
  <1>3. NoRowNothing' /\ AttemptLeft' /\ Results'
    BY <1>0, <1>1 DEF CancelTask, IInv, NoRowNothing, AttemptLeft, Results, TypeOK, Open
  <1>4. LettersEnd' /\ Chain' /\ ListedIsThere'
    <2>1. letter' = [letter EXCEPT ![t] = letter[t]]
      BY <1>0 DEF CancelTask, TypeOK
    <2> QED
      BY <1>1, <2>1, ChainStep DEF CancelTask
  <1> QED
    BY <1>2, <1>3, <1>4 DEF IInv

\* The recovery of an open dead letter is new: its row would have closed it.
LEMMA RecoveryIsNew ==
  ASSUME IInv, NEW t \in Tasks, RequeueDeadLetter(t)
  PROVE  /\ Recovery(t) \in Tasks
         /\ Recovery(t)[1] = t[1] /\ Recovery(t)[2] = t[2] + 1
         /\ status[Recovery(t)] = "none"
  <1>1. /\ t[1] \in Roots /\ t[2] \in Nat /\ t[2] < MaxRecoveries[t[1]]
        /\ MaxRecoveries[t[1]] \in Nat
    BY TaskShape, ConstantsAssumption DEF RequeueDeadLetter
  <1>2. t[2] + 1 \in 0..MaxRecoveries[t[1]] /\ t[2] < t[2] + 1
    BY <1>1
  <1>3. Recovery(t) \in Tasks /\ Recovery(t)[1] = t[1] /\ Recovery(t)[2] = t[2] + 1
    BY <1>1, <1>2, TaskShape DEF Recovery
  <1>4. letter[t] # "REQUEUED"
    BY DEF RequeueDeadLetter
  <1> QED
    BY <1>2, <1>3, <1>4 DEF IInv, Chain

LEMMA RequeueStep ==
  ASSUME IInv, NEW t \in Tasks, RequeueDeadLetter(t)
  PROVE  IInv'
  <1> DEFINE u == Recovery(t)
  <1>0. TypeOK
    BY DEF IInv
  <1>1. /\ u \in Tasks /\ u[1] = t[1] /\ u[2] = t[2] + 1 /\ status[u] = "none"
        /\ t[2] \in Nat /\ t # u
    BY RecoveryIsNew, TaskShape
  <1>2. /\ letter[t] = "OPEN" /\ status[t] \in {"ERROR", "CANCELLED"}
        /\ letter[u] = "none"
    BY <1>1 DEF RequeueDeadLetter, IInv, LettersEnd
  <1>3. /\ status' = [status EXCEPT ![u] = "READY"]
        /\ letter' = [letter EXCEPT ![t] = "REQUEUED"]
        /\ UNCHANGED <<attempts, waiting, lapsed, early, output, lapses, worker, cycle>>
    BY DEF RequeueDeadLetter
  <1>4. TypeOK' /\ NoRowNothing' /\ AttemptLeft' /\ Results' /\ ListedIsThere'
    <2>1. letter' \in [Tasks -> {"none", "OPEN", "REQUEUED"}]
      BY <1>0, <1>3 DEF TypeOK
    <2> QED
      BY <1>1, <1>3, <2>1, NewRow
  <1>5. LettersEnd'
    BY <1>0, <1>1, <1>2, <1>3 DEF IInv, LettersEnd, TypeOK
  <1>6. Chain'
    <2> SUFFICES ASSUME NEW a \in Tasks, NEW b \in Tasks,
                        a[1] = b[1], a[2] < b[2], status'[b] # "none"
                 PROVE  letter'[a] = "REQUEUED"
      BY DEF Chain
    <2>1. CASE b # u
      BY <1>0, <1>3, <2>1 DEF IInv, Chain, TypeOK
    <2>2. CASE b = u /\ a = t
      BY <1>0, <1>3, <2>2 DEF TypeOK
    <2>3. CASE b = u /\ a # t
      <3>1. a[2] \in Nat /\ a[2] # t[2] /\ a[1] = t[1]
        BY <1>1, <2>3, TaskShape, SameTask
      <3>2. a[2] < t[2]
        BY <1>1, <2>3, <3>1
      <3>3. letter[a] = "REQUEUED"
        BY <1>2, <3>1, <3>2 DEF IInv, Chain
      <3> QED
        BY <1>0, <1>3, <2>3, <3>3 DEF TypeOK
    <2> QED
      BY <2>1, <2>2, <2>3
  <1> QED
    BY <1>4, <1>5, <1>6 DEF IInv

LEMMA CycleSteps ==
  ASSUME IInv,
         (\E keep, stale \in SUBSET ContextRoots : ListStale(keep, stale)) \/ AbortCycle
  PROVE  IInv'
  <1>0. TypeOK
    BY DEF IInv
  <1>1. ASSUME NEW keep \in SUBSET ContextRoots, NEW stale \in SUBSET ContextRoots,
               ListStale(keep, stale)
        PROVE  IInv'
    <2>1. /\ cycle' = [phase |-> "listed", keep |-> keep, stale |-> stale]
          /\ UNCHANGED <<rows, lapses, worker>>
          /\ \A r \in stale : status[<<r, 0>>] = "READY"
      BY <1>1 DEF ListStale
    <2>2. cycle' \in Cycles
      BY <2>1 DEF Cycles
    <2>3. ListedIsThere'
      <3> SUFFICES ASSUME NEW t \in Tasks, IsStale(t)'
                   PROVE  status'[t] # "none"
        BY DEF ListedIsThere
      <3>1. t[2] = 0 /\ t[1] \in stale
        BY <2>1 DEF IsStale
      <3>2. t = <<t[1], 0>>
        BY <3>1, TaskShape
      <3> QED
        BY <2>1, <3>1, <3>2 DEF rows
    <2> QED
      BY <1>0, <2>1, <2>2, <2>3, SameRows DEF TypeOK
  <1>2. CASE AbortCycle
    BY <1>0, <1>2, SameRows DEF AbortCycle, TypeOK, Cycles, ListedIsThere
  <1> QED
    BY <1>1, <1>2

LEMMA SupersedeStep ==
  ASSUME IInv, Supersede
  PROVE  IInv'
  <1>0. TypeOK
    BY DEF IInv
  <1>1. \A t \in Tasks :
          /\ IsStale(t) => status[t] # "none" /\ status'[t] = "CANCELLED"
          /\ ~IsStale(t) =>
                \/ status'[t] = status[t]
                \/ t[2] = 0 /\ status[t] = "none" /\ status'[t] = "READY"
          /\ lapsed'[t] => lapsed[t]
    BY DEF Supersede, IInv, ListedIsThere
  <1>2. /\ cycle' = NoCycle
        /\ UNCHANGED <<attempts, waiting, early, output, letter, lapses, worker>>
    BY DEF Supersede
  <1>3. TypeOK'
    <2>1. status' \in [Tasks -> {"none"} \cup Open \cup Final]
      BY <1>0 DEF Supersede, TypeOK, Open, Final
    <2>2. lapsed' \in [Tasks -> BOOLEAN]
      BY DEF Supersede
    <2> QED
      BY <1>0, <1>2, <2>1, <2>2 DEF TypeOK, Cycles
  <1>4. NoRowNothing' /\ LettersEnd'
    BY <1>1, <1>2 DEF IInv, NoRowNothing, LettersEnd
  <1>5. Chain'
    <2> SUFFICES ASSUME NEW a \in Tasks, NEW b \in Tasks,
                        a[1] = b[1], a[2] < b[2], status'[b] # "none"
                 PROVE  letter[a] = "REQUEUED"
      BY <1>2 DEF Chain
    <2>1. a[2] \in Nat /\ b[2] # 0
      BY TaskShape
    <2>2. status[b] # "none"
      BY <1>1, <2>1
    <2> QED
      BY <2>2 DEF IInv, Chain
  <1>6. AttemptLeft'
    <2>1. \A t \in Tasks : status[t] = "none" => attempts[t] < MaxAttempts + lapses[t]
      BY <1>0, ConstantsAssumption DEF IInv, NoRowNothing, TypeOK
    <2> QED
      BY <1>1, <1>2, <2>1 DEF IInv, AttemptLeft
  <1>7. Results'
    BY <1>1, <1>2 DEF IInv, Results, NoRowNothing
  <1>8. ListedIsThere'
    BY <1>2 DEF ListedIsThere
  <1> QED
    BY <1>3, <1>4, <1>5, <1>6, <1>7, <1>8 DEF IInv

-----------------------------------------------------------------------------
\* The invariant.

LEMMA IInvStep == IInv /\ [Next]_vars => IInv'
  <1> SUFFICES ASSUME IInv, [Next]_vars PROVE IInv'
    OBVIOUS
  <1>1. ASSUME NEW w \in Workers, NEW t \in Tasks, Claim(w, t) \/ ClaimEarly(w, t)
        PROVE  IInv'
    <2>1. Take(w, t) /\ early' \in [Tasks -> BOOLEAN]
      BY <1>1 DEF Claim, ClaimEarly, IInv, TypeOK
    <2> QED
      BY <2>1, TakeStep
  <1>2. ASSUME NEW w \in Workers, Step(w) \/ Crash(w)
        PROVE  IInv'
    BY <1>2, WorkerSteps, CompleteStep, FailStep DEF Step
  <1>3. ASSUME NEW t \in Tasks, Lapse(t) \/ Due(t) \/ CancelTask(t) \/ RequeueDeadLetter(t)
        PROVE  IInv'
    BY <1>3, LapseStep, DueStep, CancelStep, RequeueStep
  <1>4. ASSUME NEW r \in Roots, Enqueue(r)
        PROVE  IInv'
    BY <1>4, EnqueueStep
  <1>5. CASE (\E keep, stale \in SUBSET ContextRoots : ListStale(keep, stale)) \/ AbortCycle
    BY <1>5, CycleSteps
  <1>6. CASE Supersede
    BY <1>6, SupersedeStep
  <1>7. CASE UNCHANGED vars
    BY <1>7, SameRows DEF vars, IInv, TypeOK, ListedIsThere, IsStale, rows
  <1> QED
    BY <1>1, <1>2, <1>3, <1>4, <1>5, <1>6, <1>7 DEF Next

LEMMA Invariance == Spec => []IInv
  BY IInvInit, IInvStep, PTL DEF Spec

\* Rows, dead letters, workers and the scheduler's cycle keep their types.
THEOREM TypeCorrect == Spec => []TypeOK
  <1>1. IInv => TypeOK
    BY DEF IInv
  <1> QED
    BY <1>1, Invariance, PTL

\* completeTask stores the result of the last claim only, whatever workers that
\* lost their lease report.
THEOREM ResultIsOfLastClaimHolds == Spec => []ResultIsOfLastClaim
  <1>1. IInv => ResultIsOfLastClaim
    BY DEF IInv, Results, ResultIsOfLastClaim
  <1> QED
    BY <1>1, Invariance, PTL

\* failTask bounds the attempts of a task by max_attempts and the number of
\* leases that ran out.
THEOREM AttemptsAreBoundedHolds == Spec => []AttemptsAreBounded
  <1>1. IInv => AttemptsAreBounded
    BY DEF IInv, AttemptLeft, AttemptsAreBounded
  <1> QED
    BY <1>1, Invariance, PTL

\* Retries and requeues never leave two open tasks for one piece of work.
THEOREM OneTaskOpenHolds == Spec => []OneTaskOpen
  <1>1. ASSUME IInv, NEW t \in Tasks, NEW u \in Tasks,
               t[1] = u[1], status[t] \in Open, status[u] \in Open
        PROVE  t = u
    BY <1>1, OpenHasNoLetter, Alone DEF Open
  <1>2. IInv => OneTaskOpen
    BY <1>1 DEF OneTaskOpen
  <1> QED
    BY <1>2, Invariance, PTL

-----------------------------------------------------------------------------
\* Results stay.

\* Only completeTask writes a result, and to a task that has none.
THEOREM ResultsStayHolds == Spec => ResultsStay
  <1>1. ASSUME IInv, [Next]_vars, NEW t \in Tasks, output[t] # 0
        PROVE  output'[t] = output[t]
    <2>1. ASSUME NEW w \in Workers, Complete(w)
          PROVE  output'[t] = output[t]
      <3>1. status[worker[w].task] = "CLAIMED"
        BY <2>1 DEF Complete, Holds
      <3>2. status[t] # "CLAIMED"
        BY <1>1 DEF IInv, Results
      <3> QED
        BY <1>1, <2>1, <3>1, <3>2 DEF Complete, IInv, TypeOK
    <2>2. ASSUME NEW w \in Workers, Step(w) \/ Crash(w)
          PROVE  output'[t] = output[t]
      BY <2>1, <2>2 DEF Step, Crash, Finish, Reject, FailRetryable, FailTerminal, Fail, rows
    <2> QED
      BY <1>1, <2>2
      DEF Next, vars, rows, Claim, ClaimEarly, Take, Lapse, Due, CancelTask,
          RequeueDeadLetter, Enqueue, ListStale, Supersede, AbortCycle
  <1>2. IInv /\ [Next]_vars => [\A t \in Tasks : output[t] # 0 => output'[t] = output[t]]_vars
    BY <1>1
  <1> QED
    BY <1>2, Invariance, PTL DEF Spec, ResultsStay

-----------------------------------------------------------------------------
\* Workers of one task.

\* A claim will be granted sooner or later.
MayBeTaken(t) == status[t] = "READY" \/ (status[t] = "CLAIMED" /\ lapsed[t])

\* A task that may be taken has paid for all its workers with lapsed leases.
OverlapAt(t) ==
    /\ IsFiniteSet(Runners(t))
    /\ Cardinality(Runners(t)) <= 1 + lapses[t]
    /\ MayBeTaken(t) => Cardinality(Runners(t)) <= lapses[t]
    /\ status[t] = "none" => Runners(t) = {}

Overlap == \A t \in Tasks : OverlapAt(t)

\* No worker is added, no lease runs out and no task of a worker becomes free.
LEMMA OverlapStays ==
  ASSUME NEW t \in Tasks, OverlapAt(t), lapses[t] \in Nat,
         Runners(t)' \subseteq Runners(t), lapses'[t] = lapses[t],
         MayBeTaken(t)' => MayBeTaken(t) \/ status[t] = "none",
         status'[t] = "none" => status[t] = "none"
  PROVE  OverlapAt(t)'
  <1>1. /\ IsFiniteSet(Runners(t)') /\ Cardinality(Runners(t)') <= Cardinality(Runners(t))
        /\ Cardinality(Runners(t)) \in Nat /\ Cardinality(Runners(t)') \in Nat
    BY FS_Subset, FS_CardinalityType DEF OverlapAt
  <1>2. Runners(t) = {} => Cardinality(Runners(t)) = 0
    BY FS_EmptySet
  <1> QED
    BY <1>1, <1>2 DEF OverlapAt

\* A worker that ends leaves the task it ran.
LEMMA RunnerLeaves ==
  ASSUME TypeOK, NEW w \in Workers, worker[w] # NoRun,
         NEW t \in Tasks, worker[w].task = t,
         worker' = [worker EXCEPT ![w] = NoRun]
  PROVE  /\ w \in Runners(t) /\ Runners(t)' = Runners(t) \ {w}
         /\ \A u \in Tasks : Runners(u)' \subseteq Runners(u)
  BY DEF TypeOK, Runners

LEMMA OverlapWorker ==
  ASSUME IInv, Overlap, NEW w \in Workers, Step(w) \/ Crash(w)
  PROVE  Overlap'
  <1>0. TypeOK /\ lapses \in [Tasks -> Nat]
    BY DEF IInv, TypeOK
  <1>1. PICK t \in Tasks : worker[w] # NoRun /\ worker[w].task = t /\ UNCHANGED lapses
    BY <1>0, RunHasTask
    DEF Step, Crash, Finish, Complete, Reject, FailRetryable, FailTerminal, Fail, NoRun
  <1>2. CASE Finish(w)
    <2>1. \A u \in Tasks : Runners(u)' \subseteq Runners(u)
      BY <1>0, <1>1, <1>2 DEF Finish, Runners, TypeOK
    <2>2. UNCHANGED <<status, lapsed>>
      BY <1>2 DEF Finish, rows
    <2> QED
      BY <1>0, <1>1, <2>1, <2>2, OverlapStays DEF Overlap, MayBeTaken
  <1>3. CASE Reject(w) \/ Crash(w)
    <2>1. \A u \in Tasks : Runners(u)' \subseteq Runners(u)
      BY <1>0, <1>1, <1>3, RunnerLeaves DEF Reject, Crash
    <2>2. UNCHANGED <<status, lapsed>>
      BY <1>3 DEF Reject, Crash, rows
    <2> QED
      BY <1>0, <1>1, <2>1, <2>2, OverlapStays DEF Overlap, MayBeTaken
  <1>4. CASE Complete(w) \/ FailTerminal(w)
    <2>1. \A u \in Tasks : Runners(u)' \subseteq Runners(u)
      BY <1>0, <1>1, <1>4, RunnerLeaves DEF Complete, FailTerminal, Fail
    <2>2. /\ \A u \in Tasks : u # t => status'[u] = status[u] /\ lapsed'[u] = lapsed[u]
          /\ status'[t] \in Final
      BY <1>0, <1>1, <1>4 DEF Complete, FailTerminal, Fail, TypeOK, Final
    <2>3. \A u \in Tasks : (MayBeTaken(u)' => MayBeTaken(u))
                           /\ (status'[u] = "none" => status[u] = "none")
      BY <2>2 DEF MayBeTaken, Final
    <2> QED
      BY <1>0, <1>1, <2>1, <2>3, OverlapStays DEF Overlap
  <1>5. CASE FailRetryable(w)
    <2>1. /\ w \in Runners(t) /\ Runners(t)' = Runners(t) \ {w}
          /\ \A u \in Tasks : Runners(u)' \subseteq Runners(u)
      BY <1>0, <1>1, <1>5, RunnerLeaves DEF FailRetryable, Fail
    <2>2. /\ \A u \in Tasks : u # t => status'[u] = status[u] /\ lapsed'[u] = lapsed[u]
          /\ status'[t] = "READY"
      BY <1>0, <1>1, <1>5 DEF FailRetryable, Fail, TypeOK
    <2>3. ASSUME NEW u \in Tasks, u # t
          PROVE  OverlapAt(u)'
      BY <1>0, <1>1, <2>1, <2>2, <2>3, OverlapStays DEF Overlap, MayBeTaken
    <2>4. OverlapAt(t)'
      <3>1. /\ IsFiniteSet(Runners(t)) /\ Cardinality(Runners(t)) <= 1 + lapses[t]
            /\ Cardinality(Runners(t)) \in Nat /\ lapses[t] \in Nat
        BY <1>0, <1>1, FS_CardinalityType DEF Overlap, OverlapAt
      <3>2. IsFiniteSet(Runners(t) \ {w}) /\ Cardinality(Runners(t) \ {w}) = Cardinality(Runners(t)) - 1
        BY <2>1, <3>1, FS_RemoveElement
      <3>3. /\ IsFiniteSet(Runners(t)') /\ Cardinality(Runners(t)') <= lapses[t]
            /\ Cardinality(Runners(t)') <= 1 + lapses[t]
        BY <2>1, <3>1, <3>2
      <3> QED
        BY <1>1, <2>2, <3>1, <3>3 DEF OverlapAt
    <2> QED
      BY <2>3, <2>4 DEF Overlap
  <1> QED
    BY <1>2, <1>3, <1>4, <1>5 DEF Step

LEMMA OverlapTake ==
  ASSUME IInv, Overlap, NEW w \in Workers, NEW t \in Tasks, Take(w, t)
  PROVE  Overlap'
  <1>0. lapses \in [Tasks -> Nat] /\ UNCHANGED lapses /\ MayBeTaken(t)
    BY DEF IInv, TypeOK, Take, Claimable, MayBeTaken
  <1>1. /\ w \notin Runners(t) /\ Runners(t)' = Runners(t) \cup {w}
        /\ \A u \in Tasks : u # t => Runners(u)' \subseteq Runners(u)
    BY DEF IInv, TypeOK, Take, Runners, NoRun
  <1>2. /\ \A u \in Tasks : u # t => status'[u] = status[u] /\ lapsed'[u] = lapsed[u]
        /\ status'[t] = "CLAIMED" /\ ~lapsed'[t]
    BY DEF IInv, TypeOK, Take
  <1>3. ASSUME NEW u \in Tasks, u # t
        PROVE  OverlapAt(u)'
    BY <1>0, <1>1, <1>2, <1>3, OverlapStays DEF Overlap, MayBeTaken
  <1>4. OverlapAt(t)'
    <2>1. /\ IsFiniteSet(Runners(t)) /\ Cardinality(Runners(t)) <= lapses[t]
          /\ Cardinality(Runners(t)) \in Nat /\ lapses[t] \in Nat
      BY <1>0, FS_CardinalityType DEF Overlap, OverlapAt
    <2>2. /\ IsFiniteSet(Runners(t) \cup {w})
          /\ Cardinality(Runners(t) \cup {w}) = Cardinality(Runners(t)) + 1
      BY <1>1, <2>1, FS_AddElement
    <2>3. IsFiniteSet(Runners(t)') /\ Cardinality(Runners(t)') <= 1 + lapses[t]
      BY <1>1, <2>1, <2>2
    <2> QED
      BY <1>0, <1>2, <2>3 DEF OverlapAt, MayBeTaken
  <1> QED
    BY <1>3, <1>4 DEF Overlap

LEMMA OverlapLapse ==
  ASSUME IInv, Overlap, NEW t \in Tasks, Lapse(t)
  PROVE  Overlap'
  <1>0. /\ lapses \in [Tasks -> Nat] /\ UNCHANGED <<status, worker>>
        /\ \A u \in Tasks : Runners(u)' = Runners(u)
        /\ \A u \in Tasks : u # t => lapses'[u] = lapses[u] /\ lapsed'[u] = lapsed[u]
        /\ lapses'[t] = lapses[t] + 1
    BY DEF IInv, TypeOK, Lapse, Runners
  <1>1. ASSUME NEW u \in Tasks, u # t
        PROVE  OverlapAt(u)'
    BY <1>0, <1>1, OverlapStays DEF Overlap, MayBeTaken
  <1>2. OverlapAt(t)'
    <2>1. /\ OverlapAt(t) /\ lapses[t] \in Nat /\ Cardinality(Runners(t)) \in Nat
      BY <1>0, FS_CardinalityType DEF Overlap, OverlapAt
    <2> QED
      BY <1>0, <2>1 DEF OverlapAt
  <1> QED
    BY <1>1, <1>2 DEF Overlap

\* The steps that leave the workers alone.
LEMMA OverlapRest ==
  ASSUME IInv, Overlap,
         \/ \E t \in Tasks : Due(t) \/ CancelTask(t) \/ RequeueDeadLetter(t)
         \/ \E r \in Roots : Enqueue(r)
         \/ \E keep, stale \in SUBSET ContextRoots : ListStale(keep, stale)
         \/ Supersede \/ AbortCycle \/ UNCHANGED vars
  PROVE  Overlap'
  <1>0. lapses \in [Tasks -> Nat] /\ UNCHANGED <<worker, lapses>>
    BY DEF IInv, TypeOK, Due, CancelTask, RequeueDeadLetter, Enqueue, ListStale, Supersede,
           AbortCycle, vars
  <1>1. \A u \in Tasks : Runners(u)' = Runners(u)
    BY <1>0 DEF Runners
  <1>2. ASSUME NEW u \in Tasks
        PROVE  /\ MayBeTaken(u)' => MayBeTaken(u) \/ status[u] = "none"
               /\ status'[u] = "none" => status[u] = "none"
    <2>1. status \in [Tasks -> {"none"} \cup Open \cup Final]
      BY DEF IInv, TypeOK
    <2>2. CASE \E t \in Tasks : CancelTask(t)
      BY <2>1, <2>2 DEF CancelTask, MayBeTaken
    <2>3. CASE \E t \in Tasks : RequeueDeadLetter(t)
      <3>1. PICK t \in Tasks : RequeueDeadLetter(t)
        BY <2>3
      <3>2. /\ status[Recovery(t)] = "none" /\ UNCHANGED lapsed
            /\ status' = [status EXCEPT ![Recovery(t)] = "READY"]
        BY <3>1, RecoveryIsNew DEF RequeueDeadLetter
      <3> QED
        BY <2>1, <3>2 DEF MayBeTaken
    <2>4. CASE \E r \in Roots : Enqueue(r)
      BY <2>1, <2>4 DEF Enqueue, MayBeTaken
    <2>5. CASE Supersede
      BY <2>5 DEF Supersede, MayBeTaken
    <2> QED
      BY <2>2, <2>3, <2>4, <2>5 DEF Due, ListStale, AbortCycle, vars, rows, MayBeTaken
  <1> QED
    BY <1>0, <1>1, <1>2, OverlapStays DEF Overlap

\* Tasks are taken twice, at the same time, only by their lapsed leases.
THEOREM OverlapCostsLapsesHolds == Spec => []OverlapCostsLapses
  <1>1. Init => Overlap
    <2>1. \A t \in Tasks : Init => Runners(t) = {}
      BY DEF Init, Runners
    <2> QED
      BY <2>1, FS_EmptySet DEF Init, Overlap, OverlapAt, MayBeTaken
  <1>2. IInv /\ Overlap /\ [Next]_vars => Overlap'
    BY OverlapWorker, OverlapTake, OverlapLapse, OverlapRest DEF Next, Claim, ClaimEarly
  <1>3. Overlap => OverlapCostsLapses
    BY DEF Overlap, OverlapAt, OverlapCostsLapses
  <1> QED
    BY <1>1, <1>2, <1>3, Invariance, PTL DEF Spec

-----------------------------------------------------------------------------
\* The outcome of the work.

\* The outcome depends on the classes of statuses and on open dead letters only.
LEMMA OutcomeSame ==
  ASSUME NEW r \in Roots,
         \A t \in Tasks : t[1] = r =>
            /\ status'[t] \in Open \cup Final <=> status[t] \in Open \cup Final
            /\ status'[t] \in Open <=> status[t] \in Open
            /\ status'[t] = "DONE" <=> status[t] = "DONE"
            /\ letter'[t] = "OPEN" <=> letter[t] = "OPEN"
  PROVE  OutcomeOf(r)' = OutcomeOf(r)
  <1>1. Some(r, Open \cup Final)' <=> Some(r, Open \cup Final)
    BY DEF Some, Open, Final
  <1>2. Some(r, Open)' <=> Some(r, Open)
    BY DEF Some, Open
  <1>3. Some(r, {"DONE"})' <=> Some(r, {"DONE"})
    BY DEF Some
  <1> QED
    BY <1>1, <1>2, <1>3 DEF OutcomeOf

\* A step on the tasks of one root leaves the others' outcomes.
LEMMA OthersSame ==
  ASSUME NEW r \in Roots,
         \A t \in Tasks : t[1] # r => status'[t] = status[t] /\ letter'[t] = letter[t]
  PROVE  \A q \in Roots : q # r => OutcomeOf(q)' = OutcomeOf(q)
  BY OutcomeSame

OutcomeOfTask(t) ==
    IF status[t] \in Open THEN "open"
    ELSE IF status[t] = "DONE" THEN "done"
    ELSE IF letter[t] = "OPEN" THEN "failed"
    ELSE "cancelled"

\* The last task of a chain decides.
LastDecides ==
    \A t \in Tasks : status[t] # "none" /\ letter[t] # "REQUEUED"
                       => OutcomeOf(t[1]) = OutcomeOfTask(t)

LEMMA OutcomeOfLast == IInv => LastDecides
  <1> SUFFICES ASSUME IInv, NEW t \in Tasks, status[t] # "none", letter[t] # "REQUEUED"
               PROVE  OutcomeOf(t[1]) = OutcomeOfTask(t)
    BY DEF LastDecides
  <1>1. \A u \in Tasks : u[1] = t[1] /\ u # t =>
           status[u] \in {"none", "ERROR", "CANCELLED"} /\ letter[u] # "OPEN"
    BY Alone
  <1>2. Some(t[1], Open \cup Final)
    BY DEF Some, IInv, TypeOK
  <1>3. Some(t[1], Open) <=> status[t] \in Open
    BY <1>1 DEF Some, Open
  <1>4. Some(t[1], {"DONE"}) <=> status[t] = "DONE"
    BY <1>1 DEF Some
  <1>5. (\E u \in Tasks : u[1] = t[1] /\ letter[u] = "OPEN") <=> letter[t] = "OPEN"
    BY <1>1
  <1> QED
    BY <1>2, <1>3, <1>4, <1>5 DEF OutcomeOf, OutcomeOfTask

\* Without its first task a root has no task.
LEMMA OutcomeOfNone ==
  ASSUME IInv, NEW r \in Roots, status[<<r, 0>>] = "none"
  PROVE  OutcomeOf(r) = "none"
  <1>1. <<r, 0>> \in Tasks /\ letter[<<r, 0>>] = "none"
    BY TaskShape DEF IInv, LettersEnd
  <1>2. ASSUME NEW t \in Tasks, t[1] = r
        PROVE  status[t] = "none"
    <2>1. t[2] \in Nat /\ t = <<r, t[2]>>
      BY <1>2, TaskShape
    <2>2. CASE t[2] = 0
      BY <2>1, <2>2
    <2>3. CASE 0 < t[2]
      BY <1>1, <1>2, <2>3 DEF IInv, Chain
    <2> QED
      BY <2>1, <2>2, <2>3
  <1> QED
    BY <1>2 DEF OutcomeOf, Some, Open, Final

LEMMA TurnStep ==
  ASSUME NEW r \in Roots, NEW a, NEW b, OutcomeOf(r) = a, OutcomeOf(r)' = b,
         \A q \in Roots : q # r => OutcomeOf(q)' = OutcomeOf(q)
  PROVE  Outcome!Turn(r, a, b)
  BY DEF Outcome!Turn

LEMMA OutcomeOfLastNext == IInv' => LastDecides'
  BY OutcomeOfLast, PTL

\* A step from one last task of a root to another, or the same.
LEMMA LastStep ==
  ASSUME IInv, IInv', NEW t \in Tasks, NEW u \in Tasks, t[1] = u[1],
         status[t] # "none", letter[t] # "REQUEUED",
         status'[u] # "none", letter'[u] # "REQUEUED",
         \A v \in Tasks : v[1] # t[1] => status'[v] = status[v] /\ letter'[v] = letter[v]
  PROVE  /\ t[1] \in Roots
         /\ OutcomeOf(t[1]) = OutcomeOfTask(t)
         /\ OutcomeOf(t[1])' = OutcomeOfTask(u)'
         /\ \A q \in Roots : q # t[1] => OutcomeOf(q)' = OutcomeOf(q)
  <1>1. OutcomeOf(u[1])' = OutcomeOfTask(u)'
    BY OutcomeOfLastNext DEF LastDecides
  <1> QED
    BY <1>1, OutcomeOfLast, OthersSame, TaskShape DEF LastDecides

\* Nothing happens to the work.
LEMMA SameOutcomes ==
  ASSUME \A r \in Roots : OutcomeOf(r)' = OutcomeOf(r)
  PROVE  UNCHANGED [r \in Roots |-> OutcomeOf(r)]
  OBVIOUS

\* Open tasks that stay open, and steps that leave status and dead letters alone.
LEMMA StaysOpen ==
  ASSUME IInv, NEW t \in Tasks, status[t] \in Open, NEW s \in Open,
         status' = [status EXCEPT ![t] = s], UNCHANGED letter
  PROVE  UNCHANGED [r \in Roots |-> OutcomeOf(r)]
  <1>1. status \in [Tasks -> {"none"} \cup Open \cup Final]
    BY DEF IInv, TypeOK
  <1>2. \A u \in Tasks : u # t => status'[u] = status[u]
    BY <1>1
  <1>3. status'[t] \in Open
    BY <1>1
  <1>4. \A r \in Roots : OutcomeOf(r)' = OutcomeOf(r)
    BY <1>2, <1>3, OutcomeSame DEF Open, Final
  <1> QED
    BY <1>4, SameOutcomes

\* The last task of a root's chain changes its status.
LEMMA TaskTurns ==
  ASSUME IInv, IInv', NEW t \in Tasks, status[t] \in Open, NEW s \in Final, NEW l,
         status' = [status EXCEPT ![t] = s],
         letter' = [letter EXCEPT ![t] = l], l # "REQUEUED"
  PROVE  /\ t[1] \in Roots
         /\ Outcome!Turn(t[1], "open",
              IF s = "DONE" THEN "done" ELSE IF l = "OPEN" THEN "failed" ELSE "cancelled")
  <1>1. /\ status \in [Tasks -> {"none"} \cup Open \cup Final]
        /\ letter \in [Tasks -> {"none", "OPEN", "REQUEUED"}]
    BY DEF IInv, TypeOK
  <1>2. letter[t] # "REQUEUED" /\ status[t] # "none"
    BY OpenHasNoLetter
  <1>3. status'[t] = s /\ letter'[t] = l /\ s # "none" /\ s \notin Open
    BY <1>1 DEF Final, Open
  <1>4. \A v \in Tasks : v[1] # t[1] => status'[v] = status[v] /\ letter'[v] = letter[v]
    BY <1>1
  <1>5. /\ t[1] \in Roots
        /\ OutcomeOf(t[1]) = OutcomeOfTask(t)
        /\ OutcomeOf(t[1])' = OutcomeOfTask(t)'
        /\ \A q \in Roots : q # t[1] => OutcomeOf(q)' = OutcomeOf(q)
    BY <1>2, <1>3, <1>4, LastStep
  <1>6. /\ OutcomeOfTask(t) = "open"
        /\ OutcomeOfTask(t)' =
             IF s = "DONE" THEN "done" ELSE IF l = "OPEN" THEN "failed" ELSE "cancelled"
    BY <1>3 DEF OutcomeOfTask
  <1> QED
    BY <1>5, <1>6, TurnStep

-----------------------------------------------------------------------------
\* The refinement.

LEMMA OutcomeInit == Init => Outcome!Init
  <1> SUFFICES ASSUME Init PROVE Outcome!Init
    OBVIOUS
  <1>1. \A r \in Roots : OutcomeOf(r) = "none"
    BY DEF Init, OutcomeOf, Some, Open, Final
  <1> QED
    BY <1>1 DEF Outcome!Init

LEMMA WorkerOutcome ==
  ASSUME IInv, IInv', NEW w \in Workers, Complete(w) \/ FailRetryable(w) \/ FailTerminal(w)
  PROVE  [Outcome!Next]_([r \in Roots |-> OutcomeOf(r)])
  <1> DEFINE t == worker[w].task
  <1>0. TypeOK
    BY DEF IInv
  <1>1. t \in Tasks /\ status[t] = "CLAIMED" /\ status[t] \in Open
    BY <1>0, RunHasTask DEF Complete, FailRetryable, FailTerminal, Fail, Holds, NoRun, Open
  <1>2. letter[t] = "none" /\ letter = [letter EXCEPT ![t] = letter[t]]
    BY <1>0, <1>1, OpenHasNoLetter DEF TypeOK
  <1>3. CASE Complete(w)
    <2>1. status' = [status EXCEPT ![t] = "DONE"] /\ letter' = [letter EXCEPT ![t] = "none"]
      BY <1>2, <1>3 DEF Complete
    <2>2. t[1] \in Roots /\ Outcome!Turn(t[1], "open", "done")
      BY <1>1, <2>1, TaskTurns DEF Final
    <2> QED
      BY <2>2 DEF Outcome!Next, Outcome!Finish
  <1>4. CASE FailRetryable(w)
    <2>1. UNCHANGED [r \in Roots |-> OutcomeOf(r)]
      BY <1>1, <1>4, StaysOpen DEF FailRetryable, Open
    <2> QED
      BY <2>1
  <1>5. CASE FailTerminal(w)
    <2>1. status' = [status EXCEPT ![t] = "ERROR"] /\ letter' = [letter EXCEPT ![t] = "OPEN"]
      BY <1>5 DEF FailTerminal
    <2>2. t[1] \in Roots /\ Outcome!Turn(t[1], "open", "failed")
      BY <1>1, <2>1, TaskTurns DEF Final
    <2> QED
      BY <2>2 DEF Outcome!Next, Outcome!Fail
  <1> QED
    BY <1>3, <1>4, <1>5

LEMMA CancelOutcome ==
  ASSUME IInv, IInv', NEW t \in Tasks, CancelTask(t)
  PROVE  Outcome!Next
  <1>1. status[t] \in Open /\ letter[t] = "none"
    BY OpenHasNoLetter DEF CancelTask
  <1>2. status' = [status EXCEPT ![t] = "CANCELLED"] /\ letter' = [letter EXCEPT ![t] = "none"]
    BY <1>1 DEF CancelTask, IInv, TypeOK
  <1>3. t[1] \in Roots /\ Outcome!Turn(t[1], "open", "cancelled")
    BY <1>1, <1>2, TaskTurns DEF Final
  <1> QED
    BY <1>3 DEF Outcome!Next, Outcome!Cancel

LEMMA RequeueOutcome ==
  ASSUME IInv, IInv', NEW t \in Tasks, RequeueDeadLetter(t)
  PROVE  Outcome!Next
  <1> DEFINE u == Recovery(t)
  <1>0. /\ status \in [Tasks -> {"none"} \cup Open \cup Final]
        /\ letter \in [Tasks -> {"none", "OPEN", "REQUEUED"}]
    BY DEF IInv, TypeOK
  <1>1. u \in Tasks /\ u[1] = t[1] /\ status[u] = "none"
    BY RecoveryIsNew
  <1>2. letter[t] = "OPEN" /\ status[t] \in {"ERROR", "CANCELLED"} /\ letter[u] = "none"
    BY <1>1 DEF RequeueDeadLetter, IInv, LettersEnd
  <1>3. /\ status' = [status EXCEPT ![u] = "READY"]
        /\ letter' = [letter EXCEPT ![t] = "REQUEUED"]
    BY DEF RequeueDeadLetter
  <1>4. status'[u] = "READY" /\ letter'[u] = "none"
    BY <1>0, <1>1, <1>2, <1>3
  <1>5. \A v \in Tasks : v[1] # t[1] => status'[v] = status[v] /\ letter'[v] = letter[v]
    BY <1>0, <1>1, <1>3
  <1>6. /\ t[1] \in Roots
        /\ OutcomeOf(t[1]) = OutcomeOfTask(t)
        /\ OutcomeOf(t[1])' = OutcomeOfTask(u)'
        /\ \A q \in Roots : q # t[1] => OutcomeOf(q)' = OutcomeOf(q)
    BY <1>1, <1>2, <1>4, <1>5, LastStep
  <1>7. OutcomeOfTask(t) = "failed" /\ OutcomeOfTask(u)' = "open"
    BY <1>2, <1>4 DEF OutcomeOfTask, Open
  <1>8. Outcome!Turn(t[1], "failed", "open")
    BY <1>6, <1>7, TurnStep
  <1> QED
    BY <1>6, <1>8 DEF Outcome!Next, Outcome!Resume

LEMMA EnqueueOutcome ==
  ASSUME IInv, IInv', NEW r \in Roots, Enqueue(r)
  PROVE  Outcome!Next
  <1> DEFINE t == <<r, 0>>
  <1>0. status \in [Tasks -> {"none"} \cup Open \cup Final]
    BY DEF IInv, TypeOK
  <1>1. t \in Tasks /\ t[1] = r /\ letter[t] = "none"
    BY TaskShape DEF Enqueue, IInv, LettersEnd
  <1>2. status' = [status EXCEPT ![t] = "READY"] /\ UNCHANGED letter
    BY DEF Enqueue
  <1>3. status'[t] = "READY" /\ letter'[t] = "none"
    BY <1>0, <1>1, <1>2
  <1>4. OutcomeOf(r) = "none"
    BY OutcomeOfNone DEF Enqueue
  <1>5. OutcomeOf(t[1])' = OutcomeOfTask(t)'
    BY <1>1, <1>3, OutcomeOfLastNext DEF LastDecides
  <1>6. OutcomeOfTask(t)' = "open"
    BY <1>3 DEF OutcomeOfTask, Open
  <1>7. \A q \in Roots : q # r => OutcomeOf(q)' = OutcomeOf(q)
    BY <1>0, <1>1, <1>2, OthersSame
  <1>8. Outcome!Turn(r, "none", "open")
    BY <1>1, <1>4, <1>5, <1>6, <1>7, TurnStep
  <1> QED
    BY <1>8 DEF Outcome!Next, Outcome!Begin

LEMMA SupersedeOutcome ==
  ASSUME IInv, IInv', Supersede
  PROVE  Outcome!Next
  <1> DEFINE first(r) == <<r, 0>>
             ws == {r \in cycle.stale : status[first(r)] \in Open \cup {"DONE"}}
             bs == {r \in cycle.keep : r \notin cycle.stale /\ status[first(r)] = "none"}
  <1>0. /\ TypeOK
        /\ cycle.keep \subseteq ContextRoots /\ cycle.stale \subseteq ContextRoots
        /\ ContextRoots \subseteq Roots
    BY ConstantsAssumption DEF Supersede, IInv, TypeOK, Cycles
  <1>1. /\ \A t \in Tasks : t[2] # 0 => status'[t] = status[t]
        /\ \A r \in Roots :
              status'[first(r)] = IF r \in cycle.stale THEN "CANCELLED"
                                  ELSE IF r \in bs THEN "READY" ELSE status[first(r)]
        /\ UNCHANGED letter
    BY TaskShape DEF Supersede, IsStale
  <1>2. \A t \in Tasks : t[2] = 0 => t = first(t[1])
    BY TaskShape
  <1>3. ASSUME NEW r \in ws
        PROVE  OutcomeOf(r) \in {"open", "done"} /\ OutcomeOf(r)' = "cancelled"
    <2>1. /\ r \in Roots /\ first(r) \in Tasks /\ first(r)[1] = r
          /\ letter[first(r)] = "none" /\ status[first(r)] # "none"
      BY <1>0, <1>3, TaskShape, OpenHasNoLetter
    <2>2. OutcomeOf(r) = OutcomeOfTask(first(r))
      BY <2>1, OutcomeOfLast DEF LastDecides
    <2>3. status'[first(r)] = "CANCELLED" /\ letter'[first(r)] = "none"
      BY <1>1, <1>3, <2>1
    <2>4. OutcomeOf(first(r)[1])' = OutcomeOfTask(first(r))'
      BY <2>1, <2>3, OutcomeOfLastNext DEF LastDecides
    <2>5. OutcomeOfTask(first(r)) \in {"open", "done"} /\ OutcomeOfTask(first(r))' = "cancelled"
      BY <1>3, <2>3 DEF OutcomeOfTask, Open
    <2> QED
      BY <2>1, <2>2, <2>4, <2>5
  <1>4. ASSUME NEW r \in bs
        PROVE  OutcomeOf(r) = "none" /\ OutcomeOf(r)' = "open"
    <2>1. /\ r \in Roots /\ first(r) \in Tasks /\ first(r)[1] = r
          /\ status[first(r)] = "none" /\ letter[first(r)] = "none"
      BY <1>0, <1>4, TaskShape DEF IInv, LettersEnd
    <2>2. status'[first(r)] = "READY" /\ letter'[first(r)] = "none"
      BY <1>1, <1>4, <2>1
    <2>3. OutcomeOf(first(r)[1])' = OutcomeOfTask(first(r))'
      BY <2>1, <2>2, OutcomeOfLastNext DEF LastDecides
    <2>4. OutcomeOfTask(first(r))' = "open"
      BY <2>2 DEF OutcomeOfTask, Open
    <2> QED
      BY <2>1, <2>3, <2>4, OutcomeOfNone
  <1>5. ASSUME NEW r \in Roots, r \notin ws, r \notin bs
        PROVE  OutcomeOf(r)' = OutcomeOf(r)
    <2>1. first(r) \in Tasks
      BY TaskShape
    <2>2. CASE r \in cycle.stale
      <3>1. status[first(r)] # "none"
        BY <2>1, <2>2 DEF Supersede, IInv, ListedIsThere, IsStale
      <3>2. status[first(r)] \in {"ERROR", "CANCELLED"} /\ status'[first(r)] = "CANCELLED"
        BY <1>0, <1>1, <1>5, <2>1, <2>2, <3>1 DEF TypeOK, Open, Final
      <3> QED
        BY <1>1, <1>2, <3>2, OutcomeSame DEF Open, Final
    <2>3. CASE r \notin cycle.stale
      <3>1. status'[first(r)] = status[first(r)]
        BY <1>1, <1>5, <2>3
      <3> QED
        BY <1>1, <1>2, <3>1, OutcomeSame
    <2> QED
      BY <2>2, <2>3
  <1>6. ws \cap bs = {} /\ ws \subseteq ContextRoots /\ bs \subseteq ContextRoots
    BY <1>0
  <1>7. Outcome!Withdraw(ws)
    <2>1. [r \in Roots |-> OutcomeOf(r)]' =
            [r \in Roots |-> IF r \in ws THEN "cancelled" ELSE IF r \in bs THEN "open"
                             ELSE [q \in Roots |-> OutcomeOf(q)][r]]
      BY <1>3, <1>4, <1>5
    <2> HIDE DEF ws, bs
    <2> QED
      BY <1>0, <1>3, <1>4, <1>6, <2>1 DEF Outcome!Withdraw
  <1> HIDE DEF ws, bs
  <1> QED
    BY <1>6, <1>7 DEF Outcome!Next

LEMMA OutcomeStep ==
  IInv /\ IInv' /\ [Next]_vars => [Outcome!Next]_([r \in Roots |-> OutcomeOf(r)])
  <1> SUFFICES ASSUME IInv, IInv', [Next]_vars
               PROVE  [Outcome!Next]_([r \in Roots |-> OutcomeOf(r)])
    OBVIOUS
  <1>1. ASSUME NEW w \in Workers, NEW t \in Tasks, Take(w, t)
        PROVE  UNCHANGED [r \in Roots |-> OutcomeOf(r)]
    BY <1>1, StaysOpen DEF Take, Claimable, Open
  <1>2. ASSUME UNCHANGED <<status, letter>>
        PROVE  UNCHANGED [r \in Roots |-> OutcomeOf(r)]
    BY <1>2, OutcomeSame, SameOutcomes
  <1>3. CASE \E w \in Workers, t \in Tasks : Claim(w, t) \/ ClaimEarly(w, t)
    BY <1>1, <1>3 DEF Claim, ClaimEarly
  <1>4. CASE \E w \in Workers : Step(w) \/ Crash(w)
    BY <1>2, <1>4, WorkerOutcome DEF Step, Finish, Reject, Crash, rows
  <1>5. CASE \E t \in Tasks : Lapse(t) \/ Due(t)
    BY <1>2, <1>5 DEF Lapse, Due
  <1>6. CASE \E t \in Tasks : CancelTask(t) \/ RequeueDeadLetter(t)
    BY <1>6, CancelOutcome, RequeueOutcome
  <1>7. CASE \E r \in Roots : Enqueue(r)
    BY <1>7, EnqueueOutcome
  <1>8. CASE (\E keep, stale \in SUBSET ContextRoots : ListStale(keep, stale)) \/ AbortCycle
    BY <1>2, <1>8 DEF ListStale, AbortCycle, rows
  <1>9. CASE Supersede
    BY <1>9, SupersedeOutcome
  <1>10. CASE UNCHANGED vars
    BY <1>2, <1>10 DEF vars, rows
  <1> QED
    BY <1>3, <1>4, <1>5, <1>6, <1>7, <1>8, <1>9, <1>10 DEF Next

\* The queue implements WorkOutcome: work that is done or cancelled stays so but
\* for a superseded market context, and only failed work is taken up again.
THEOREM WorkRefinedHolds == Spec => WorkRefined
  <1>1. IInv /\ IInv' /\ [Next]_vars => [Outcome!Next]_([r \in Roots |-> OutcomeOf(r)])
    BY OutcomeStep
  <1> QED
    BY <1>1, OutcomeInit, Invariance, PTL DEF Spec, WorkRefined, Outcome!Spec
=============================================================================
