--------------------------- MODULE RegisterQueue ---------------------------
(***************************************************************************)
(* Registration through the job queue (services/auth/src/queue.ts and      *)
(* POST /auth/register with its status route in routes.ts).  The handler   *)
(* looks for the phone, adds a job whose id is the phone, and waits two    *)
(* seconds for it; a worker looks again, hashes the password and creates   *)
(* the account; the queue runs a job again when it throws or when the      *)
(* process that had it dies.  An account may change its phone or go.       *)
(***************************************************************************)
EXTENDS Naturals

CONSTANTS
  Forms,          \* submissions of the registration form
  Phones,
  Asks,           \* the phone each form asks for
  None,
  MaxFaults,      \* bound: crashes, failed statements
  MaxMoves        \* bound: accounts that change their phone or go

Attempts == 3     \* runs of a job that throws
Stalls == 1       \* runs given back to the queue by a crash (its default)

VARIABLES
  account,        \* the form that created the account of a phone
  job,            \* the job of each phone
  form,           \* what each form does, and what it was told
  faults, moves   \* history: how many of those have happened

vars == <<account, job, form, faults, moves>>

NoJob == [state |-> "none", by |-> None, throws |-> 0, stalls |-> 0, result |-> None]

Working == {"active", "hashing", "reports"}
Ended == {"completed", "failed"}
Told == {"created", "exists", "failed", "lost"}

Init ==
  /\ account = [p \in Phones |-> None]
  /\ job = [p \in Phones |-> NoJob]
  /\ form = [f \in Forms |-> "new"]
  /\ faults = 0
  /\ moves = 0

Now(f, pc) == form' = [form EXCEPT ![f] = pc]

\* The early check ...
Check(f) ==
  /\ form[f] = "new"
  /\ Now(f, IF account[Asks[f]] = None THEN "checked" ELSE "exists")
  /\ UNCHANGED <<account, job, faults, moves>>

\* ... and the job, unless the phone has one: running, done or failed.
Add(f) ==
  LET p == Asks[f] IN
  /\ form[f] = "checked"
  /\ job' = IF job[p] = NoJob
            THEN [job EXCEPT ![p] = [NoJob EXCEPT !.state = "waiting", !.by = f]]
            ELSE job
  /\ Now(f, "waits")
  /\ UNCHANGED <<account, faults, moves>>

\* What a client is told of a completed job.  The account it names may have
\* changed its phone, or be gone, which is an error.
Outcome(j) ==
  IF j.result = "exists" THEN "exists"
  ELSE IF \E p \in Phones : account[p] = j.by THEN "created" ELSE "failed"

Hear(f) ==
  /\ form[f] = "waits" /\ job[Asks[f]].state = "completed"
  /\ Now(f, Outcome(job[Asks[f]]))
  /\ UNCHANGED <<account, job, faults, moves>>

\* Two seconds are over, or the job has failed: 202 and the job's id.
GiveUp(f) ==
  /\ form[f] = "waits"
  /\ Now(f, "queued")
  /\ UNCHANGED <<account, job, faults, moves>>

\* GET /auth/register/status/:jobId, until it tells an end.  Whoever asks does it
\* of his own accord: nothing under src calls this route.
Poll(f) ==
  LET j == job[Asks[f]] IN
  /\ form[f] = "queued" /\ j.state \in Ended \cup {"none"}
  /\ Now(f, IF j.state = "completed" THEN Outcome(j) ELSE "failed")
  /\ UNCHANGED <<account, job, faults, moves>>

-----------------------------------------------------------------------------
Becomes(p, state) == job' = [job EXCEPT ![p].state = state]

Take(p) ==
  /\ job[p].state = "waiting" /\ Becomes(p, "active")
  /\ UNCHANGED <<account, form, faults, moves>>

Reports(p, result) ==
  job' = [job EXCEPT ![p].state = "reports", ![p].result = result]

Look(p) ==
  /\ job[p].state = "active"
  /\ IF account[p] = None THEN Becomes(p, "hashing") ELSE Reports(p, "exists")
  /\ UNCHANGED <<account, form, faults, moves>>

\* The unique phone decides.
Create(p) ==
  /\ job[p].state = "hashing"
  /\ IF account[p] = None
     THEN account' = [account EXCEPT ![p] = job[p].by] /\ Reports(p, "created")
     ELSE Reports(p, "exists") /\ UNCHANGED account
  /\ UNCHANGED <<form, faults, moves>>

Report(p) ==
  /\ job[p].state = "reports" /\ Becomes(p, "completed")
  /\ UNCHANGED <<account, form, faults, moves>>

\* A statement fails: the job is run again, three times in all.
Throw(p) ==
  /\ job[p].state \in {"active", "hashing"} /\ faults < MaxFaults
  /\ job' = [job EXCEPT ![p].throws = @ + 1,
                        ![p].state = IF job[p].throws + 1 < Attempts THEN "waiting"
                                                                     ELSE "failed"]
  /\ faults' = faults + 1
  /\ UNCHANGED <<account, form, moves>>

\* Mutant: a job is kept by the process that runs it, and is lost with it.
Crash_LosesJobs ==
  /\ faults < MaxFaults
  /\ job' = [p \in Phones |-> IF job[p].state \in Working THEN NoJob ELSE job[p]]
  /\ form' = [f \in Forms |-> IF form[f] \in {"checked", "waits"} THEN "lost" ELSE form[f]]
  /\ faults' = faults + 1
  /\ UNCHANGED <<account, moves>>

\* The process dies: the queue gives its jobs to another, once, and nobody
\* answers the requests it was handling.
Crash ==
  /\ faults < MaxFaults
  /\ job' = [p \in Phones |->
               IF job[p].state \notin Working THEN job[p]
               ELSE [job[p] EXCEPT !.stalls = @ + 1, !.result = None,
                       !.state = IF job[p].stalls < Stalls THEN "waiting" ELSE "failed"]]
  /\ form' = [f \in Forms |-> IF form[f] \in {"checked", "waits"} THEN "lost" ELSE form[f]]
  /\ faults' = faults + 1
  /\ UNCHANGED <<account, moves>>

\* An ended job is kept for an hour or a day, or until a thousand others are
\* completed: whoever was told to ask for it may come too late.
Remove(p) ==
  /\ job[p].state \in Ended
  /\ job' = [job EXCEPT ![p] = NoJob]
  /\ UNCHANGED <<account, form, faults, moves>>

\* PATCH /auth/me: the unique phone decides here too.  An administrator may
\* delete the account.
Move(p, to) ==
  /\ account[p] # None /\ account[to] = None /\ moves < MaxMoves
  /\ account' = [account EXCEPT ![p] = None, ![to] = account[p]]
  /\ moves' = moves + 1
  /\ UNCHANGED <<job, form, faults>>

Delete(p) ==
  /\ account[p] # None /\ moves < MaxMoves
  /\ account' = [account EXCEPT ![p] = None]
  /\ moves' = moves + 1
  /\ UNCHANGED <<job, form, faults>>

-----------------------------------------------------------------------------
Handle(f) == Check(f) \/ Add(f) \/ Hear(f) \/ GiveUp(f)
Work(p) == Take(p) \/ Look(p) \/ Create(p) \/ Report(p)

Next ==
  \/ \E f \in Forms : Handle(f) \/ Poll(f)
  \/ \E p \in Phones : Work(p) \/ Throw(p) \/ Remove(p) \/ Delete(p)
  \/ \E p, to \in Phones : Move(p, to)
  \/ Crash

Spec == Init /\ [][Next]_vars

\* The service and the worker go on with what they have begun.  Nobody is bound to
\* ask for the status: the page does not (store/auth.ts 72-89, Auth.tsx 80-100),
\* and the gateway lets nobody ask who is not signed in (index.ts 14-21).
Fairness ==
  /\ \A f \in Forms : WF_vars(Handle(f))
  /\ \A p \in Phones : WF_vars(Work(p))

FairSpec == Spec /\ Fairness

-----------------------------------------------------------------------------
TypeOK ==
  /\ account \in [Phones -> Forms \cup {None}]
  /\ job \in [Phones -> [state : {"none", "waiting"} \cup Working \cup Ended,
                        by : Forms \cup {None}, throws : 0..Attempts,
                        stalls : 0..Stalls + 1, result : {None, "created", "exists"}]]
  /\ form \in [Forms -> {"new", "checked", "waits", "queued"} \cup Told]
  /\ faults \in 0..MaxFaults
  /\ moves \in 0..MaxMoves

\* Nobody is told a lie while accounts stay: "created" and "exists" both mean that
\* the account is there (queue.ts 89-113).
AnswersAreTrue ==
  moves = 0 =>
    \A f \in Forms : form[f] \in {"created", "exists"} => account[Asks[f]] # None

\* A job that was completed made the account, or found it; what it found is the
\* account of another form, unless a crash came between its own insert and the
\* report; and it failed only after three throws, or two crashes (queue.ts 59-113).
EndsAreTrue ==
  \A p \in Phones :
    /\ job[p].state = "completed" /\ moves = 0
         => /\ account[p] # None
            /\ job[p].result = "exists" => account[p] # job[p].by \/ faults > 0
    /\ job[p].state = "failed" => job[p].throws = Attempts \/ job[p].stalls > Stalls

\* A registration that was queued is carried out, whatever throws and crashes
\* (queue.ts 12-18).
Underway(p) == job[p].state \in {"waiting"} \cup Working
Over(p) == job[p].state \in Ended

QueuedIsDone == \A p \in Phones : Underway(p) ~> Over(p)

\* Whoever is told that his registration is queued is told how it ended.
\* routes.ts 126-128 says "иначе 202 + jobId, клиент опрашивает GET
\* /auth/register/status/:jobId" (otherwise the client polls the status), and no
\* client does.
Queued(f) == form[f] = "queued"
Heard(f) == form[f] \in Told

QueuedIsTold == \A f \in Forms : Queued(f) ~> Heard(f)
=============================================================================
