------------------------------ MODULE CanvasRun ------------------------------
(****************************************************************************)
(* How canvas-studio runs a node: the API process records the run and puts  *)
(* a job on the BullMQ queue, a worker process executes it and reports      *)
(* through the shared store, the API streams the stored events (SSE), and   *)
(* the task node in the browser shows them. API, workers and browsers       *)
(* interleave between any two statements on the store. The store is the     *)
(* SQLite one, whose statements are atomic; events of one run are compared  *)
(* by created_at, which counts milliseconds, so that two of them may carry  *)
(* the same. The BullMQ queue is modelled from its use: a job is given to   *)
(* one worker at a time, a job whose worker died is given out again once    *)
(* (maxStalledCount), a handler that throws fails it without a retry.       *)
(****************************************************************************)
EXTENDS Integers, Sequences, FiniteSets

CONSTANTS
  Runs,        \* the runs that users start
  Workers,     \* the worker processes
  NoRun,       \* what an idle worker executes
  Points,      \* progress reports of one execution (five in the code)
  MaxStalls,   \* how often a stalled job is given out again
  MaxFaults    \* crashes, failing statements and lost connections (a bound)

ASSUME NoRunIsNoRun     == NoRun \notin Runs
ASSUME BoundsAreNat     == {Points, MaxStalls, MaxFaults} \subseteq Nat

VARIABLES
  request,   \* the POST that starts each run
  run,       \* the node_run rows
  log,       \* the run_event rows of each run, oldest first
  assets,    \* how many assets name each run as their source
  job,       \* the BullMQ job of each run
  stalls,    \* how often it was found stalled
  attempts,  \* how often it was given to a worker (history)
  worker,    \* what each worker process does
  node,      \* the runtime of the task node in the browser
  stream,    \* its EventSource, with the API's side of the connection
  faults     \* how many faults there were

store  == <<run, log, assets>>
queue  == <<job, stalls, attempts>>
client == <<node, stream>>
vars   == <<request, store, queue, worker, client, faults>>

Finished == {"succeeded", "failed", "canceled"}
Idle     == [run |-> NoRun, at |-> "idle", step |-> 0]
Closed   == [open |-> FALSE, cursor |-> 0, wire |-> <<>>, status |-> "idle"]

Init ==
  /\ request = [r \in Runs |-> "none"]
  /\ run = [r \in Runs |-> [status |-> "absent", progress |-> 0, output |-> 0]]
  /\ log = [r \in Runs |-> <<>>]
  /\ assets = [r \in Runs |-> 0]
  /\ job = [r \in Runs |-> "none"]
  /\ stalls = [r \in Runs |-> 0]
  /\ attempts = [r \in Runs |-> 0]
  /\ worker = [w \in Workers |-> Idle]
  /\ node = [r \in Runs |-> [status |-> "idle", progress |-> 0]]
  /\ stream = [r \in Runs |-> Closed]
  /\ faults = 0

Fault == faults < MaxFaults /\ faults' = faults + 1

\* The created_at of the last event of a run; all are later than 0.
Latest(events) == IF events = <<>> THEN 0 ELSE events[Len(events)].at

\* appendRunEvent at the given created_at.
AppendEventAt(r, type, progress, at) ==
  log' = [log EXCEPT ![r] = Append(@, [type |-> type, at |-> at, progress |-> progress])]

\* In the millisecond of the run's last event, or in a later one.
AppendEvent(r, type) ==
  \E at \in {Latest(log[r]), Latest(log[r]) + 1} \ {0} : AppendEventAt(r, type, 0, at)

----------------------------------------------------------------------------
(* The API process *)

\* POST .../run up to its await: the row and its first event.
CreateRun(r) ==
  /\ request[r] = "none"
  /\ request' = [request EXCEPT ![r] = "adding"]
  /\ run' = [run EXCEPT ![r].status = "queued"]
  /\ AppendEvent(r, "run.created")
  /\ UNCHANGED <<assets, queue, worker, client, faults>>

\* The job is queued, the answer gives the browser the runId of a task node.
AddJob(r) ==
  /\ request[r] = "adding"
  /\ request' = [request EXCEPT ![r] = "answered"]
  /\ job' = [job EXCEPT ![r] = "waiting"]
  /\ node' = [node EXCEPT ![r].status = "queued"]
  /\ UNCHANGED <<store, stalls, attempts, worker, stream, faults>>

\* The queue refuses the job, or the API dies before it is queued.
LoseRequest(r) ==
  /\ request[r] = "adding"
  /\ request' = [request EXCEPT ![r] = "failed"]
  /\ Fault
  /\ UNCHANGED <<store, queue, worker, client>>

----------------------------------------------------------------------------
(* The job queue (external) and the worker processes *)

Take(w, r) ==
  /\ worker[w] = Idle
  /\ job[r] = "waiting"
  /\ job' = [job EXCEPT ![r] = "active"]
  /\ attempts' = [attempts EXCEPT ![r] = @ + 1]
  /\ worker' = [worker EXCEPT ![w] = [run |-> r, at |-> "taken", step |-> 0]]
  /\ UNCHANGED <<request, store, stalls, client, faults>>

\* No worker renews the lock of an active job.
Stalled(r) ==
  /\ job[r] = "active"
  /\ \A w \in Workers : worker[w].run # r
  /\ job' = [job EXCEPT ![r] = IF stalls[r] < MaxStalls THEN "waiting" ELSE "failed"]
  /\ stalls' = [stalls EXCEPT ![r] = @ + 1]
  /\ UNCHANGED <<request, store, attempts, worker, client, faults>>

\* One statement of the handler: worker w goes from one point to the next and
\* only the store changes with it.
Goes(w, from, to) ==
  /\ worker[w].at = from
  /\ worker' = [worker EXCEPT ![w].at = to]
  /\ UNCHANGED <<request, queue, client, faults>>

MarkRunning(w) ==
  /\ Goes(w, "taken", "running")
  /\ run' = [run EXCEPT ![worker[w].run].status = "running"]
  /\ UNCHANGED <<log, assets>>

AnnounceStart(w) ==
  /\ Goes(w, "running", "waiting")
  /\ AppendEvent(worker[w].run, "run.started")
  /\ UNCHANGED <<run, assets>>

\* Mutant: one report too many.
AdvanceTooFar(w) ==
  /\ worker[w].step <= Points
  /\ Goes(w, "waiting", "advanced")
  /\ run' = [run EXCEPT ![worker[w].run].progress = worker[w].step + 1]
  /\ UNCHANGED <<log, assets>>

\* After each wait of 300 ms the progress of the row is set, then reported.
Advance(w) ==
  /\ worker[w].step < Points
  /\ Goes(w, "waiting", "advanced")
  /\ run' = [run EXCEPT ![worker[w].run].progress = worker[w].step + 1]
  /\ UNCHANGED <<log, assets>>

ReportProgress(w) ==
  /\ worker[w].at = "advanced"
  /\ worker' = [worker EXCEPT ![w].at = "waiting", ![w].step = @ + 1]
  /\ AppendEventAt(worker[w].run, "run.progress", worker[w].step + 1, Latest(log[worker[w].run]) + 1)
  /\ UNCHANGED <<request, run, assets, queue, client, faults>>

InsertAsset(w) ==
  /\ worker[w].step = Points
  /\ Goes(w, "waiting", "stored")
  /\ assets' = [assets EXCEPT ![worker[w].run] = @ + 1]
  /\ UNCHANGED <<run, log>>

\* Mutant: the asset is inserted in the loop.
AnnounceInLoop(w) ==
  /\ Goes(w, "stored", "waiting")
  /\ AppendEvent(worker[w].run, "asset.created")
  /\ UNCHANGED <<run, assets>>

AnnounceAsset(w) ==
  /\ Goes(w, "stored", "announced")
  /\ AppendEvent(worker[w].run, "asset.created")
  /\ UNCHANGED <<run, assets>>

\* Mutant: the row is marked before its output is known.
MarkWithoutOutput(w) ==
  /\ Goes(w, "announced", "succeeded")
  /\ run' = [run EXCEPT ![worker[w].run].status = "succeeded",
                        ![worker[w].run].progress = Points + 1]
  /\ UNCHANGED <<log, assets>>

\* Mutant: the row is written anew, without its progress.
MarkAnew(w) ==
  /\ Goes(w, "announced", "succeeded")
  /\ run' = [run EXCEPT ![worker[w].run] = [status |-> "succeeded", progress |-> 0,
                                            output |-> assets[worker[w].run]]]
  /\ UNCHANGED <<log, assets>>

\* The output names the asset just inserted; progress 100 is Points + 1 here.
MarkSucceeded(w) ==
  /\ Goes(w, "announced", "succeeded")
  /\ run' = [run EXCEPT ![worker[w].run] = [status   |-> "succeeded",
                                            progress |-> Points + 1,
                                            output   |-> assets[worker[w].run]]]
  /\ UNCHANGED <<log, assets>>

AnnounceSuccess(w) ==
  /\ Goes(w, "succeeded", "done")
  /\ AppendEvent(worker[w].run, "run.succeeded")
  /\ UNCHANGED <<run, assets>>

\* The handler has returned, the queue is told.
Complete(w) ==
  /\ worker[w].at = "done"
  /\ job' = [job EXCEPT ![worker[w].run] = "completed"]
  /\ worker' = [worker EXCEPT ![w] = Idle]
  /\ UNCHANGED <<request, store, stalls, attempts, client, faults>>

\* A statement of the handler throws: the job fails, nothing else is written.
Throw(w) ==
  /\ worker[w].at \notin {"idle", "done"}
  /\ Fault
  /\ job' = [job EXCEPT ![worker[w].run] = "failed"]
  /\ worker' = [worker EXCEPT ![w] = Idle]
  /\ UNCHANGED <<request, store, stalls, attempts, client>>

\* The worker process dies and is started again.
Crash(w) ==
  /\ worker[w] # Idle
  /\ Fault
  /\ worker' = [worker EXCEPT ![w] = Idle]
  /\ UNCHANGED <<request, store, queue, client>>

----------------------------------------------------------------------------
(* The event stream and the task node. GET .../events starts from the first *)
(* event on every connection and then sends, every 500 ms, what is later    *)
(* than the last event sent (its LIMIT of 200 is out of reach of one run).  *)

\* The log is in the order of created_at, so what is later is its rear part.
Later(r, cursor) ==
  LET sent == Cardinality({i \in DOMAIN log[r] : log[r][i].at <= cursor})
  IN  SubSeq(log[r], sent + 1, Len(log[r]))

Connect(r) ==
  /\ request[r] = "answered"
  /\ ~stream[r].open
  /\ node[r].status \notin Finished
  /\ stream' = [stream EXCEPT ![r] = [open |-> TRUE, cursor |-> Latest(log[r]),
                                      wire |-> log[r], status |-> node[r].status]]
  /\ UNCHANGED <<request, store, queue, worker, node, faults>>

Poll(r) ==
  LET news == Later(r, stream[r].cursor)
  IN  /\ stream[r].open
      /\ news # <<>>
      /\ stream' = [stream EXCEPT ![r].cursor = Latest(news), ![r].wire = @ \o news]
      /\ UNCHANGED <<request, store, queue, worker, node, faults>>

\* The task node listens to three of the event types; no worker sends run.failed.
Receive(r) ==
  LET e == Head(stream[r].wire)
  IN  /\ stream[r].open /\ stream[r].wire # <<>>
      /\ stream' = [stream EXCEPT ![r].wire = Tail(@)]
      /\ node' = [node EXCEPT ![r] =
                    CASE e.type = "run.progress"  -> [status |-> "running", progress |-> e.progress]
                      [] e.type = "run.succeeded" -> [status |-> "succeeded", progress |-> Points + 1]
                      [] OTHER -> @]
      /\ UNCHANGED <<request, store, queue, worker, faults>>

\* The effect depends on the status: when that has changed, the connection is
\* closed, whatever is under way on it; unless the run is over, a new one follows.
Rerender(r) ==
  /\ stream[r].open
  /\ stream[r].status # node[r].status
  /\ stream' = [stream EXCEPT ![r] = Closed]
  /\ UNCHANGED <<request, store, queue, worker, node, faults>>

\* The connection breaks; EventSource opens another.
Drop(r) ==
  /\ stream[r].open
  /\ Fault
  /\ stream' = [stream EXCEPT ![r] = Closed]
  /\ UNCHANGED <<request, store, queue, worker, node>>

----------------------------------------------------------------------------

Handle(w) ==
  \/ MarkRunning(w)
  \/ AnnounceStart(w)
  \/ Advance(w)
  \/ ReportProgress(w)
  \/ InsertAsset(w)
  \/ AnnounceAsset(w)
  \/ MarkSucceeded(w)
  \/ AnnounceSuccess(w)
  \/ Complete(w)

Show(r) == Connect(r) \/ Poll(r) \/ Receive(r) \/ Rerender(r)

Next ==
  \/ \E r \in Runs : CreateRun(r) \/ AddJob(r) \/ LoseRequest(r)
  \/ \E r \in Runs : Stalled(r) \/ Show(r) \/ Drop(r)
  \/ \E w \in Workers : Handle(w) \/ Throw(w) \/ Crash(w)
  \/ \E w \in Workers, r \in Runs : Take(w, r)

Spec == Init /\ [][Next]_vars

\* The processes run, timers fire and the queue hands out what waits; users
\* and faults are free.
FairSpec ==
  /\ Spec
  /\ \A r \in Runs : WF_vars(AddJob(r)) /\ WF_vars(Stalled(r)) /\ WF_vars(Show(r))
  /\ \A w \in Workers : WF_vars(Handle(w)) /\ WF_vars(\E r \in Runs : Take(w, r))

----------------------------------------------------------------------------
(* Properties *)

\* The types of the state.
TypeOK ==
  /\ request \in [Runs -> {"none", "adding", "answered", "failed"}]
  /\ run \in [Runs -> [status : {"absent", "queued", "running", "succeeded"},
                       progress : 0..Points + 1, output : 0..MaxStalls + 1]]
  /\ \A r \in Runs : \A i \in DOMAIN log[r] : log[r][i].progress \in 0..Points
  /\ assets \in [Runs -> Nat]
  /\ job \in [Runs -> {"none", "waiting", "active", "completed", "failed"}]
  /\ stalls \in [Runs -> 0..MaxStalls + 1]
  /\ attempts \in [Runs -> Nat]
  /\ \A w \in Workers : worker[w] = Idle \/ (worker[w].run \in Runs /\ worker[w].step \in 0..Points)
  /\ node \in [Runs -> [status : {"idle", "queued", "running", "succeeded"},
                        progress : 0..Points + 1]]
  /\ \A r \in Runs : stream[r].cursor <= Latest(log[r])
  /\ faults \in 0..MaxFaults

\* What a task node shows as succeeded can be read: the row has an output, and
\* the asset it names is stored, whatever died or was executed again since.
ShownIsStored ==
  \A r \in Runs :
    /\ node[r].status = "succeeded" => run[r].output > 0
    /\ run[r].status = "succeeded" => run[r].output > 0
    /\ run[r].output <= assets[r]

\* A crash makes the queue repeat a run, at most MaxStalls times; each attempt
\* leaves at most one asset, and no two workers execute one run at a time.
AttemptsAreBounded ==
  \A r \in Runs :
    /\ assets[r] <= attempts[r]
    /\ attempts[r] <= MaxStalls + 1
    /\ \A v, w \in Workers : worker[v].run = r /\ worker[w].run = r => v = w

\* Every accepted run leaves the queue, whatever fails on the way.
JobsSettle == \A r \in Runs : request[r] = "answered" ~> job[r] \in {"completed", "failed"}

\* Until something fails a run only goes forward: from queued to running to
\* succeeded, its progress never falls, and success is final.
Rank(status) ==
  CASE status = "absent" -> 0 [] status = "queued" -> 1
    [] status = "running" -> 2 [] status = "succeeded" -> 3

RunsGoForward ==
  [][faults = 0 => \A r \in Runs : /\ Rank(run[r].status) <= Rank(run'[r].status)
                                   /\ run[r].progress <= run'[r].progress
                                   /\ run[r].status = "succeeded" => run'[r] = run[r]]_vars

\* Unless something fails every accepted run succeeds.
RunsSucceed ==
  \A r \in Runs : request[r] = "answered" ~> (run[r].status = "succeeded" \/ faults > 0)

\* 开发规则.md: progress and products must be pushed as events. Without faults,
\* the task node of an accepted run comes to show its success.
SuccessIsShown == \A r \in Runs : request[r] = "answered" ~> node[r].status = "succeeded"

\* 开发规则.md: a failure is visible and can be retried. The run of a failed
\* job comes to be marked failed.
FailureIsVisible == \A r \in Runs : job[r] = "failed" ~> run[r].status \in Finished
=============================================================================
