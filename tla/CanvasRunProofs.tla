---------------------------- MODULE CanvasRunProofs ----------------------------
(****************************************************************************)
(* The safety of canvas runs for any number of runs, workers, progress      *)
(* reports, repetitions and faults. Two invariants carry it. Tracked ties a *)
(* worker to the queue: who executes a run holds its job, and a job that    *)
(* waits was given out no more often than it was found stalled. Backed ties *)
(* every announcement to what it announces: from the asset to the output of *)
(* the row, to the event in the log, to the copy of it on the wire.         *)
(****************************************************************************)
EXTENDS CanvasRun, TLAPS, FiniteSetTheorems

Points01 == {"idle", "taken", "running", "waiting", "advanced", "stored",
             "announced", "succeeded", "done"}

\* What the steps below need of the types.
Typed ==
  /\ request \in [Runs -> {"none", "adding", "answered", "failed"}]
  /\ job \in [Runs -> {"none", "waiting", "active", "completed", "failed"}]
  /\ stalls \in [Runs -> Nat]
  /\ attempts \in [Runs -> Nat]
  /\ assets \in [Runs -> Nat]
  /\ worker \in [Workers -> [run : Runs \union {NoRun}, at : Points01, step : Nat]]
  /\ \A w \in Workers : worker[w].run = NoRun <=> worker[w].at = "idle"

\* Until the request is answered there is no job, and who executes a run holds
\* its job, alone.
Held ==
  /\ \A r \in Runs : request[r] # "answered" => job[r] = "none"
  /\ \A w \in Workers, r \in Runs : worker[w].run = r => job[r] = "active"
  /\ \A v, w \in Workers, r \in Runs : worker[v].run = r /\ worker[w].run = r => v = w

\* How often a job was given out follows from how often it was found stalled.
Counted ==
  \A r \in Runs :
    /\ attempts[r] <= MaxStalls + 1 /\ stalls[r] <= MaxStalls + 1
    /\ job[r] = "none" => attempts[r] = 0 /\ stalls[r] = 0
    /\ job[r] = "waiting" => attempts[r] <= stalls[r] /\ stalls[r] <= MaxStalls
    /\ job[r] = "active" => attempts[r] <= stalls[r] + 1 /\ stalls[r] <= MaxStalls

\* An attempt that has not stored its asset yet still has one to its credit.
Credit ==
  \A r \in Runs :
    /\ assets[r] <= attempts[r]
    /\ \A w \in Workers :
         worker[w].run = r /\ worker[w].at \in {"taken", "running", "waiting", "advanced"}
           => assets[r] + 1 <= attempts[r]

Tracked == Typed /\ Held /\ Counted /\ Credit

----------------------------------------------------------------------------

LEMMA InitTracked == Init => Tracked
BY NoRunIsNoRun, BoundsAreNat DEF Init, Tracked, Typed, Held, Counted, Credit, Idle, Points01

\* The steps that leave the queue and the workers alone.
QueueVars == <<request, job, stalls, attempts, assets, worker>>

LEMMA OtherTracked == Tracked /\ UNCHANGED QueueVars => Tracked'
BY DEF Tracked, Typed, Held, Counted, Credit, QueueVars

\* Worker w goes to another point of the run it executes.
At(w, to) ==
  /\ worker' \in [Workers -> [run : Runs \union {NoRun}, at : Points01, step : Nat]]
  /\ \A v \in Workers : v # w => worker'[v] = worker[v]
  /\ worker'[w].run = worker[w].run
  /\ worker'[w].at = to

LEMMA AtTracked ==
  ASSUME Tracked, NEW w \in Workers, NEW to \in Points01 \ {"idle"}, At(w, to),
         worker[w].at # "idle",
         to \in {"taken", "running", "waiting", "advanced"} =>
           worker[w].at \in {"taken", "running", "waiting", "advanced"},
         UNCHANGED <<request, job, stalls, attempts, assets>>
  PROVE  Tracked'
<1>1. \A v \in Workers : worker'[v].run = worker[v].run
    BY DEF At
<1>2. Typed'
    BY <1>1 DEF Tracked, Typed, At
<1>3. Held'
    BY <1>1 DEF Tracked, Held
<1>4. Counted'
    BY DEF Tracked, Counted
<1>5. Credit'
    BY <1>1 DEF Tracked, Credit, At
<1> QED
    BY <1>2, <1>3, <1>4, <1>5 DEF Tracked

LEMMA GoesAt ==
  ASSUME Typed, NEW w \in Workers, NEW from, NEW to \in Points01, Goes(w, from, to)
  PROVE  At(w, to) /\ worker[w].at = from /\ UNCHANGED <<request, job, stalls, attempts>>
<1>1. worker' = [worker EXCEPT ![w] = [worker[w] EXCEPT !.at = to]]
    BY DEF Goes
<1>2. worker[w] \in [run : Runs \union {NoRun}, at : Points01, step : Nat]
    BY DEF Typed
<1>3. [worker[w] EXCEPT !.at = to] = [run |-> worker[w].run, at |-> to, step |-> worker[w].step]
    BY <1>2
<1> QED
    BY <1>1, <1>2, <1>3 DEF Typed, At, Goes, queue

LEMMA NextTracked == Tracked /\ Next => Tracked'
<1> SUFFICES ASSUME Tracked, Next PROVE Tracked'
    OBVIOUS
<1> USE DEF store, queue, client
<1>1. CASE \E r \in Runs : CreateRun(r) \/ AddJob(r) \/ LoseRequest(r)
  <2> PICK r \in Runs : CreateRun(r) \/ AddJob(r) \/ LoseRequest(r)
      BY <1>1
  <2>1. /\ UNCHANGED <<stalls, attempts, assets, worker>>
        /\ request[r] \in {"none", "adding"}
        /\ \/ request' = [request EXCEPT ![r] = "adding"] /\ job' = job
           \/ request' = [request EXCEPT ![r] = "answered"] /\ job' = [job EXCEPT ![r] = "waiting"]
           \/ request' = [request EXCEPT ![r] = "failed"] /\ job' = job
      BY DEF CreateRun, AddJob, LoseRequest
  <2>2. job[r] = "none"
      BY <2>1 DEF Tracked, Held
  <2>3. Typed'
      BY <2>1 DEF Tracked, Typed
  <2>4. Held'
      BY <2>1, <2>2 DEF Tracked, Typed, Held
  <2>5. Counted'
      BY <2>1, <2>2, BoundsAreNat DEF Tracked, Typed, Counted
  <2>6. Credit'
      BY <2>1 DEF Tracked, Credit
  <2> QED
      BY <2>3, <2>4, <2>5, <2>6 DEF Tracked
<1>2. CASE \E r \in Runs : Show(r) \/ Drop(r)
  <2>1. UNCHANGED QueueVars
      BY <1>2 DEF Show, Connect, Poll, Receive, Rerender, Drop, QueueVars
  <2> QED
      BY <2>1, OtherTracked
<1>3. CASE \E r \in Runs : Stalled(r)
  <2> PICK r \in Runs : Stalled(r)
      BY <1>3
  <2>1. /\ UNCHANGED <<request, assets, attempts, worker>>
        /\ job[r] = "active" /\ \A w \in Workers : worker[w].run # r
        /\ stalls' = [stalls EXCEPT ![r] = @ + 1]
        /\ job' = [job EXCEPT ![r] = IF stalls[r] < MaxStalls THEN "waiting" ELSE "failed"]
      BY DEF Stalled
  <2>2. Typed'
      BY <2>1 DEF Tracked, Typed
  <2>3. Held'
      BY <2>1 DEF Tracked, Typed, Held
  <2>4. Counted'
      BY <2>1, BoundsAreNat DEF Tracked, Typed, Counted
  <2>5. Credit'
      BY <2>1 DEF Tracked, Credit
  <2> QED
      BY <2>2, <2>3, <2>4, <2>5 DEF Tracked
<1>4. CASE \E w \in Workers, r \in Runs : Take(w, r)
  <2> PICK w \in Workers, r \in Runs : Take(w, r)
      BY <1>4
  <2>1. /\ UNCHANGED <<request, assets, stalls>>
        /\ worker[w] = Idle /\ job[r] = "waiting"
        /\ job' = [job EXCEPT ![r] = "active"]
        /\ attempts' = [attempts EXCEPT ![r] = @ + 1]
        /\ worker' = [worker EXCEPT ![w] = [run |-> r, at |-> "taken", step |-> 0]]
      BY DEF Take
  <2>2. \A v \in Workers : worker[v].run # r
      BY <2>1 DEF Tracked, Held
  <2>3. Typed'
      BY <2>1, NoRunIsNoRun DEF Tracked, Typed, Points01
  <2>4. Held'
      BY <2>1, <2>2, NoRunIsNoRun DEF Tracked, Typed, Held, Idle
  <2>5. Counted'
      BY <2>1, BoundsAreNat DEF Tracked, Typed, Counted
  <2>6. Credit'
      BY <2>1, <2>2, NoRunIsNoRun DEF Tracked, Typed, Credit
  <2> QED
      BY <2>3, <2>4, <2>5, <2>6 DEF Tracked
<1>5. CASE \E w \in Workers : Complete(w) \/ Throw(w) \/ Crash(w)
  <2> PICK w \in Workers : Complete(w) \/ Throw(w) \/ Crash(w)
      BY <1>5
  <2>1. /\ UNCHANGED <<request, assets, stalls, attempts>>
        /\ worker' = [worker EXCEPT ![w] = Idle]
        /\ \/ job' = job
           \/ worker[w].at # "idle" /\ \E end \in {"completed", "failed"} :
                job' = [job EXCEPT ![worker[w].run] = end]
      BY DEF Complete, Throw, Crash
  <2>2. CASE job' = job
    <3>1. Typed'
        BY <2>1, <2>2 DEF Tracked, Typed, Idle, Points01
    <3>2. Held'
        BY <2>1, <2>2, NoRunIsNoRun DEF Tracked, Typed, Held, Idle
    <3>3. Counted'
        BY <2>1, <2>2 DEF Tracked, Counted
    <3>4. Credit'
        BY <2>1, <2>2, NoRunIsNoRun DEF Tracked, Typed, Credit, Idle
    <3> QED
        BY <3>1, <3>2, <3>3, <3>4 DEF Tracked
  <2>3. CASE job' # job
    <3> DEFINE r == worker[w].run
    <3> PICK end \in {"completed", "failed"} : job' = [job EXCEPT ![r] = end]
        BY <2>1, <2>3
    <3>1. r \in Runs /\ job[r] = "active"
        BY <2>1, <2>3 DEF Tracked, Typed, Held
    <3>2. \A v \in Workers : worker[v].run = r => v = w
        BY <3>1 DEF Tracked, Held
    <3>3. Typed'
        BY <2>1, <3>1 DEF Tracked, Typed, Idle, Points01
    <3>4. Held'
        BY <2>1, <3>1, <3>2, NoRunIsNoRun DEF Tracked, Typed, Held, Idle
    <3>5. Counted'
        BY <2>1, <3>1 DEF Tracked, Typed, Counted
    <3>6. Credit'
        BY <2>1, NoRunIsNoRun DEF Tracked, Typed, Credit, Idle
    <3> QED
        BY <3>3, <3>4, <3>5, <3>6 DEF Tracked
  <2> QED
      BY <2>2, <2>3
<1>6. CASE \E w \in Workers : Handle(w) /\ ~Complete(w)
  <2> PICK w \in Workers : Handle(w) /\ ~Complete(w)
      BY <1>6
  <2>1. Typed
      BY DEF Tracked
  <2>2. ASSUME NEW from \in Points01 \ {"idle"}, NEW to \in Points01 \ {"idle"}, Goes(w, from, to),
               assets' = assets,
               to \in {"taken", "running", "waiting", "advanced"} =>
                 from \in {"taken", "running", "waiting", "advanced"}
        PROVE  Tracked'
    <3>1. At(w, to) /\ worker[w].at = from /\ UNCHANGED <<request, job, stalls, attempts>>
        BY <2>1, <2>2, GoesAt
    <3> QED
        BY <2>2, <3>1, AtTracked
  <2>3. CASE MarkRunning(w)
      BY <2>2, <2>3, Zenon DEF MarkRunning, Points01
  <2>4. CASE AnnounceStart(w)
      BY <2>2, <2>4, Zenon DEF AnnounceStart, Points01
  <2>5. CASE Advance(w)
      BY <2>2, <2>5, Zenon DEF Advance, Points01
  <2>6. CASE AnnounceAsset(w)
      BY <2>2, <2>6, Zenon DEF AnnounceAsset, Points01
  <2>7. CASE MarkSucceeded(w)
      BY <2>2, <2>7, Zenon DEF MarkSucceeded, Points01
  <2>8. CASE AnnounceSuccess(w)
      BY <2>2, <2>8, Zenon DEF AnnounceSuccess, Points01
  <2>9. CASE ReportProgress(w)
    <3>2. worker[w] \in [run : Runs \union {NoRun}, at : Points01, step : Nat]
        BY <2>1 DEF Typed
    <3> DEFINE waits == [run |-> worker[w].run, at |-> "waiting", step |-> worker[w].step]
    <3>1. worker' = [worker EXCEPT ![w] = [waits EXCEPT !.step = @ + 1]]
      <4>1. waits = [worker[w] EXCEPT !.at = "waiting"]
          BY <3>2
      <4> HIDE DEF waits
      <4> QED
          BY <2>9, <4>1 DEF ReportProgress
    <3>3. [waits EXCEPT !.step = @ + 1]
             = [run |-> worker[w].run, at |-> "waiting", step |-> worker[w].step + 1]
        BY <3>2
    <3> HIDE DEF waits
    <3>4. "waiting" \in Points01 \ {"idle"}
        BY DEF Points01
    <3>5. At(w, "waiting")
        BY <2>1, <3>1, <3>2, <3>3, <3>4 DEF Typed, At
    <3>6. worker[w].at = "advanced" /\ UNCHANGED <<request, job, stalls, attempts, assets>>
        BY <2>9 DEF ReportProgress
    <3> QED
        BY <3>4, <3>5, <3>6, AtTracked
  <2>10. CASE InsertAsset(w)
    <3> DEFINE r == worker[w].run
    <3>1. /\ At(w, "stored") /\ worker[w].at = "waiting"
          /\ UNCHANGED <<request, job, stalls, attempts>>
        BY <2>1, <2>10, GoesAt DEF InsertAsset, Points01
    <3>2. assets' = [assets EXCEPT ![r] = @ + 1]
        BY <2>10 DEF InsertAsset
    <3>3. r \in Runs
        BY <2>1, <3>1 DEF Typed
    <3>4. \A v \in Workers : worker'[v].run = worker[v].run
        BY <3>1 DEF At
    <3>5. \A v \in Workers : worker[v].run = r => v = w
        BY <3>3 DEF Tracked, Held
    <3>6. Typed'
        BY <2>1, <3>1, <3>2, <3>3, <3>4 DEF Typed, At
    <3>7. Held'
        BY <3>1, <3>4 DEF Tracked, Held
    <3>8. Counted'
        BY <3>1 DEF Tracked, Counted
    <3>9. Credit'
        BY <2>1, <3>1, <3>2, <3>3, <3>4, <3>5 DEF Tracked, Typed, Credit, At
    <3> QED
        BY <3>6, <3>7, <3>8, <3>9 DEF Tracked
  <2> QED
      BY <2>3, <2>4, <2>5, <2>6, <2>7, <2>8, <2>9, <2>10 DEF Handle
<1> QED
    BY <1>1, <1>2, <1>3, <1>4, <1>5, <1>6 DEF Next

LEMMA TrackedStep == Tracked /\ [Next]_vars => Tracked'
BY NextTracked, OtherTracked DEF vars, store, queue, client, QueueVars

LEMMA AlwaysTracked == Spec => []Tracked
BY InitTracked, TrackedStep, PTL DEF Spec

\* However many workers die, and whatever fails, the queue gives a run out at
\* most MaxStalls + 1 times, never to two workers at once, and an attempt adds
\* at most one asset.
THEOREM AttemptsStayBounded == Spec => []AttemptsAreBounded
<1>1. Tracked => AttemptsAreBounded
    BY DEF Tracked, Held, Counted, Credit, AttemptsAreBounded
<1> QED
    BY <1>1, AlwaysTracked, PTL

----------------------------------------------------------------------------
(* What is announced is there. *)

Event == [type : {"run.created", "run.started", "run.progress", "asset.created", "run.succeeded"},
          at : Nat, progress : 0..Points]
Row   == [status : {"absent", "queued", "running", "succeeded"}, progress : 0..Points + 1,
          output : Nat]
Shown == [status : {"idle", "queued", "running", "succeeded"}, progress : 0..Points + 1]
Wired == [open : BOOLEAN, cursor : Nat, wire : Seq(Event),
          status : {"idle", "queued", "running", "succeeded"}]

DataTyped ==
  /\ run \in [Runs -> Row]
  /\ log \in [Runs -> Seq(Event)]
  /\ node \in [Runs -> Shown]
  /\ stream \in [Runs -> Wired]
  /\ faults \in 0..MaxFaults

\* Events that announce a success have an output behind them.
HasOutput(r) == run[r].output > 0
Honest(events, r) ==
  \A i \in 1..Len(events) : events[i].type = "run.succeeded" => HasOutput(r)

RowsBacked ==
  \A r \in Runs : /\ run[r].output <= assets[r]
                  /\ run[r].status = "succeeded" => HasOutput(r)

EventsBacked ==
  \A r \in Runs : /\ Honest(log[r], r)
                  /\ Honest(stream[r].wire, r)
                  /\ node[r].status = "succeeded" => HasOutput(r)
                  /\ stream[r].cursor <= Latest(log[r])

StepsBacked ==
  \A w \in Workers :
    /\ worker[w].step <= Points
    /\ worker[w].at = "idle" => worker[w].step = 0
    /\ worker[w].at = "advanced" => worker[w].step < Points
    /\ worker[w].at \in {"stored", "announced"} => assets[worker[w].run] > 0
    /\ worker[w].at = "succeeded" => HasOutput(worker[w].run)

Backed == DataTyped /\ RowsBacked /\ EventsBacked /\ StepsBacked

LEMMA InitBacked == Init => Backed
<1> SUFFICES ASSUME Init PROVE Backed
    OBVIOUS
<1> USE BoundsAreNat DEF Init
<1>1. DataTyped
  <2>1. run \in [Runs -> Row] /\ node \in [Runs -> Shown] /\ faults \in 0..MaxFaults
      BY DEF Row, Shown
  <2>2. <<>> \in Seq(Event)
      OBVIOUS
  <2>3. Closed \in Wired
      BY <2>2 DEF Closed, Wired
  <2> QED
      BY <2>1, <2>2, <2>3 DEF DataTyped
<1>2. RowsBacked
    BY DEF RowsBacked, HasOutput
<1>3. EventsBacked
    BY DEF EventsBacked, Honest, HasOutput, Closed, Latest
<1>4. StepsBacked
    BY DEF StepsBacked, Idle
<1> QED
    BY <1>1, <1>2, <1>3, <1>4 DEF Backed

LEMMA LatestIsNat == ASSUME NEW s \in Seq(Event) PROVE Latest(s) \in Nat
<1>1. CASE s = <<>>
    BY <1>1 DEF Latest
<1>2. CASE s # <<>>
  <2>1. Len(s) \in 1..Len(s)
      BY <1>2
  <2>2. s[Len(s)] \in Event
      BY <2>1
  <2> QED
      BY <1>2, <2>2 DEF Latest, Event
<1> QED
    BY <1>1, <1>2

\* An event put at the end of the log of run r.
LogGrows(r, e) ==
  /\ log' \in [Runs -> Seq(Event)]
  /\ \A q \in Runs : Latest(log[q]) <= Latest(log'[q])
  /\ \A q \in Runs : \A i \in 1..Len(log'[q]) :
       \/ i \in 1..Len(log[q]) /\ log'[q][i] = log[q][i]
       \/ q = r /\ log'[q][i] = e

LEMMA Appended ==
  ASSUME DataTyped, NEW r \in Runs, NEW e \in Event, e.at >= Latest(log[r]),
         log' = [log EXCEPT ![r] = Append(@, e)]
  PROVE  LogGrows(r, e)
<1> DEFINE s == log[r]
<1>1. s \in Seq(Event) /\ log'[r] = Append(s, e) /\ \A q \in Runs : q # r => log'[q] = log[q]
    BY DEF DataTyped
<1>2. /\ Append(s, e) \in Seq(Event) /\ Len(Append(s, e)) = Len(s) + 1
      /\ Append(s, e)[Len(s) + 1] = e /\ Append(s, e) # <<>>
      /\ \A i \in 1..Len(s) : Append(s, e)[i] = s[i]
    BY <1>1
<1>3. Latest(log'[r]) = e.at
    BY <1>1, <1>2 DEF Latest
<1>4. \A q \in Runs : Latest(log[q]) \in Nat
    BY LatestIsNat DEF DataTyped
<1>5. \A q \in Runs : Latest(log[q]) <= Latest(log'[q])
    BY <1>1, <1>3, <1>4
<1>6. log' \in [Runs -> Seq(Event)]
    BY <1>1, <1>2 DEF DataTyped
<1>7. Len(s) \in Nat
    BY <1>1
<1>8. ASSUME NEW q \in Runs, NEW i \in 1..Len(log'[q])
      PROVE  \/ i \in 1..Len(log[q]) /\ log'[q][i] = log[q][i]
             \/ q = r /\ log'[q][i] = e
  <2>1. CASE q = r
      BY <1>1, <1>2, <1>7, <1>8, <2>1
  <2>2. CASE q # r
      BY <1>1, <1>8, <2>2
  <2> QED
      BY <2>1, <2>2
<1> QED
    BY <1>5, <1>6, <1>8 DEF LogGrows

LEMMA EventAppended ==
  ASSUME DataTyped, NEW r \in Runs, NEW type, AppendEvent(r, type),
         type \in {"run.created", "run.started", "asset.created", "run.succeeded"}
  PROVE  \E e \in Event : /\ e.type = type /\ e.at >= Latest(log[r])
                          /\ log' = [log EXCEPT ![r] = Append(@, e)]
<1> PICK at \in {Latest(log[r]), Latest(log[r]) + 1} \ {0} : AppendEventAt(r, type, 0, at)
    BY DEF AppendEvent
<1>2. Latest(log[r]) \in Nat
    BY LatestIsNat DEF DataTyped
<1>3. [type |-> type, at |-> at, progress |-> 0] \in Event
    BY <1>2, BoundsAreNat DEF Event
<1>4. at >= Latest(log[r])
    BY <1>2
<1> QED
    BY <1>3, <1>4 DEF AppendEventAt

\* The workers: those that were not begun or given up keep what they have.
LEMMA StepsKept ==
  ASSUME Tracked, StepsBacked, assets' \in [Runs -> Nat],
         \A q \in Runs : assets[q] <= assets'[q] /\ (HasOutput(q) => HasOutput(q)'),
         NEW S \in SUBSET Workers,
         \A v \in Workers \ S : worker'[v] = worker[v],
         \A v \in S : /\ worker'[v].step <= Points
                      /\ worker'[v].at = "idle" => worker'[v].step = 0
                      /\ worker'[v].at = "advanced" => worker'[v].step < Points
                      /\ worker'[v].at \in {"stored", "announced"} => assets'[worker'[v].run] > 0
                      /\ worker'[v].at = "succeeded" =>
                           worker'[v].run = worker[v].run /\ HasOutput(worker[v].run)'
  PROVE  StepsBacked'
<1> SUFFICES ASSUME NEW v \in Workers \ S
             PROVE  /\ worker'[v].step <= Points
                    /\ worker'[v].at = "idle" => worker'[v].step = 0
                    /\ worker'[v].at = "advanced" => worker'[v].step < Points
                    /\ worker'[v].at \in {"stored", "announced"} => assets'[worker'[v].run] > 0
                    /\ worker'[v].at = "succeeded" => HasOutput(worker[v].run)'
    BY DEF StepsBacked, HasOutput
<1>1. worker'[v] = worker[v] /\ (worker[v].at # "idle" => worker[v].run \in Runs)
    BY DEF Tracked, Typed
<1>2. worker[v].run \in Runs => assets[worker[v].run] \in Nat /\ assets'[worker[v].run] \in Nat
    BY DEF Tracked, Typed
<1> QED
    BY <1>1, <1>2 DEF StepsBacked

\* A step that leaves the rows, the log and the browsers alone.
LEMMA WorkerBacked ==
  ASSUME Backed, Tracked, UNCHANGED <<store, client>>, faults' \in 0..MaxFaults,
         \A v \in Workers : \/ worker'[v] = worker[v]
                            \/ worker'[v].step = 0 /\ worker'[v].at \in {"idle", "taken"}
  PROVE  Backed'
<1> USE DEF store, client
<1>1. DataTyped'
    BY DEF Backed, DataTyped
<1>2. RowsBacked'
    BY DEF Backed, RowsBacked, HasOutput
<1>3. EventsBacked'
    BY DEF Backed, EventsBacked, Honest, HasOutput
<1>4. StepsBacked'
  <2> DEFINE S == {v \in Workers : worker'[v] # worker[v]}
  <2>1. assets' \in [Runs -> Nat] /\ \A q \in Runs : assets[q] <= assets'[q]
      BY DEF Tracked, Typed
  <2>2. \A q \in Runs : HasOutput(q) => HasOutput(q)'
      BY DEF HasOutput
  <2>3. \A v \in S : worker'[v].step = 0 /\ worker'[v].at \in {"idle", "taken"}
      OBVIOUS
  <2>4. S \in SUBSET Workers /\ \A v \in Workers \ S : worker'[v] = worker[v]
      OBVIOUS
  <2>5. StepsBacked
      BY DEF Backed
  <2>6. 0 <= Points
      BY BoundsAreNat
  <2> HIDE DEF S
  <2>7. \A v \in S : /\ worker'[v].step <= Points
                     /\ worker'[v].at = "idle" => worker'[v].step = 0
                     /\ worker'[v].at = "advanced" => worker'[v].step < Points
                     /\ worker'[v].at \in {"stored", "announced"} => assets'[worker'[v].run] > 0
                     /\ worker'[v].at = "succeeded" =>
                          worker'[v].run = worker[v].run /\ HasOutput(worker[v].run)'
      BY <2>3, <2>6
  <2> QED
      BY <2>1, <2>2, <2>4, <2>5, <2>7, StepsKept
<1> QED
    BY <1>1, <1>2, <1>3, <1>4 DEF Backed

\* A row changes, or an asset is added.
LEMMA RowBacked ==
  ASSUME Backed, UNCHANGED <<log, client, faults>>, run' \in [Runs -> Row],
         \A q \in Runs : /\ run'[q].output <= assets'[q]
                         /\ run'[q].status = "succeeded" => HasOutput(q)'
                         /\ HasOutput(q) => HasOutput(q)'
  PROVE  DataTyped' /\ RowsBacked' /\ EventsBacked'
<1> USE DEF client
<1>1. DataTyped'
    BY DEF Backed, DataTyped
<1>2. RowsBacked'
    BY DEF RowsBacked
<1>3. EventsBacked'
    BY DEF Backed, EventsBacked, Honest
<1> QED
    BY <1>1, <1>2, <1>3

\* The browser's side of run r.
LEMMA ClientBacked ==
  ASSUME Backed, UNCHANGED <<store, worker>>, faults' \in 0..MaxFaults, NEW r \in Runs,
         NEW n \in Shown, NEW s \in Wired,
         node' = [node EXCEPT ![r] = n], stream' = [stream EXCEPT ![r] = s],
         n.status = "succeeded" => HasOutput(r), Honest(s.wire, r), s.cursor <= Latest(log[r])
  PROVE  Backed'
<1> USE DEF store
<1>1. DataTyped'
    BY DEF Backed, DataTyped
<1>2. RowsBacked'
    BY DEF Backed, RowsBacked, HasOutput
<1>3. EventsBacked'
    BY DEF Backed, DataTyped, EventsBacked, Honest, HasOutput
<1>4. StepsBacked'
    BY DEF Backed, StepsBacked, HasOutput
<1> QED
    BY <1>1, <1>2, <1>3, <1>4 DEF Backed

\* An event is stored for run r.
LEMMA LogBacked ==
  ASSUME Backed, UNCHANGED <<client, assets, faults>>, NEW r \in Runs, NEW e \in Event,
         run' \in [Runs -> Row], e.at >= Latest(log[r]),
         log' = [log EXCEPT ![r] = Append(@, e)],
         \A q \in Runs : run'[q].output = run[q].output,
         \A q \in Runs : run'[q].status = "succeeded" => run[q].status = "succeeded",
         e.type = "run.succeeded" => HasOutput(r)
  PROVE  DataTyped' /\ RowsBacked' /\ EventsBacked'
<1> USE DEF client
<1>1. DataTyped
    BY DEF Backed
<1>2. /\ log' \in [Runs -> Seq(Event)]
      /\ \A q \in Runs : Latest(log[q]) <= Latest(log'[q])
      /\ \A q \in Runs : \A i \in 1..Len(log'[q]) :
           \/ i \in 1..Len(log[q]) /\ log'[q][i] = log[q][i]
           \/ q = r /\ log'[q][i] = e
  <2>1. LogGrows(r, e)
      BY <1>1, Appended
  <2> QED
      BY <2>1 DEF LogGrows
<1>3. DataTyped'
    BY <1>1, <1>2 DEF DataTyped
<1>4. RowsBacked'
    BY DEF Backed, RowsBacked, HasOutput
<1>5. ASSUME NEW q \in Runs PROVE Honest(log[q], q)'
    BY <1>2 DEF Backed, EventsBacked, Honest, HasOutput
<1>6. ASSUME NEW q \in Runs
      PROVE  Honest(stream[q].wire, q)' /\ (node[q].status = "succeeded" => HasOutput(q))'
    BY DEF Backed, EventsBacked, Honest, HasOutput
<1>7. ASSUME NEW q \in Runs PROVE stream'[q].cursor <= Latest(log'[q])
  <2>1. /\ stream[q].cursor \in Nat /\ stream'[q] = stream[q]
        /\ stream[q].cursor <= Latest(log[q]) /\ Latest(log[q]) <= Latest(log'[q])
      BY <1>1, <1>2 DEF Backed, DataTyped, EventsBacked, Wired
  <2>2. Latest(log[q]) \in Nat /\ Latest(log'[q]) \in Nat
      BY <1>1, <1>2, LatestIsNat DEF DataTyped
  <2> QED
      BY <2>1, <2>2
<1> QED
    BY <1>3, <1>4, <1>5, <1>6, <1>7 DEF EventsBacked

\* A worker that goes on, with what its new point asks for.
LEMMA GoesBacked ==
  ASSUME Backed, Tracked, assets' \in [Runs -> Nat],
         \A q \in Runs : assets[q] <= assets'[q] /\ (HasOutput(q) => HasOutput(q)'),
         NEW w \in Workers, NEW from, NEW to \in Points01 \ {"idle"}, Goes(w, from, to),
         to = "advanced" => worker[w].step < Points,
         to \in {"stored", "announced"} => assets'[worker[w].run] > 0,
         to = "succeeded" => HasOutput(worker[w].run)'
  PROVE  StepsBacked'
<1>1. worker' = [worker EXCEPT ![w] = [worker[w] EXCEPT !.at = to]]
    BY DEF Goes
<1>2. worker[w] \in [run : Runs \union {NoRun}, at : Points01, step : Nat]
    BY DEF Tracked, Typed
<1>3. [worker[w] EXCEPT !.at = to] = [run |-> worker[w].run, at |-> to, step |-> worker[w].step]
    BY <1>2
<1>4. /\ worker'[w].run = worker[w].run
      /\ worker'[w].at = to
      /\ worker'[w].step = worker[w].step
      /\ \A v \in Workers \ {w} : worker'[v] = worker[v]
    BY <1>1, <1>3 DEF Tracked, Typed
<1>5. StepsBacked /\ worker[w].step <= Points
    BY DEF Backed, StepsBacked
<1>6. \A v \in {w} : /\ worker'[v].step <= Points
                     /\ worker'[v].at = "idle" => worker'[v].step = 0
                     /\ worker'[v].at = "advanced" => worker'[v].step < Points
                     /\ worker'[v].at \in {"stored", "announced"} => assets'[worker'[v].run] > 0
                     /\ worker'[v].at = "succeeded" =>
                          worker'[v].run = worker[v].run /\ HasOutput(worker[v].run)'
    BY <1>4, <1>5
<1>7. {w} \in SUBSET Workers
    OBVIOUS
<1> QED
    BY <1>4, <1>5, <1>6, <1>7, StepsKept

LEMMA WorkersBacked ==
  ASSUME Backed, Tracked,
         \/ \E r \in Runs : LoseRequest(r) \/ Stalled(r)
         \/ \E w \in Workers : Complete(w) \/ Throw(w) \/ Crash(w)
         \/ \E w \in Workers, r \in Runs : Take(w, r)
  PROVE  Backed'
<1> USE DEF queue
<1>1. UNCHANGED <<store, client>>
    BY Zenon DEF LoseRequest, Stalled, Complete, Throw, Crash, Take, client
<1>2. faults' \in 0..MaxFaults
  <2>1. faults \in 0..MaxFaults
      BY DEF Backed, DataTyped
  <2>2. faults' = faults \/ (faults < MaxFaults /\ faults' = faults + 1)
      BY Zenon DEF LoseRequest, Stalled, Complete, Throw, Crash, Take, Fault
  <2> QED
      BY <2>1, <2>2, BoundsAreNat
<1>3. \/ worker' = worker
      \/ \E w \in Workers : worker' = [worker EXCEPT ![w] = Idle]
      \/ \E w \in Workers, r \in Runs :
           worker' = [worker EXCEPT ![w] = [run |-> r, at |-> "taken", step |-> 0]]
    BY Zenon DEF LoseRequest, Stalled, Complete, Throw, Crash, Take
<1>4. \A v \in Workers : \/ worker'[v] = worker[v]
                         \/ worker'[v].step = 0 /\ worker'[v].at \in {"idle", "taken"}
    BY <1>3 DEF Tracked, Typed, Idle
<1> QED
    BY <1>1, <1>2, <1>4, WorkerBacked

\* The rear part of a log is made of its events.
LEMMA LaterIsLogged ==
  ASSUME DataTyped, NEW r \in Runs, NEW cursor \in Nat, Later(r, cursor) # <<>>
  PROVE  /\ Later(r, cursor) \in Seq(Event)
         /\ \A i \in 1..Len(Later(r, cursor)) : \E j \in 1..Len(log[r]) : Later(r, cursor)[i] = log[r][j]
         /\ Latest(Later(r, cursor)) = Latest(log[r])
<1> DEFINE s    == log[r]
           past == {i \in DOMAIN s : s[i].at <= cursor}
           k    == Cardinality(past)
<1>1. s \in Seq(Event) /\ Len(s) \in Nat /\ DOMAIN s = 1..Len(s)
    BY DEF DataTyped
<1>2. k \in Nat
  <2>1. IsFiniteSet(1..Len(s))
      BY <1>1, FS_Interval
  <2>2. IsFiniteSet(past)
      BY <1>1, <2>1, FS_Subset
  <2> QED
      BY <2>2, FS_CardinalityType
<1>3. Later(r, cursor) = SubSeq(s, k + 1, Len(s))
    BY DEF Later
<1> HIDE DEF k, past
<1>4. k < Len(s)
    BY <1>1, <1>2, <1>3
<1>5. /\ SubSeq(s, k + 1, Len(s)) \in Seq(Event)
      /\ Len(SubSeq(s, k + 1, Len(s))) = Len(s) - k
      /\ \A i \in 1..Len(s) - k : SubSeq(s, k + 1, Len(s))[i] = s[k + i]
    BY <1>1, <1>2, <1>4
<1>6. ASSUME NEW i \in 1..Len(s) - k PROVE k + i \in 1..Len(s)
    BY <1>1, <1>2, <1>4
<1>7. SubSeq(s, k + 1, Len(s))[Len(s) - k] = s[Len(s)] /\ s # <<>>
    BY <1>1, <1>2, <1>4, <1>5
<1> HIDE DEF s
<1>8. \A i \in 1..Len(Later(r, cursor)) : \E j \in 1..Len(s) : Later(r, cursor)[i] = s[j]
    BY <1>3, <1>5, <1>6
<1>9. Latest(Later(r, cursor)) = Latest(s)
    BY <1>3, <1>5, <1>7 DEF Latest
<1> QED
    BY <1>3, <1>5, <1>8, <1>9 DEF s

LEMMA HonestConcat ==
  ASSUME NEW r \in Runs, NEW s \in Seq(Event), NEW t \in Seq(Event), Honest(s, r), Honest(t, r)
  PROVE  Honest(s \o t, r)
<1>1. \A i \in 1..Len(s \o t) : \/ i \in 1..Len(s) /\ (s \o t)[i] = s[i]
                                \/ i - Len(s) \in 1..Len(t) /\ (s \o t)[i] = t[i - Len(s)]
    OBVIOUS
<1> QED
    BY <1>1 DEF Honest

LEMMA BrowsersBacked ==
  ASSUME Backed, Tracked, NEW r \in Runs, AddJob(r) \/ Show(r) \/ Drop(r)
  PROVE  Backed'
<1>1. /\ node[r] \in Shown /\ stream[r] \in Wired /\ log[r] \in Seq(Event)
      /\ node = [node EXCEPT ![r] = node[r]] /\ stream = [stream EXCEPT ![r] = stream[r]]
    BY DEF Backed, DataTyped
<1>2. /\ node[r].status = "succeeded" => HasOutput(r)
      /\ Honest(log[r], r) /\ Honest(stream[r].wire, r) /\ stream[r].cursor <= Latest(log[r])
    BY DEF Backed, EventsBacked
<1>3. Latest(log[r]) \in Nat
    BY <1>1, LatestIsNat
<1>4. faults \in 0..MaxFaults
    BY DEF Backed, DataTyped
<1>5. Closed \in Wired /\ Honest(Closed.wire, r) /\ Closed.cursor <= Latest(log[r])
  <2>1. <<>> \in Seq(Event)
      OBVIOUS
  <2> QED
      BY <1>3, <2>1 DEF Closed, Wired, Honest
<1>6. ASSUME NEW s \in Wired, stream' = [stream EXCEPT ![r] = s], Honest(s.wire, r),
             s.cursor <= Latest(log[r]), node' = node, UNCHANGED <<store, worker>>,
             faults' \in 0..MaxFaults
      PROVE  Backed'
  <2>1. node' = [node EXCEPT ![r] = node[r]]
      BY <1>1, <1>6
  <2> QED
      BY <1>1, <1>2, <1>6, <2>1, ClientBacked
<1>7. CASE AddJob(r)
  <2> DEFINE n == [status |-> "queued", progress |-> node[r].progress]
  <2>1. n \in Shown /\ n = [node[r] EXCEPT !.status = "queued"] /\ n.status # "succeeded"
      BY <1>1 DEF Shown
  <2> HIDE DEF n
  <2>2. node' = [node EXCEPT ![r] = n] /\ stream' = [stream EXCEPT ![r] = stream[r]]
      BY <1>1, <1>7, <2>1 DEF AddJob
  <2>3. UNCHANGED <<store, worker>> /\ faults' \in 0..MaxFaults
      BY <1>4, <1>7 DEF AddJob
  <2> QED
      BY <1>1, <1>2, <2>1, <2>2, <2>3, ClientBacked
<1>8. CASE Connect(r)
  <2> DEFINE s == [open |-> TRUE, cursor |-> Latest(log[r]), wire |-> log[r], status |-> node[r].status]
  <2>1. s \in Wired /\ s.wire = log[r] /\ s.cursor = Latest(log[r])
      BY <1>1, <1>3 DEF Wired, Shown
  <2> HIDE DEF s
  <2>2. stream' = [stream EXCEPT ![r] = s] /\ node' = node /\ UNCHANGED <<store, worker>> /\ faults' = faults
      BY <1>8 DEF Connect, s
  <2>3. Honest(s.wire, r) /\ s.cursor <= Latest(log[r]) /\ faults' \in 0..MaxFaults
      BY <1>2, <1>3, <1>4, <2>1, <2>2
  <2> QED
      BY <1>6, <2>1, <2>2, <2>3
<1>9. CASE Poll(r)
  <2> DEFINE news == Later(r, stream[r].cursor)
             s == [open |-> stream[r].open, cursor |-> Latest(news),
                   wire |-> stream[r].wire \o news, status |-> stream[r].status]
  <2>1. stream[r].cursor \in Nat /\ stream[r].wire \in Seq(Event) /\ news # <<>>
      BY <1>1, <1>9 DEF Wired, Poll
  <2>2. /\ news \in Seq(Event)
        /\ \A i \in 1..Len(news) : \E j \in 1..Len(log[r]) : news[i] = log[r][j]
        /\ Latest(news) = Latest(log[r])
      BY <2>1, LaterIsLogged DEF Backed
  <2> DEFINE sent == [open |-> stream[r].open, cursor |-> Latest(news),
                      wire |-> stream[r].wire, status |-> stream[r].status]
  <2>3. sent = [stream[r] EXCEPT !.cursor = Latest(news)]
           /\ s = [sent EXCEPT !.wire = stream[r].wire \o news] /\ sent.wire = stream[r].wire
    <3>1. /\ sent \in Wired /\ sent.open = stream[r].open /\ sent.cursor = Latest(news)
          /\ sent.wire = stream[r].wire /\ sent.status = stream[r].status
        BY <1>1, <1>3, <2>2 DEF Wired
    <3> HIDE DEF news
    <3>2. sent = [stream[r] EXCEPT !.cursor = Latest(news)]
        BY <1>1 DEF Wired
    <3> HIDE DEF sent
    <3> DEFINE both == stream[r].wire \o news
    <3>3. s = [sent EXCEPT !.wire = both]
      <4>1. s = [open |-> sent.open, cursor |-> sent.cursor, wire |-> both, status |-> sent.status]
          BY <3>1
      <4> HIDE DEF both, s
      <4> QED
          BY <3>1, <4>1 DEF Wired
    <3> QED
        BY <3>1, <3>2, <3>3
  <2>4. stream' = [stream EXCEPT ![r] = s] /\ node' = node /\ UNCHANGED <<store, worker>> /\ faults' = faults
    <3> HIDE DEF s, sent
    <3> QED
        BY <1>9, <2>3 DEF Poll
  <2> HIDE DEF news
  <2>5. s \in Wired /\ s.cursor = Latest(log[r]) /\ s.wire = stream[r].wire \o news
      BY <1>1, <1>3, <2>1, <2>2 DEF Wired
  <2>6. Honest(stream[r].wire \o news, r)
    <3>1. Honest(news, r)
        BY <1>2, <2>2 DEF Honest
    <3> QED
        BY <1>2, <2>1, <2>2, <3>1, HonestConcat
  <2> HIDE DEF s
  <2>7. Honest(s.wire, r) /\ s.cursor <= Latest(log[r]) /\ faults' \in 0..MaxFaults
      BY <1>3, <1>4, <2>4, <2>5, <2>6
  <2> QED
      BY <1>6, <2>4, <2>5, <2>7
<1>10. CASE Receive(r)
  <2> DEFINE wire == stream[r].wire
             e == Head(wire)
             s == [open |-> stream[r].open, cursor |-> stream[r].cursor,
                   wire |-> Tail(wire), status |-> stream[r].status]
             n == CASE e.type = "run.progress"  -> [status |-> "running", progress |-> e.progress]
                    [] e.type = "run.succeeded" -> [status |-> "succeeded", progress |-> Points + 1]
                    [] OTHER -> node[r]
  <2>1. wire \in Seq(Event) /\ wire # <<>> /\ stream[r].cursor \in Nat
      BY <1>1, <1>10 DEF Wired, Receive
  <2>2. e \in Event /\ Tail(wire) \in Seq(Event) /\ e = wire[1] /\ 1 \in 1..Len(wire)
      BY <2>1
  <2>3. \A i \in 1..Len(Tail(wire)) : i + 1 \in 1..Len(wire) /\ Tail(wire)[i] = wire[i + 1]
      BY <2>1
  <2>4. Honest(Tail(wire), r)
    <3> HIDE DEF wire
    <3> QED
        BY <1>2, <2>3 DEF Honest, wire
  <2>5. e.type = "run.succeeded" => HasOutput(r)
      BY <1>2, <2>2 DEF Honest
  <2>6. s = [stream[r] EXCEPT !.wire = Tail(wire)] /\ s \in Wired /\ s.wire = Tail(wire)
           /\ s.cursor = stream[r].cursor
      BY <1>1, <2>2, SMTT(20) DEF Wired
  <2>7. n \in Shown /\ (n.status = "succeeded" => HasOutput(r))
    <3> HIDE DEF e
    <3>1. e.progress \in 0..Points /\ Points + 1 \in 0..Points + 1 /\ Points \in Nat
        BY <2>2, BoundsAreNat, SMTT(20) DEF Event
    <3>2. CASE e.type = "run.progress"
      <4>1. n = [status |-> "running", progress |-> e.progress]
          BY <3>2
      <4> HIDE DEF n
      <4> QED
          BY <3>1, <4>1 DEF Shown
    <3>3. CASE e.type = "run.succeeded"
      <4>1. n = [status |-> "succeeded", progress |-> Points + 1]
          BY <3>3
      <4> HIDE DEF n
      <4> QED
          BY <2>5, <3>1, <3>3, <4>1 DEF Shown
    <3>4. CASE e.type \notin {"run.progress", "run.succeeded"}
      <4>1. n = node[r]
          BY <3>4
      <4> HIDE DEF n
      <4> QED
          BY <1>1, <1>2, <4>1
    <3> QED
        BY <3>2, <3>3, <3>4
  <2>8. node' = [node EXCEPT ![r] = n] /\ stream' = [stream EXCEPT ![r] = s]
           /\ UNCHANGED <<store, worker>> /\ faults' = faults
    <3> HIDE DEF s
    <3> QED
        BY <1>10, <2>6 DEF Receive
  <2> HIDE DEF s, n, wire, e
  <2> QED
      BY <1>2, <1>4, <2>4, <2>6, <2>7, <2>8, ClientBacked
<1>11. CASE Rerender(r) \/ Drop(r)
  <2>1. stream' = [stream EXCEPT ![r] = Closed] /\ node' = node /\ UNCHANGED <<store, worker>>
      BY <1>11 DEF Rerender, Drop
  <2>2. faults' \in 0..MaxFaults
      BY <1>4, <1>11, BoundsAreNat DEF Rerender, Drop, Fault
  <2> QED
      BY <1>5, <1>6, <2>1, <2>2
<1> QED
    BY <1>7, <1>8, <1>9, <1>10, <1>11 DEF Show

\* The row of run r is written, with nothing but progress and an output to gain.
LEMMA RowWritten ==
  ASSUME Backed, Tracked, NEW r \in Runs, NEW row \in Row, run' = [run EXCEPT ![r] = row],
         UNCHANGED <<log, assets, client, faults>>,
         row.output <= assets[r], HasOutput(r) => row.output > 0,
         row.status = "succeeded" => row.output > 0
  PROVE  /\ DataTyped' /\ RowsBacked' /\ EventsBacked'
         /\ assets' \in [Runs -> Nat]
         /\ \A q \in Runs : assets[q] <= assets'[q] /\ (HasOutput(q) => HasOutput(q)')
         /\ HasOutput(r)' <=> row.output > 0
<1>1. run \in [Runs -> Row] /\ run' \in [Runs -> Row] /\ run'[r] = row
         /\ \A q \in Runs : q # r => run'[q] = run[q]
    BY DEF Backed, DataTyped
<1>2. \A q \in Runs : /\ run'[q].output <= assets'[q]
                      /\ run'[q].status = "succeeded" => HasOutput(q)'
                      /\ HasOutput(q) => HasOutput(q)'
    BY <1>1 DEF Backed, RowsBacked, HasOutput
<1>3. DataTyped' /\ RowsBacked' /\ EventsBacked'
    BY <1>1, <1>2, RowBacked
<1>4. assets' \in [Runs -> Nat] /\ \A q \in Runs : assets[q] <= assets'[q]
    BY DEF Tracked, Typed
<1> QED
    BY <1>1, <1>2, <1>3, <1>4 DEF HasOutput

LEMMA CreateBacked == ASSUME Backed, Tracked, NEW r \in Runs, CreateRun(r) PROVE Backed'
<1> DEFINE row == [status |-> "queued", progress |-> run[r].progress, output |-> run[r].output]
<1>1. run \in [Runs -> Row] /\ run[r] \in Row /\ DataTyped
    BY DEF Backed, DataTyped
<1>2. row = [run[r] EXCEPT !.status = "queued"] /\ row \in Row
    BY <1>1 DEF Row
<1>3. row.output = run[r].output /\ row.status # "succeeded"
    OBVIOUS
<1> HIDE DEF row
<1>4. /\ run' = [run EXCEPT ![r] = row] /\ AppendEvent(r, "run.created")
      /\ UNCHANGED <<client, assets, faults, worker>>
    BY <1>2 DEF CreateRun
<1>5. PICK e \in Event : /\ e.type = "run.created" /\ e.at >= Latest(log[r])
                         /\ log' = [log EXCEPT ![r] = Append(@, e)]
    BY <1>1, <1>4, EventAppended
<1>6. /\ run' \in [Runs -> Row]
      /\ \A q \in Runs : run'[q].output = run[q].output
      /\ \A q \in Runs : run'[q].status = "succeeded" => run[q].status = "succeeded"
    BY <1>1, <1>2, <1>3, <1>4
<1>7. DataTyped' /\ RowsBacked' /\ EventsBacked'
    BY <1>4, <1>5, <1>6, LogBacked
<1>8. StepsBacked'
    BY <1>4, <1>6 DEF Backed, StepsBacked, Tracked, Typed, HasOutput, Held
<1> QED
    BY <1>7, <1>8 DEF Backed

\* An event is stored by the worker that executes run r.
LEMMA EventBacked ==
  ASSUME Backed, Tracked, NEW w \in Workers, NEW r \in Runs, worker[w].run = r,
         NEW e \in Event, e.at >= Latest(log[r]), log' = [log EXCEPT ![r] = Append(@, e)],
         e.type = "run.succeeded" => HasOutput(r), UNCHANGED <<run, assets, client, faults>>
  PROVE  /\ DataTyped' /\ RowsBacked' /\ EventsBacked'
         /\ assets' \in [Runs -> Nat]
         /\ \A q \in Runs : assets[q] <= assets'[q] /\ (HasOutput(q) => HasOutput(q)')
<1>1. run' \in [Runs -> Row]
    BY DEF Backed, DataTyped
<1>2. DataTyped' /\ RowsBacked' /\ EventsBacked'
    BY <1>1, LogBacked
<1>3. assets' \in [Runs -> Nat] /\ \A q \in Runs : assets[q] <= assets'[q]
    BY DEF Tracked, Typed
<1> QED
    BY <1>2, <1>3 DEF HasOutput

LEMMA HandleBacked ==
  ASSUME Backed, Tracked, NEW w \in Workers, Handle(w), ~Complete(w)
  PROVE  Backed'
<1>1. worker[w].at # "idle"
    BY Zenon DEF Handle, MarkRunning, AnnounceStart, Advance, ReportProgress, InsertAsset,
                 AnnounceAsset, MarkSucceeded, AnnounceSuccess, Goes
<1>2. PICK r \in Runs : r = worker[w].run
    BY <1>1 DEF Tracked, Typed
<1>3. /\ run[r] \in Row /\ run \in [Runs -> Row] /\ DataTyped /\ StepsBacked
      /\ assets[r] \in Nat /\ assets \in [Runs -> Nat] /\ worker[w].step \in Nat
    BY <1>2 DEF Backed, DataTyped, Tracked, Typed
<1>4. /\ run[r].output <= assets[r] /\ (run[r].status = "succeeded" => HasOutput(r))
      /\ run[r].output \in Nat
    BY <1>2, <1>3 DEF Backed, RowsBacked, Row
<1>5. /\ worker[w].at = "advanced" => worker[w].step < Points
      /\ worker[w].at \in {"stored", "announced"} => assets[r] > 0
      /\ worker[w].at = "succeeded" => HasOutput(r)
    BY <1>2, <1>3 DEF StepsBacked
<1>6. CASE MarkRunning(w)
  <2> DEFINE row == [status |-> "running", progress |-> run[r].progress, output |-> run[r].output]
  <2>1. row \in Row /\ row = [run[r] EXCEPT !.status = "running"]
      BY <1>3 DEF Row
  <2>2. row.output = run[r].output /\ row.status # "succeeded"
      OBVIOUS
  <2> HIDE DEF row
  <2>3. /\ run' = [run EXCEPT ![r] = row] /\ Goes(w, "taken", "running")
        /\ UNCHANGED <<log, assets, client, faults>>
      BY <1>2, <1>6, <2>1 DEF MarkRunning, Goes
  <2>4. row.output <= assets[r] /\ (HasOutput(r) => row.output > 0)
      BY <1>4, <2>2 DEF HasOutput
  <2>5. /\ DataTyped' /\ RowsBacked' /\ EventsBacked' /\ assets' \in [Runs -> Nat]
        /\ \A q \in Runs : assets[q] <= assets'[q] /\ (HasOutput(q) => HasOutput(q)')
      BY <1>2, <2>1, <2>2, <2>3, <2>4, RowWritten
  <2>6. "running" \in Points01 \ {"idle"}
      BY DEF Points01
  <2>7. StepsBacked'
      BY <2>3, <2>5, <2>6, GoesBacked
  <2> QED
      BY <2>5, <2>7 DEF Backed
<1>7. CASE Advance(w)
  <2> DEFINE row == [status |-> run[r].status, progress |-> worker[w].step + 1, output |-> run[r].output]
  <2>1. worker[w].step < Points
      BY <1>7 DEF Advance
  <2>2. row \in Row /\ row = [run[r] EXCEPT !.progress = worker[w].step + 1]
      BY <1>3, <2>1, BoundsAreNat DEF Row
  <2>3. row.output = run[r].output /\ row.status = run[r].status
      OBVIOUS
  <2> HIDE DEF row
  <2>4. /\ run' = [run EXCEPT ![r] = row] /\ Goes(w, "waiting", "advanced")
        /\ UNCHANGED <<log, assets, client, faults>>
      BY <1>2, <1>7, <2>2 DEF Advance, Goes
  <2>5. /\ row.output <= assets[r] /\ (HasOutput(r) => row.output > 0)
        /\ (row.status = "succeeded" => row.output > 0)
      BY <1>4, <2>3 DEF HasOutput
  <2>6. /\ DataTyped' /\ RowsBacked' /\ EventsBacked' /\ assets' \in [Runs -> Nat]
        /\ \A q \in Runs : assets[q] <= assets'[q] /\ (HasOutput(q) => HasOutput(q)')
      BY <1>2, <2>2, <2>4, <2>5, RowWritten
  <2>7. "advanced" \in Points01 \ {"idle"}
      BY DEF Points01
  <2>8. StepsBacked'
      BY <2>1, <2>4, <2>6, <2>7, GoesBacked
  <2> QED
      BY <2>6, <2>8 DEF Backed
<1>8. CASE MarkSucceeded(w)
  <2> DEFINE row == [status |-> "succeeded", progress |-> Points + 1, output |-> assets[r]]
  <2>1. assets[r] > 0
      BY <1>5, <1>8 DEF MarkSucceeded, Goes
  <2>2. row \in Row /\ row.output = assets[r]
      BY <1>3, BoundsAreNat DEF Row
  <2>3. /\ run' = [run EXCEPT ![r] = row] /\ Goes(w, "announced", "succeeded")
        /\ UNCHANGED <<log, assets, client, faults>>
      BY <1>2, <1>8 DEF MarkSucceeded, Goes
  <2> HIDE DEF row
  <2>4. row.output <= assets[r] /\ row.output > 0
      BY <1>3, <2>1, <2>2
  <2>5. /\ DataTyped' /\ RowsBacked' /\ EventsBacked' /\ assets' \in [Runs -> Nat]
        /\ \A q \in Runs : assets[q] <= assets'[q] /\ (HasOutput(q) => HasOutput(q)')
        /\ HasOutput(r)'
      BY <1>2, <2>2, <2>3, <2>4, RowWritten
  <2>6. "succeeded" \in Points01 \ {"idle"}
      BY DEF Points01
  <2>7. worker'[w].run = r
      BY <1>2, <2>3, <2>6, GoesAt DEF Tracked, At
  <2>8. HasOutput(worker[w].run)'
      BY <2>5, <2>7 DEF HasOutput
  <2>9. StepsBacked'
      BY <2>3, <2>5, <2>6, <2>8, GoesBacked
  <2> QED
      BY <2>5, <2>9 DEF Backed
<1>9. CASE InsertAsset(w)
  <2>1. /\ assets' = [assets EXCEPT ![r] = @ + 1] /\ Goes(w, "waiting", "stored")
        /\ UNCHANGED <<run, log, client, faults>>
      BY <1>2, <1>9 DEF InsertAsset, Goes
  <2>2. /\ assets' \in [Runs -> Nat] /\ \A q \in Runs : assets[q] <= assets'[q]
        /\ assets'[r] > 0
      BY <1>2, <1>3, <2>1
  <2>3. \A q \in Runs : HasOutput(q)' <=> HasOutput(q)
      BY <2>1 DEF HasOutput
  <2>4. \A q \in Runs : /\ run'[q].output <= assets'[q]
                        /\ run'[q].status = "succeeded" => HasOutput(q)'
      BY <1>3, <2>1, <2>2, <2>3 DEF Backed, RowsBacked, Row
  <2>5. DataTyped' /\ RowsBacked' /\ EventsBacked'
      BY <1>3, <2>1, <2>3, <2>4, RowBacked
  <2>6. "stored" \in Points01 \ {"idle"}
      BY DEF Points01
  <2>7. StepsBacked'
      BY <1>2, <2>1, <2>2, <2>3, <2>6, GoesBacked
  <2> QED
      BY <2>5, <2>7 DEF Backed
<1>10. ASSUME NEW from \in Points01, NEW to \in {"waiting", "announced", "done"}, Goes(w, from, to),
              NEW type \in {"run.started", "asset.created", "run.succeeded"}, AppendEvent(r, type),
              type = "run.succeeded" => HasOutput(r), to = "announced" => assets[r] > 0,
              UNCHANGED <<run, assets>>
       PROVE  Backed'
  <2>1. PICK e \in Event : /\ e.type = type /\ e.at >= Latest(log[r])
                           /\ log' = [log EXCEPT ![r] = Append(@, e)]
      BY <1>2, <1>3, <1>10, EventAppended
  <2>2. UNCHANGED <<run, assets, client, faults>>
      BY <1>10 DEF Goes
  <2>3. /\ DataTyped' /\ RowsBacked' /\ EventsBacked' /\ assets' \in [Runs -> Nat]
        /\ \A q \in Runs : assets[q] <= assets'[q] /\ (HasOutput(q) => HasOutput(q)')
    <3>1. worker[w].run = r /\ (e.type = "run.succeeded" => HasOutput(r))
        BY <1>2, <1>10, <2>1
    <3> QED
        BY <1>2, <2>1, <2>2, <3>1, EventBacked
  <2>4. to \in Points01 \ {"idle"} /\ to \notin {"advanced", "stored", "succeeded"}
      BY DEF Points01
  <2>5. to = "announced" => assets'[worker[w].run] > 0
      BY <1>2, <1>10
  <2>6. StepsBacked'
      BY <1>10, <2>3, <2>4, <2>5, GoesBacked
  <2> QED
      BY <2>3, <2>6 DEF Backed
<1>11. CASE AnnounceStart(w)
    BY <1>2, <1>10, <1>11, Zenon DEF AnnounceStart, Points01
<1>12. CASE AnnounceAsset(w)
  <2>1. Goes(w, "stored", "announced") /\ AppendEvent(r, "asset.created") /\ UNCHANGED <<run, assets>>
      BY <1>2, <1>12 DEF AnnounceAsset
  <2>2. assets[r] > 0
      BY <1>5, <2>1 DEF Goes
  <2> QED
      BY <1>10, <2>1, <2>2, Zenon DEF Points01
<1>13. CASE AnnounceSuccess(w)
  <2>1. Goes(w, "succeeded", "done") /\ AppendEvent(r, "run.succeeded") /\ UNCHANGED <<run, assets>>
      BY <1>2, <1>13 DEF AnnounceSuccess
  <2>2. HasOutput(r)
      BY <1>5, <2>1 DEF Goes
  <2> QED
      BY <1>10, <2>1, <2>2, Zenon DEF Points01
<1>14. CASE ReportProgress(w)
  <2> DEFINE e == [type |-> "run.progress", at |-> Latest(log[r]) + 1, progress |-> worker[w].step + 1]
  <2>1. Latest(log[r]) \in Nat
      BY <1>2, <1>3, LatestIsNat DEF DataTyped
  <2>2. worker[w].at = "advanced" /\ worker[w].step < Points
      BY <1>5, <1>14 DEF ReportProgress
  <2>3. e \in Event /\ e.at >= Latest(log[r]) /\ e.type # "run.succeeded"
      BY <1>3, <2>1, <2>2, BoundsAreNat DEF Event
  <2>4. /\ log' = [log EXCEPT ![r] = Append(@, e)]
        /\ UNCHANGED <<run, assets, client, faults>>
      BY <1>2, <1>14 DEF ReportProgress, AppendEventAt
  <2> HIDE DEF e
  <2>5. /\ DataTyped' /\ RowsBacked' /\ EventsBacked' /\ assets' \in [Runs -> Nat]
        /\ \A q \in Runs : assets[q] <= assets'[q] /\ (HasOutput(q) => HasOutput(q)')
      BY <1>2, <2>3, <2>4, EventBacked
  <2>6. worker[w] \in [run : Runs \union {NoRun}, at : Points01, step : Nat]
           /\ worker \in [Workers -> [run : Runs \union {NoRun}, at : Points01, step : Nat]]
      BY DEF Tracked, Typed
  <2> DEFINE waits == [run |-> worker[w].run, at |-> "waiting", step |-> worker[w].step]
  <2>7. worker' = [worker EXCEPT ![w] = [waits EXCEPT !.step = @ + 1]]
    <3>1. waits = [worker[w] EXCEPT !.at = "waiting"]
        BY <2>6
    <3> HIDE DEF waits
    <3> QED
        BY <1>14, <3>1 DEF ReportProgress
  <2>8. [waits EXCEPT !.step = @ + 1]
           = [run |-> worker[w].run, at |-> "waiting", step |-> worker[w].step + 1]
      BY <2>6
  <2> HIDE DEF waits
  <2>9. /\ worker'[w].at = "waiting" /\ worker'[w].step = worker[w].step + 1
        /\ \A v \in Workers \ {w} : worker'[v] = worker[v]
      BY <2>6, <2>7, <2>8
  <2>10. worker'[w].step <= Points
      BY <1>3, <2>2, <2>9, BoundsAreNat
  <2>11. \A v \in {w} : /\ worker'[v].step <= Points
                        /\ worker'[v].at = "idle" => worker'[v].step = 0
                        /\ worker'[v].at = "advanced" => worker'[v].step < Points
                        /\ worker'[v].at \in {"stored", "announced"} => assets'[worker'[v].run] > 0
                        /\ worker'[v].at = "succeeded" =>
                             worker'[v].run = worker[v].run /\ HasOutput(worker[v].run)'
      BY <2>9, <2>10
  <2>12. {w} \in SUBSET Workers
      OBVIOUS
  <2>13. StepsBacked'
      BY <1>3, <2>5, <2>9, <2>11, <2>12, StepsKept
  <2> QED
      BY <2>5, <2>13 DEF Backed
<1> QED
    BY <1>6, <1>7, <1>8, <1>9, <1>11, <1>12, <1>13, <1>14 DEF Handle

LEMMA BackedStep == Backed /\ Tracked /\ [Next]_vars => Backed'
<1> SUFFICES ASSUME Backed, Tracked, [Next]_vars PROVE Backed'
    OBVIOUS
<1>1. CASE \E r \in Runs : CreateRun(r)
    BY <1>1, CreateBacked
<1>2. CASE \E r \in Runs : AddJob(r) \/ Show(r) \/ Drop(r)
    BY <1>2, BrowsersBacked
<1>3. CASE \/ \E r \in Runs : LoseRequest(r) \/ Stalled(r)
           \/ \E w \in Workers : Complete(w) \/ Throw(w) \/ Crash(w)
           \/ \E w \in Workers, r \in Runs : Take(w, r)
    BY <1>3, WorkersBacked
<1>4. CASE \E w \in Workers : Handle(w) /\ ~Complete(w)
    BY <1>4, HandleBacked
<1>5. CASE UNCHANGED vars
  <2>1. UNCHANGED <<store, client, worker, faults>>
      BY <1>5 DEF vars
  <2>2. faults' \in 0..MaxFaults
      BY <2>1 DEF Backed, DataTyped
  <2> QED
      BY <2>1, <2>2, WorkerBacked
<1> QED
    BY <1>1, <1>2, <1>3, <1>4, <1>5 DEF Next

LEMMA AlwaysBacked == Spec => [](Backed /\ Tracked)
<1>1. Backed /\ Tracked /\ [Next]_vars => (Backed /\ Tracked)'
    BY BackedStep, TrackedStep
<1> QED
    BY <1>1, InitBacked, InitTracked, PTL DEF Spec

\* A task node that shows success has an output in the row behind it, and the
\* asset that output names is in the store, through every crash, repetition,
\* failing statement and broken connection.
THEOREM ShownStaysStored == Spec => []ShownIsStored
<1>1. Backed => ShownIsStored
    BY DEF Backed, RowsBacked, EventsBacked, HasOutput, ShownIsStored
<1> QED
    BY <1>1, AlwaysBacked, PTL

\* The types of the state: progress stays within its range, an output counts
\* no more assets than there can be attempts, and no cursor overtakes its log.
THEOREM StateIsTyped == Spec => []TypeOK
<1>1. Backed /\ Tracked => TypeOK
  <2> SUFFICES ASSUME Backed, Tracked PROVE TypeOK
      OBVIOUS
  <2>1. \A r \in Runs : run[r].output \in 0..MaxStalls + 1
      BY BoundsAreNat DEF Backed, DataTyped, RowsBacked, Row, Tracked, Typed, Counted, Credit
  <2>2. run \in [Runs -> [status : {"absent", "queued", "running", "succeeded"},
                          progress : 0..Points + 1, output : 0..MaxStalls + 1]]
      BY <2>1 DEF Backed, DataTyped, Row
  <2>3. \A r \in Runs : \A i \in DOMAIN log[r] : log[r][i].progress \in 0..Points
    <3> SUFFICES ASSUME NEW r \in Runs, NEW i \in DOMAIN log[r] PROVE log[r][i] \in Event
        BY DEF Event
    <3> QED
        BY DEF Backed, DataTyped
  <2>4. stalls \in [Runs -> 0..MaxStalls + 1]
      BY BoundsAreNat DEF Tracked, Typed, Counted
  <2>5. \A w \in Workers : worker[w] = Idle \/ (worker[w].run \in Runs /\ worker[w].step \in 0..Points)
    <3> SUFFICES ASSUME NEW w \in Workers
                 PROVE  worker[w] = Idle \/ (worker[w].run \in Runs /\ worker[w].step \in 0..Points)
        OBVIOUS
    <3>1. /\ worker[w] \in [run : Runs \union {NoRun}, at : Points01, step : Nat]
          /\ worker[w].run = NoRun <=> worker[w].at = "idle"
          /\ worker[w].step <= Points /\ (worker[w].at = "idle" => worker[w].step = 0)
        BY DEF Tracked, Typed, Backed, StepsBacked
    <3> QED
        BY <3>1, BoundsAreNat DEF Idle
  <2>6. \A r \in Runs : stream[r].cursor <= Latest(log[r])
      BY DEF Backed, EventsBacked
  <2> QED
      BY <2>2, <2>3, <2>4, <2>5, <2>6 DEF TypeOK, Tracked, Typed, Backed, DataTyped, Shown
<1> QED
    BY <1>1, AlwaysBacked, PTL
----------------------------------------------------------------------------
(* Until something fails. *)

\* Where a worker is in its handler tells what it has written to the row.
InStep(row, hand) ==
  /\ hand.at = "taken" => row.status = "queued" /\ row.progress = 0 /\ hand.step = 0
  /\ hand.at = "running" => row.status = "running" /\ row.progress = 0 /\ hand.step = 0
  /\ hand.at = "waiting" => row.status = "running" /\ row.progress = hand.step
  /\ hand.at = "advanced" => row.status = "running" /\ row.progress = hand.step + 1
  /\ hand.at \in {"stored", "announced"} => row.status = "running"

\* No job is without its worker, so that none is given out again, and the row
\* of a run is as new until its only worker writes to it.
Steady ==
  \A r \in Runs :
    /\ request[r] = "none" => run[r].status = "absent" /\ run[r].progress = 0
    /\ request[r] = "adding" \/ job[r] = "waiting" => run[r].status = "queued" /\ run[r].progress = 0
    /\ job[r] = "active" => \E w \in Workers : worker[w].run = r
    /\ \A w \in Workers : worker[w].run = r => InStep(run[r], worker[w])

Forward(old, new) ==
  /\ Rank(old.status) <= Rank(new.status)
  /\ old.progress <= new.progress
  /\ old.status = "succeeded" => new = old

LEMMA ForwardIsReflexive == \A row \in Row : Forward(row, row)
BY DEF Forward, Rank, Row

LEMMA InitSteady == Init => Steady
BY NoRunIsNoRun DEF Init, Steady, Idle

LEMMA OtherSteady ==
  ASSUME Steady, UNCHANGED <<request, run, job, worker>>
  PROVE  Steady'
  BY DEF Steady

\* Worker w makes a step on run r, and writes at most to its row.
LEMMA HandSteady ==
  ASSUME Tracked, DataTyped, Steady, NEW w \in Workers, NEW r \in Runs, worker[w].run = r,
         NEW hand, worker' = [worker EXCEPT ![w] = hand], hand.run = r,
         NEW row, run' = [run EXCEPT ![r] = row],
         InStep(row, hand), UNCHANGED <<request, job>>
  PROVE  Steady'
<1>1. /\ worker'[w] = hand /\ \A v \in Workers : v # w => worker'[v] = worker[v]
      /\ run'[r] = row /\ \A q \in Runs : q # r => run'[q] = run[q]
    BY DEF Tracked, Typed, DataTyped
<1>2. /\ job[r] = "active" /\ request[r] = "answered"
      /\ \A v \in Workers : worker[v].run = r => v = w
    BY DEF Tracked, Typed, Held
<1>3. ASSUME NEW q \in Runs
      PROVE  /\ request[q] = "none" => run'[q].status = "absent" /\ run'[q].progress = 0
             /\ request[q] = "adding" \/ job[q] = "waiting" =>
                  run'[q].status = "queued" /\ run'[q].progress = 0
    BY <1>1, <1>2 DEF Steady
<1>4. ASSUME NEW q \in Runs, job[q] = "active" PROVE \E v \in Workers : worker'[v].run = q
  <2>1. PICK v \in Workers : worker[v].run = q
      BY <1>4 DEF Steady
  <2> QED
      BY <1>1, <2>1
<1>5. ASSUME NEW q \in Runs, NEW v \in Workers, worker'[v].run = q PROVE InStep(run'[q], worker'[v])
  <2>1. CASE v = w
      BY <1>1, <1>5, <2>1
  <2>2. CASE v # w
    <3>1. worker'[v] = worker[v] /\ q # r
        BY <1>1, <1>2, <1>5, <2>2
    <3> QED
        BY <1>1, <1>5, <3>1 DEF Steady
  <2> QED
      BY <2>1, <2>2
<1> QED
    BY <1>3, <1>4, <1>5 DEF Steady

\* A statement of the handler keeps the rows steady, and its row goes forward.
LEMMA HandleSteady ==
  ASSUME Tracked, DataTyped, StepsBacked, Steady, NEW w \in Workers, Handle(w), ~Complete(w)
  PROVE  Steady' /\ \A q \in Runs : Forward(run[q], run'[q])
<1>1. worker[w].at # "idle"
    BY Zenon DEF Handle, MarkRunning, AnnounceStart, Advance, ReportProgress, InsertAsset,
                 AnnounceAsset, MarkSucceeded, AnnounceSuccess, Goes
<1>2. PICK r \in Runs : r = worker[w].run
    BY <1>1 DEF Tracked, Typed
<1>3. /\ run \in [Runs -> Row] /\ run[r] \in Row
      /\ worker[w] \in [run : Runs \union {NoRun}, at : Points01, step : Nat]
      /\ DOMAIN worker = Workers
    BY <1>2 DEF DataTyped, Tracked, Typed
<1>4. InStep(run[r], worker[w]) /\ worker[w].step <= Points
    BY <1>2 DEF Steady, StepsBacked
<1>5. ASSUME NEW hand, worker' = [worker EXCEPT ![w] = hand], hand.run = r,
             NEW row, run' = [run EXCEPT ![r] = row],
             InStep(row, hand), Forward(run[r], row), UNCHANGED <<request, job>>
      PROVE  Steady' /\ \A q \in Runs : Forward(run[q], run'[q])
  <2>1. Steady'
      BY <1>2, <1>5, HandSteady
  <2>2. \A q \in Runs : q # r => run'[q] = run[q] /\ run[q] \in Row
      BY <1>3, <1>5
  <2>3. run'[r] = row
      BY <1>3, <1>5
  <2> QED
      BY <1>5, <2>1, <2>2, <2>3, ForwardIsReflexive
\* The worker as it goes to another point.
<1> DEFINE Hand(at, step) == [run |-> r, at |-> at, step |-> step]
<1>6. ASSUME NEW from, NEW to, Goes(w, from, to)
      PROVE  worker' = [worker EXCEPT ![w] = Hand(to, worker[w].step)] /\ worker[w].at = from
             /\ UNCHANGED <<request, job>>
  <2>1. worker' = [worker EXCEPT ![w] = [worker[w] EXCEPT !.at = to]]
      BY <1>6 DEF Goes
  <2>2. [worker[w] EXCEPT !.at = to] = Hand(to, worker[w].step)
      BY <1>2, <1>3
  <2> QED
      BY <1>6, <2>1, <2>2 DEF Goes, queue
<1>7. \A at, step : Hand(at, step).run = r /\ Hand(at, step).at = at /\ Hand(at, step).step = step
    OBVIOUS
<1> HIDE DEF Hand
<1>8. CASE MarkRunning(w)
  <2> DEFINE row == [status |-> "running", progress |-> run[r].progress, output |-> run[r].output]
             hand == Hand("running", worker[w].step)
  <2>1. Goes(w, "taken", "running") /\ run' = [run EXCEPT ![r].status = "running"]
      BY <1>2, <1>8 DEF MarkRunning
  <2>2. [run[r] EXCEPT !.status = "running"] = row
      BY <1>3 DEF Row
  <2>3. run' = [run EXCEPT ![r] = row]
      BY <2>1, <2>2
  <2>4. worker[w].at = "taken" /\ worker' = [worker EXCEPT ![w] = hand] /\ UNCHANGED <<request, job>>
      BY <1>6, <2>1
  <2>5. InStep(row, hand)
      BY <1>4, <1>7, <2>4 DEF InStep
  <2>6. Forward(run[r], row)
      BY <1>3, <1>4, <2>4 DEF InStep, Forward, Rank, Row
  <2>7. hand.run = r
      BY <1>7
  <2> QED
      BY <1>5, <2>3, <2>4, <2>5, <2>6, <2>7
<1>9. CASE Advance(w)
  <2> DEFINE row == [status |-> run[r].status, progress |-> worker[w].step + 1, output |-> run[r].output]
             hand == Hand("advanced", worker[w].step)
  <2>1. Goes(w, "waiting", "advanced") /\ run' = [run EXCEPT ![r].progress = worker[w].step + 1]
      BY <1>2, <1>9 DEF Advance
  <2>2. [run[r] EXCEPT !.progress = worker[w].step + 1] = row
      BY <1>3 DEF Row
  <2>3. run' = [run EXCEPT ![r] = row]
      BY <2>1, <2>2
  <2>4. worker[w].at = "waiting" /\ worker' = [worker EXCEPT ![w] = hand] /\ UNCHANGED <<request, job>>
      BY <1>6, <2>1
  <2>5. InStep(row, hand)
      BY <1>4, <1>7, <2>4 DEF InStep
  <2>6. Forward(run[r], row)
      BY <1>3, <1>4, <2>4 DEF InStep, Forward, Rank, Row
  <2>7. hand.run = r
      BY <1>7
  <2> QED
      BY <1>5, <2>3, <2>4, <2>5, <2>6, <2>7
<1>10. CASE MarkSucceeded(w)
  <2> DEFINE row == [status |-> "succeeded", progress |-> Points + 1, output |-> assets[r]]
             hand == Hand("succeeded", worker[w].step)
  <2>1. Goes(w, "announced", "succeeded") /\ run' = [run EXCEPT ![r] = row]
      BY <1>2, <1>10 DEF MarkSucceeded
  <2>2. worker[w].at = "announced" /\ worker' = [worker EXCEPT ![w] = hand] /\ UNCHANGED <<request, job>>
      BY <1>6, <2>1
  <2>3. InStep(row, hand)
      BY <1>7 DEF InStep
  <2>4. Forward(run[r], row)
      BY <1>3, <1>4, <2>2, BoundsAreNat DEF InStep, Forward, Rank, Row
  <2>5. hand.run = r
      BY <1>7
  <2> QED
      BY <1>5, <2>1, <2>2, <2>3, <2>4, <2>5
\* The other statements leave the rows alone.
<1>11. run' = run => run' = [run EXCEPT ![r] = run[r]]
    BY <1>3
<1>12. Forward(run[r], run[r])
    BY <1>3, ForwardIsReflexive
<1>13. CASE ReportProgress(w)
  <2> DEFINE hand  == Hand("waiting", worker[w].step + 1)
             waits == [run |-> r, at |-> "waiting", step |-> worker[w].step]
  <2>1. worker' = [worker EXCEPT ![w] = [waits EXCEPT !.step = @ + 1]]
    <3>1. waits = [worker[w] EXCEPT !.at = "waiting"]
        BY <1>2, <1>3
    <3> HIDE DEF waits
    <3> QED
        BY <1>13, <3>1 DEF ReportProgress
  <2>2. [waits EXCEPT !.step = @ + 1] = hand
      BY DEF Hand
  <2> HIDE DEF waits
  <2>3. worker' = [worker EXCEPT ![w] = hand] /\ worker[w].at = "advanced"
        /\ UNCHANGED <<request, job, run>>
      BY <1>13, <2>1, <2>2 DEF ReportProgress, queue
  <2>4. InStep(run[r], hand)
      BY <1>4, <1>7, <2>3 DEF InStep
  <2>5. hand.run = r
      BY <1>7
  <2> QED
      BY <1>5, <1>11, <1>12, <2>3, <2>4, <2>5
<1>14. CASE AnnounceStart(w) \/ InsertAsset(w) \/ AnnounceAsset(w) \/ AnnounceSuccess(w)
  <2>1. PICK from, to : /\ Goes(w, from, to)
                        /\ \/ from = "running" /\ to = "waiting"
                           \/ from \in {"waiting", "stored"} /\ to \in {"stored", "announced"}
                           \/ to = "done"
      BY <1>14 DEF AnnounceStart, InsertAsset, AnnounceAsset, AnnounceSuccess
  <2>2. run' = run
      BY <1>14 DEF AnnounceStart, InsertAsset, AnnounceAsset, AnnounceSuccess
  <2> DEFINE hand == Hand(to, worker[w].step)
  <2>3. worker[w].at = from /\ worker' = [worker EXCEPT ![w] = hand] /\ UNCHANGED <<request, job>>
      BY <1>6, <2>1
  <2>4. InStep(run[r], hand)
      BY <1>4, <1>7, <2>1, <2>3 DEF InStep
  <2>5. hand.run = r
      BY <1>7
  <2> QED
      BY <1>5, <1>11, <1>12, <2>2, <2>3, <2>4, <2>5
<1> QED
    BY <1>8, <1>9, <1>10, <1>13, <1>14 DEF Handle

\* What is not a fault keeps the rows steady, and every row goes forward.
LEMMA NextSteady ==
  ASSUME Tracked, DataTyped, StepsBacked, Steady, [Next]_vars, faults = 0, faults' = 0
  PROVE  Steady' /\ \A q \in Runs : Forward(run[q], run'[q])
<1>1. \A q \in Runs : run[q] \in Row
    BY DEF DataTyped
<1>2. run' = run => \A q \in Runs : Forward(run[q], run'[q])
    BY <1>1, ForwardIsReflexive
<1>3. CASE \E r \in Runs : CreateRun(r)
  <2> PICK r \in Runs : CreateRun(r)
      BY <1>3
  <2> DEFINE row == [status |-> "queued", progress |-> run[r].progress, output |-> run[r].output]
  <2>1. [run[r] EXCEPT !.status = "queued"] = row
      BY <1>1 DEF Row
  <2>2. /\ request[r] = "none" /\ UNCHANGED <<job, worker>>
        /\ request' = [request EXCEPT ![r] = "adding"] /\ run' = [run EXCEPT ![r] = row]
      BY <2>1 DEF CreateRun, queue
  <2>3. run[r].status = "absent" /\ run[r].progress = 0
      BY <2>2 DEF Steady
  <2>4. \A q \in Runs : run'[q] = IF q = r THEN row ELSE run[q]
      BY <2>2 DEF DataTyped
  <2>5. \A q \in Runs : request'[q] = IF q = r THEN "adding" ELSE request[q]
      BY <2>2 DEF Tracked, Typed
  <2>6. Forward(run[r], row)
      BY <2>3 DEF Forward, Rank
  <2>7. \A w \in Workers : worker[w].run # r
      BY <2>2 DEF Tracked, Held
  <2>8. job[r] = "none"
      BY <2>2 DEF Tracked, Held
  <2>9. Steady'
      BY <2>2, <2>3, <2>4, <2>5, <2>7, <2>8 DEF Steady
  <2> QED
      BY <1>1, <2>4, <2>6, <2>9, ForwardIsReflexive
<1>4. CASE \E r \in Runs : AddJob(r)
  <2> PICK r \in Runs : AddJob(r)
      BY <1>4
  <2>1. /\ request[r] = "adding" /\ UNCHANGED <<run, worker>>
        /\ \A q \in Runs : /\ request'[q] = IF q = r THEN "answered" ELSE request[q]
                           /\ job'[q] = IF q = r THEN "waiting" ELSE job[q]
      BY DEF AddJob, store, Tracked, Typed
  <2>2. Steady'
      BY <2>1 DEF Steady
  <2> QED
      BY <1>2, <2>1, <2>2
<1>5. CASE \E w \in Workers, r \in Runs : Take(w, r)
  <2> PICK w \in Workers, r \in Runs : Take(w, r)
      BY <1>5
  <2> DEFINE hand == [run |-> r, at |-> "taken", step |-> 0]
  <2>1. /\ worker[w].run = NoRun /\ job[r] = "waiting" /\ UNCHANGED <<request, run>>
        /\ \A v \in Workers : worker'[v] = IF v = w THEN hand ELSE worker[v]
        /\ \A q \in Runs : job'[q] = IF q = r THEN "active" ELSE job[q]
      BY DEF Take, store, Tracked, Typed, Idle
  <2>2. InStep(run[r], hand)
      BY <2>1 DEF Steady, InStep
  <2>3. ASSUME NEW q \in Runs, job'[q] = "active" PROVE \E v \in Workers : worker'[v].run = q
    <3>1. CASE q = r
        BY <2>1, <3>1
    <3>2. CASE q # r
      <4>1. PICK v \in Workers : worker[v].run = q
          BY <2>1, <2>3, <3>2 DEF Steady
      <4> QED
          BY <2>1, <4>1, NoRunIsNoRun
    <3> QED
        BY <3>1, <3>2
  <2>4. ASSUME NEW q \in Runs, NEW v \in Workers, worker'[v].run = q PROVE InStep(run[q], worker'[v])
      BY <2>1, <2>2, <2>4 DEF Steady
  <2>5. Steady'
      BY <2>1, <2>3, <2>4 DEF Steady
  <2> QED
      BY <1>2, <2>1, <2>5
<1>6. CASE \E w \in Workers : Complete(w)
  <2> PICK w \in Workers : Complete(w)
      BY <1>6
  <2>1. PICK r \in Runs : worker[w].run = r
      BY DEF Complete, Tracked, Typed
  <2>2. /\ UNCHANGED <<request, run>>
        /\ \A v \in Workers : worker'[v] = IF v = w THEN Idle ELSE worker[v]
        /\ \A q \in Runs : job'[q] = IF q = r THEN "completed" ELSE job[q]
      BY <2>1 DEF Complete, store, Tracked, Typed
  <2>3. ASSUME NEW q \in Runs, job'[q] = "active" PROVE \E v \in Workers : worker'[v].run = q
    <3>1. PICK v \in Workers : worker[v].run = q /\ q # r
        BY <2>2, <2>3 DEF Steady
    <3> QED
        BY <2>1, <2>2, <3>1
  <2>4. ASSUME NEW q \in Runs, NEW v \in Workers, worker'[v].run = q PROVE InStep(run[q], worker'[v])
      BY <2>2, <2>4, NoRunIsNoRun DEF Steady, Idle
  <2>5. Steady'
      BY <2>2, <2>3, <2>4 DEF Steady
  <2> QED
      BY <1>2, <2>2, <2>5
<1>7. CASE \E w \in Workers : Handle(w) /\ ~Complete(w)
    BY <1>7, HandleSteady
<1>8. CASE \E r \in Runs : Stalled(r)
    BY <1>8 DEF Stalled, Steady
<1>9. CASE (\E r \in Runs : Show(r)) \/ UNCHANGED vars
  <2>1. UNCHANGED <<request, run, job, worker>>
      BY <1>9 DEF Show, Connect, Poll, Receive, Rerender, vars, store, queue
  <2> QED
      BY <1>2, <2>1, OtherSteady
<1>10. CASE \/ \E r \in Runs : LoseRequest(r) \/ Drop(r)
            \/ \E w \in Workers : Throw(w) \/ Crash(w)
    BY <1>10 DEF LoseRequest, Drop, Throw, Crash, Fault
<1> QED
    BY <1>3, <1>4, <1>5, <1>6, <1>7, <1>8, <1>9, <1>10 DEF Next

\* Until something fails a run goes from queued to running to succeeded, its
\* progress never falls and its success is final, for any number of workers
\* and runs: the queue repeats none, and nobody else writes to its row.
THEOREM FaultlessRunsGoForward == Spec => RunsGoForward
<1> DEFINE Goal == faults = 0 => \A r \in Runs : /\ Rank(run[r].status) <= Rank(run'[r].status)
                                                 /\ run[r].progress <= run'[r].progress
                                                 /\ run[r].status = "succeeded" => run'[r] = run[r]
           Inv  == Backed /\ Tracked /\ (faults = 0 => Steady)
<1>1. Init => Inv
    BY InitBacked, InitTracked, InitSteady
<1>2. Inv /\ [Next]_vars => (faults' = 0 => faults = 0)
  <2>1. [Next]_vars => faults' = faults \/ faults' = faults + 1
    BY DEF Next, vars, CreateRun, AddJob, LoseRequest, Stalled, Show, Connect, Poll,
       Receive, Rerender, Drop, Handle, MarkRunning, AnnounceStart, Advance, ReportProgress,
       InsertAsset, AnnounceAsset, MarkSucceeded, AnnounceSuccess, Complete, Throw, Crash, Take,
       Goes, Fault
  <2> QED
      BY <2>1, BoundsAreNat DEF Backed, DataTyped
<1>3. Inv /\ [Next]_vars => Inv'
    BY <1>2, BackedStep, TrackedStep, NextSteady DEF Backed
<1>4. Inv /\ [Next]_vars => [Goal]_vars
  <2> SUFFICES ASSUME Inv, Next, faults = 0 PROVE Goal
      OBVIOUS
  <2>1. CASE faults' = 0
      BY <2>1, NextSteady DEF Backed, Forward
  <2>2. CASE faults' # 0
    <3>1. run' = run
        BY <2>2 DEF Next, CreateRun, AddJob, LoseRequest, Stalled, Show, Connect, Poll,
           Receive, Rerender, Drop, Handle, MarkRunning, AnnounceStart, Advance, ReportProgress,
           InsertAsset, AnnounceAsset, MarkSucceeded, AnnounceSuccess, Complete, Throw, Crash, Take,
           Goes, Fault, store
    <3> QED
        BY <3>1, ForwardIsReflexive DEF Backed, DataTyped, Forward
  <2> QED
      BY <2>1, <2>2
<1> QED
    BY <1>1, <1>3, <1>4, PTL DEF Spec, RunsGoForward
=============================================================================
