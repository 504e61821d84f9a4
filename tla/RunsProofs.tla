------------------------------ MODULE RunsProofs ------------------------------
(* The runs of the host's tools that share a machine, for every number of workers, tasks and
   faults.  run_pool leaves no emulator but one whose worker was killed or signalled before its
   own process number was read, and returns the tasks' own results; the second needs that no
   worker ends between the main process's timeout and its look at it.  tapetest's commands are
   entered in time and its workers keep their ports apart, whatever its cases, their leads, its
   ports and the typing's pace are.  tapetol's report says of each signal what the ROM does with
   it, or refuses it when its last ENTER was dropped, and leaves none out but those of a worker
   that was killed or after three faults.                                                     *)
EXTENDS TapeRun, Pool, TolRun, FiniteSetTheorems, SequenceTheorems, TLAPS

Phases == {"new", "idle", "took", "starting", "running", "stopping", "flushing", "dead"}
Message == [kind : {"take", "pid", "done", "exit"}, from : Workers, task : 0..Tasks, how : {NoResult, "ok", "raised"}]
WorkerRecord == [pc : Phases, task : 0..Tasks, emu : 0..Tasks, box : Seq(Message), sig : BOOLEAN, cut : BOOLEAN]
MainRecord == [pc : {"spawn", "collect", "sweep", "finally", "reap", "returned", "aborted"}, live : SUBSET Workers,
               running : [Workers -> 0..Tasks], pids : [Workers -> 0..Tasks], check : SUBSET Workers,
               killed : SUBSET Workers, aborted : BOOLEAN]
PoolType ==
    /\ tq \in Seq(0..Tasks) /\ worker \in [Workers -> WorkerRecord] /\ rq \in Seq(Message) /\ main \in MainRecord
    /\ poolResults \in [1..Tasks -> {NoResult, "ok", "raised", "died", "never ran"}]
    /\ holder \in [1..Tasks -> 0..N] /\ outcome \in [1..Tasks -> {NoResult, "ok", "raised"}]

\* SIGTERM aborts once and for all, and a pool that has returned or aborted has no worker left.
PhasesSound ==
    /\ main.pc \in {"spawn", "collect", "sweep", "returned"} => ~main.aborted
    /\ main.pc \in {"returned", "aborted"} => \A w \in Workers : ~Alive(w)

\* A worker that has none of its statements left has stopped its emulator, was killed, or was
\* signalled while it stopped it.
HasOne(w) == worker[w].emu # NoEmulator
EmulatorSound(w) ==
    /\ worker[w].pc = "new" => ~HasOne(w)
    /\ worker[w].pc = "flushing" /\ HasOne(w) => worker[w].cut
    /\ worker[w].pc = "dead" /\ HasOne(w) => worker[w].cut \/ w \in main.killed
    /\ main.pc \in {"returned", "aborted"} /\ HasOne(w) => main.pids[w] # worker[w].emu
EmulatorsSound == \A w \in Workers : EmulatorSound(w)

Has == {"took", "starting", "running"}
\* The queue is the tasks from k + 1 on and an End a worker after them: who is not killed stops
\* only once every task is taken.
Queued(k) ==
    /\ k \in 0..Tasks + N /\ Len(tq) = Tasks + N - k
    /\ \A j \in 1..Len(tq) : tq[j] = IF k + j <= Tasks THEN k + j ELSE End
    /\ \A i \in 1..Tasks : holder[i] = 0 <=> i > k
    /\ \A w \in Workers \ main.killed : worker[w].pc \in {"stopping", "flushing", "dead"} => k > Tasks

\* A message says what was taken, what became of it, and that its worker is at its end.
Truthful(m) ==
    /\ m.kind \in {"take", "done"} => m.task # 0 /\ holder[m.task] = m.from
    /\ m.kind = "done" => outcome[m.task] = m.how /\ m.how # NoResult
    /\ m.kind = "exit" => worker[m.from].pc \in {"flushing", "dead"}
Told(s, w, kind, i) == \E j \in 1..Len(s) : s[j].kind = kind /\ s[j].from = w /\ s[j].task = i
Unread(w, kind, i) == Told(rq, w, kind, i) \/ Told(worker[w].box, w, kind, i)
BoxSound(w) == \A j \in 1..Len(worker[w].box) : Truthful(worker[w].box[j]) /\ worker[w].box[j].from = w
MessagesSound == (\A j \in 1..Len(rq) : Truthful(rq[j])) /\ \A w \in Workers : BoxSound(w)
\* The exit message is a worker's last.
ExitIsLast ==
    /\ \A w \in Workers : \A j \in 1..Len(worker[w].box) : worker[w].box[j].kind = "exit" => j = Len(worker[w].box)
    /\ \A j \in 1..Len(rq) : rq[j].kind = "exit" =>
          worker[rq[j].from].box = <<>> /\ \A l \in j+1..Len(rq) : rq[l].from # rq[j].from

\* A worker has its task, alone; at its end it has told so or, off the live list, has nothing unread; only a
\* killed one is found dead by a look.
WorkerSound(w) ==
    /\ ~worker[w].sig
    /\ worker[w].pc \in Has => worker[w].task # 0 /\ holder[worker[w].task] = w /\ outcome[worker[w].task] = NoResult
    /\ worker[w].pc \in {"new", "dead"} => worker[w].box = <<>>
    /\ worker[w].pc = "new" => main.pc = "spawn"
    /\ main.running[w] # 0 => holder[main.running[w]] = w
    /\ w \notin main.killed /\ worker[w].pc \in {"flushing", "dead"} /\ (main.pc = "spawn" \/ w \in main.live)
         => Unread(w, "exit", 0)
    /\ w \notin main.killed /\ main.pc # "spawn" /\ w \notin main.live =>
          /\ worker[w].pc \in {"flushing", "dead"} /\ worker[w].box = <<>>
          /\ \A j \in 1..Len(rq) : rq[j].from # w
    /\ main.pc = "sweep" /\ w \in main.check \ main.killed => worker[w].pc # "dead"

\* A task that was taken is in its worker's hands, or its outcome is on its way or in the results.
TaskSound(i) ==
    /\ holder[i] = 0 => outcome[i] = NoResult /\ poolResults[i] = NoResult
    /\ holder[i] # 0 /\ holder[i] \notin main.killed =>
         \/ outcome[i] = NoResult /\ worker[holder[i]].pc \in Has /\ worker[holder[i]].task = i
         \/ outcome[i] # NoResult /\ (poolResults[i] = outcome[i] \/ Unread(holder[i], "done", i))
    /\ poolResults[i] \in {NoResult, outcome[i]} \/ (poolResults[i] = "died" /\ holder[i] \in main.killed)

\* The inductive invariant, as long as no SIGTERM came.
PoolSound ==
    /\ \E k \in 0..Tasks + N : Queued(k)
    /\ MessagesSound /\ ExitIsLast
    /\ \A w \in Workers : WorkerSound(w)
    /\ \A i \in 1..Tasks : TaskSound(i)
    /\ main.pc \in {"finally", "reap"} => \A w \in Workers : worker[w].pc = "dead" /\ w \notin main.live
PoolInv == ~main.aborted => IF main.pc = "returned" THEN ResultsAreTheirs ELSE PoolSound
-----------------------------------------------------------------------------
\* NoResult is no result.
LEMMA Names ==
  \A how \in {"ok", "raised", "died", "never ran"} : how # NoResult
BY Zenon DEF NoResult

\* What a worker puts is a message.
LEMMA MsgType ==
  ASSUME NEW w \in Workers, NEW i \in 0..Tasks,
         NEW kind \in {"take", "pid", "done", "exit"}, NEW how \in {NoResult, "ok", "raised"}
  PROVE  Msg(kind, w, i, how) \in Seq(Message)
<1>1. PICK m : m = [kind |-> kind, from |-> w, task |-> i, how |-> how]
  OBVIOUS
<1>2. m \in Message
  BY <1>1 DEF Message
<1>3. <<m>> \in Seq(Message)
  <2> HIDE DEF Message
  <2>1. QED
    BY <1>2
<1>4. <<>> \in Seq(Message)
  OBVIOUS
<1>5. QED
  BY <1>1, <1>3, <1>4 DEF Msg

\* The fields of a worker and of the main process.
LEMMA Fields ==
  ASSUME PoolType
  PROVE  /\ \A w \in Workers :
              /\ worker[w].pc \in Phases /\ worker[w].task \in 0..Tasks /\ worker[w].emu \in 0..Tasks
              /\ worker[w].box \in Seq(Message) /\ worker[w].sig \in BOOLEAN /\ worker[w].cut \in BOOLEAN
              /\ main.running[w] \in 0..Tasks
         /\ main.pc \in {"spawn", "collect", "sweep", "finally", "reap", "returned", "aborted"}
         /\ main.live \subseteq Workers /\ main.pids \in [Workers -> 0..Tasks] /\ main.check \subseteq Workers
         /\ main.killed \subseteq Workers /\ main.aborted \in BOOLEAN
<1> HIDE DEF Message
<1>1. QED
  BY DEF PoolType, WorkerRecord, MainRecord

\* Worker w goes to pc with this task, emulator and buffer; the others stay as they are.
GoesTo(w, pc, task, emu, box) ==
    /\ worker' \in [Workers -> WorkerRecord]
    /\ \A v \in Workers : v # w => worker'[v] = worker[v]
    /\ worker'[w].pc = pc /\ worker'[w].task = task /\ worker'[w].emu = emu /\ worker'[w].box = box
    /\ worker'[w].sig = worker[w].sig /\ worker'[w].cut = worker[w].cut
Turns(w, r) == worker' = [worker EXCEPT ![w] = r]

\* A step that sets one worker's record is such a step.
LEMMA TurnsGoes ==
  ASSUME PoolType, NEW w \in Workers, NEW r \in WorkerRecord, Turns(w, r),
         r.sig = worker[w].sig, r.cut = worker[w].cut
  PROVE  GoesTo(w, r.pc, r.task, r.emu, r.box)
<1> HIDE DEF WorkerRecord
<1>1. worker \in [Workers -> WorkerRecord]
  BY DEF PoolType
<1>2. /\ worker' \in [Workers -> WorkerRecord] /\ worker'[w] = r
      /\ \A v \in Workers : v # w => worker'[v] = worker[v]
  BY <1>1 DEF Turns
<1>3. QED
  BY <1>2 DEF GoesTo

\* A step by Becomes puts msgs after what is in the buffer.
LEMMA BecomesGoes ==
  ASSUME PoolType, NEW w \in Workers, NEW pc \in Phases, NEW emu \in 0..Tasks,
         NEW msgs \in Seq(Message), Becomes(w, pc, emu, msgs)
  PROVE  GoesTo(w, pc, worker[w].task, emu, worker[w].box \o msgs)
<1> HIDE DEF Message
<1>1. worker[w] \in WorkerRecord
  BY DEF PoolType
<1>2. PICK box : box = worker[w].box \o msgs
  OBVIOUS
<1>3. box \in Seq(Message)
  BY <1>1, <1>2 DEF WorkerRecord
<1>4. PICK r : r = [worker[w] EXCEPT !.pc = pc, !.emu = emu, !.box = box]
  OBVIOUS
<1>5. r \in WorkerRecord /\ r.sig = worker[w].sig /\ r.cut = worker[w].cut
  BY <1>1, <1>3, <1>4 DEF WorkerRecord
<1>6. r.pc = pc /\ r.emu = emu /\ r.box = box /\ r.task = worker[w].task
  BY <1>1, <1>4 DEF WorkerRecord
<1>7. Turns(w, r)
  BY <1>2, <1>4 DEF Becomes, Turns
<1>8. QED
  BY <1>2, <1>5, <1>6, <1>7, TurnsGoes

\* A step by Set changes the pc alone.
LEMMA SetGoes ==
  ASSUME PoolType, NEW w \in Workers, NEW pc \in Phases, Set(w, pc)
  PROVE  GoesTo(w, pc, worker[w].task, worker[w].emu, worker[w].box)
<1> HIDE DEF Message
<1>1. worker[w] \in WorkerRecord
  BY DEF PoolType
<1>2. PICK r : r = [worker[w] EXCEPT !.pc = pc]
  OBVIOUS
<1>3. r \in WorkerRecord /\ r.sig = worker[w].sig /\ r.cut = worker[w].cut
  BY <1>1, <1>2 DEF WorkerRecord
<1>4. r.pc = pc /\ r.emu = worker[w].emu /\ r.box = worker[w].box /\ r.task = worker[w].task
  BY <1>1, <1>2 DEF WorkerRecord
<1>5. Turns(w, r)
  BY <1>2 DEF Set, Turns
<1>6. QED
  BY <1>3, <1>4, <1>5, TurnsGoes

\* The steps of a worker that set other fields.
LEMMA GetGoes ==
  ASSUME PoolType, NEW w \in Workers, Get(w)
  PROVE  /\ tq # <<>> /\ Head(tq) \in 0..Tasks /\ tq' = Tail(tq) /\ worker[w].pc = "idle"
         /\ Head(tq) = End => GoesTo(w, "stopping", worker[w].task, worker[w].emu, worker[w].box)
         /\ Head(tq) # End =>
              GoesTo(w, "took", Head(tq), worker[w].emu, worker[w].box \o Msg("take", w, Head(tq), NoResult))
<1> HIDE DEF Message
<1>1. tq # <<>> /\ tq' = Tail(tq) /\ worker[w].pc = "idle"
  BY DEF Get
<1>2. Head(tq) \in 0..Tasks
  <2>1. tq \in Seq(0..Tasks)
    BY DEF PoolType
  <2>2. QED
    BY <1>1, <2>1, HeadTailProperties
<1>3. ASSUME Head(tq) = End
      PROVE  GoesTo(w, "stopping", worker[w].task, worker[w].emu, worker[w].box)
  BY <1>1, <1>3, SetGoes DEF Get, Phases
<1>4. ASSUME Head(tq) # End
      PROVE  GoesTo(w, "took", Head(tq), worker[w].emu, worker[w].box \o Msg("take", w, Head(tq), NoResult))
  <2>1. PICK i \in 0..Tasks : i = Head(tq)
    BY <1>2
  <2>2. PICK box : box = worker[w].box \o Msg("take", w, i, NoResult)
    OBVIOUS
  <2>3. worker[w] \in WorkerRecord
    BY DEF PoolType
  <2>4. Msg("take", w, i, NoResult) \in Seq(Message)
    BY MsgType
  <2>5. worker[w].box \in Seq(Message)
    BY <2>3 DEF WorkerRecord
  <2>6. box \in Seq(Message)
    BY <2>2, <2>4, <2>5
  <2>7. PICK r : r = [worker[w] EXCEPT !.pc = "took", !.task = i, !.box = box]
    OBVIOUS
  <2>8. r \in WorkerRecord /\ r.sig = worker[w].sig /\ r.cut = worker[w].cut
    BY <2>3, <2>6, <2>7 DEF WorkerRecord, Phases
  <2>9. r.pc = "took" /\ r.emu = worker[w].emu /\ r.box = box /\ r.task = i
    BY <2>3, <2>7 DEF WorkerRecord
  <2>10. Turns(w, r)
    BY <1>4, <2>1, <2>2, <2>7 DEF Get, Turns
  <2>11. GoesTo(w, "took", i, worker[w].emu, box)
    BY <2>8, <2>9, <2>10, TurnsGoes
  <2>12. QED
    BY <2>1, <2>2, <2>11
<1>5. QED
  BY <1>1, <1>2, <1>3, <1>4

\* Flush empties the buffer.
LEMMA FlushGoes ==
  ASSUME PoolType, NEW w \in Workers, Flush(w)
  PROVE  GoesTo(w, worker[w].pc, worker[w].task, worker[w].emu, <<>>)
<1> HIDE DEF Message
<1>1. worker[w] \in WorkerRecord
  BY DEF PoolType
<1>2. PICK box : box = <<>> /\ box \in Seq(Message)
  <2>1. <<>> \in Seq(Message)
    OBVIOUS
  <2>2. QED
    BY <2>1
<1>3. PICK r : r = [worker[w] EXCEPT !.box = box]
  OBVIOUS
<1>4. r \in WorkerRecord /\ r.sig = worker[w].sig /\ r.cut = worker[w].cut
  BY <1>1, <1>2, <1>3 DEF WorkerRecord
<1>5. r.pc = worker[w].pc /\ r.emu = worker[w].emu /\ r.box = box /\ r.task = worker[w].task
  BY <1>1, <1>3 DEF WorkerRecord
<1>6. Turns(w, r)
  BY <1>2, <1>3 DEF Flush, Turns
<1>7. QED
  BY <1>2, <1>4, <1>5, <1>6, TurnsGoes

\* Kill ends the worker with its buffer.
LEMMA KillGoes ==
  ASSUME PoolType, NEW w \in Workers, Kill(w)
  PROVE  GoesTo(w, "dead", worker[w].task, worker[w].emu, <<>>)
<1> HIDE DEF Message
<1>1. worker[w] \in WorkerRecord
  BY DEF PoolType
<1>2. PICK box : box = <<>> /\ box \in Seq(Message)
  <2>1. <<>> \in Seq(Message)
    OBVIOUS
  <2>2. QED
    BY <2>1
<1>3. PICK r : r = [worker[w] EXCEPT !.pc = "dead", !.box = box]
  OBVIOUS
<1>4. r \in WorkerRecord /\ r.sig = worker[w].sig /\ r.cut = worker[w].cut
  BY <1>1, <1>2, <1>3 DEF WorkerRecord, Phases
<1>5. r.pc = "dead" /\ r.emu = worker[w].emu /\ r.box = box /\ r.task = worker[w].task
  BY <1>1, <1>3 DEF WorkerRecord
<1>6. Turns(w, r)
  BY <1>2, <1>3 DEF Kill, Turns
<1>7. QED
  BY <1>2, <1>4, <1>5, <1>6, TurnsGoes

\* A step of a worker keeps the types of what it changes.
LEMMA GoesType ==
  ASSUME PoolType, NEW w \in Workers, NEW pc, NEW task, NEW emu, NEW box, GoesTo(w, pc, task, emu, box),
         tq' \in Seq(0..Tasks), rq' \in Seq(Message), main' \in MainRecord, poolResults' = poolResults,
         holder' \in [1..Tasks -> 0..N], outcome' \in [1..Tasks -> {NoResult, "ok", "raised"}]
  PROVE  PoolType'
<1> HIDE DEF Message, WorkerRecord, MainRecord
<1>1. QED
  BY DEF PoolType, GoesTo

\* Every step keeps the types.
LEMMA TypeStep ==
  ASSUME PoolParameters, PoolType, [PoolNext]_poolVars
  PROVE  PoolType'
<1> HIDE DEF Message, WorkerRecord, MainRecord
<1>1. /\ tq \in Seq(0..Tasks) /\ worker \in [Workers -> WorkerRecord] /\ rq \in Seq(Message) /\ main \in MainRecord
      /\ poolResults \in [1..Tasks -> {NoResult, "ok", "raised", "died", "never ran"}]
      /\ holder \in [1..Tasks -> 0..N] /\ outcome \in [1..Tasks -> {NoResult, "ok", "raised"}]
  BY DEF PoolType
<1>2. ASSUME NEW w \in Workers, Get(w)
      PROVE  PoolType'
  <2>1. tq # <<>> /\ Head(tq) \in 0..Tasks /\ tq' = Tail(tq)
    BY <1>2, GetGoes
  <2>2. tq' \in Seq(0..Tasks)
    BY <1>1, <2>1, HeadTailProperties
  <2>3. holder' \in [1..Tasks -> 0..N]
    <3>1. w \in 0..N
      BY DEF Workers, PoolParameters
    <3>2. holder' = holder \/ holder' = [holder EXCEPT ![Head(tq)] = w]
      BY <1>2 DEF Get
    <3>3. QED
      BY <1>1, <3>1, <3>2
  <2>4. rq' = rq /\ main' = main /\ poolResults' = poolResults /\ outcome' = outcome
    BY <1>2 DEF Get
  <2>5. PICK pc, task, box : GoesTo(w, pc, task, worker[w].emu, box)
    BY <1>2, <2>1, GetGoes
  <2>6. QED
    BY <1>1, <2>2, <2>3, <2>4, <2>5, GoesType
<1>3. ASSUME NEW w \in Workers, Prepare(w) \/ Booted(w) \/ Stop(w) \/ Exit(w)
      PROVE  PoolType'
  <2>1. tq' = tq /\ rq' = rq /\ main' = main /\ poolResults' = poolResults /\ outcome' = outcome /\ holder' = holder
    BY <1>3 DEF Prepare, Booted, Stop, Exit
  <2>2. Msg("pid", w, worker[w].emu, NoResult) \in Seq(Message) /\ Msg("exit", w, 0, NoResult) \in Seq(Message)
    <3>1. 0 \in 0..Tasks /\ worker[w].emu \in 0..Tasks
      BY Fields DEF PoolParameters
    <3>2. QED
      BY <3>1, MsgType
  <2>3. <<>> \in Seq(Message) /\ NoEmulator \in 0..Tasks /\ worker[w].emu \in 0..Tasks /\ worker[w].task \in 0..Tasks
    BY Fields DEF PoolParameters, NoEmulator
  <2>4. \E pc \in Phases, emu \in 0..Tasks, msgs \in Seq(Message) : Becomes(w, pc, emu, msgs) \/ Set(w, pc)
    <3>1. CASE Prepare(w)
      BY <2>3, <3>1 DEF Prepare, Phases
    <3>2. CASE Booted(w) \/ Stop(w)
      BY <2>2, <2>3, <3>2 DEF Booted, Stop, Phases
    <3>3. CASE Exit(w)
      BY <2>3, <3>3 DEF Exit, Phases
    <3>4. QED
      BY <1>3, <3>1, <3>2, <3>3
  <2>5. PICK pc, task, emu, box : GoesTo(w, pc, task, emu, box)
    BY <2>4, BecomesGoes, SetGoes
  <2>6. QED
    BY <1>1, <2>1, <2>5, GoesType
<1>4. ASSUME NEW w \in Workers, Finish(w) \/ Raise(w)
      PROVE  PoolType'
  <2>1. PICK how \in {"ok", "raised"}, emu \in 0..Tasks : Report(w, how, emu)
    BY <1>4, Fields DEF Finish, Raise, PoolParameters, NoEmulator
  <2>2. tq' = tq /\ rq' = rq /\ main' = main /\ poolResults' = poolResults /\ holder' = holder
    BY <2>1 DEF Report
  <2>3. outcome' \in [1..Tasks -> {NoResult, "ok", "raised"}]
    BY <1>1, <2>1 DEF Report
  <2>4. Msg("done", w, worker[w].task, how) \in Seq(Message)
    BY MsgType, Fields
  <2>5. PICK pc, task, box : GoesTo(w, pc, task, emu, box)
    BY <2>1, <2>4, BecomesGoes DEF Report, Phases
  <2>6. QED
    BY <1>1, <2>2, <2>3, <2>5, GoesType
<1>5. ASSUME NEW w \in Workers, Terminated(w)
      PROVE  PoolType'
  <2>1. tq' = tq /\ rq' = rq /\ main' = main /\ poolResults' = poolResults /\ outcome' = outcome /\ holder' = holder
    BY <1>5 DEF Terminated
  <2>2. worker' = [worker EXCEPT ![w] = [worker[w] EXCEPT !.sig = FALSE, !.cut = worker[w].pc = "stopping",
                      !.pc = IF worker[w].pc = "stopping" THEN "flushing" ELSE "stopping"]]
    BY <1>5 DEF Terminated
  <2>3. PICK r : r = [worker[w] EXCEPT !.sig = FALSE, !.cut = worker[w].pc = "stopping",
                      !.pc = IF worker[w].pc = "stopping" THEN "flushing" ELSE "stopping"]
    OBVIOUS
  <2>4. r \in WorkerRecord
    BY <1>1, <2>3 DEF WorkerRecord, Phases
  <2>5. worker' \in [Workers -> WorkerRecord]
    BY <1>1, <2>2, <2>3, <2>4
  <2>6. QED
    BY <1>1, <2>1, <2>5 DEF PoolType
<1>6. ASSUME NEW w \in Workers, Flush(w)
      PROVE  PoolType'
  <2>1. tq' = tq /\ rq' = rq \o worker[w].box /\ main' = main /\ poolResults' = poolResults /\ outcome' = outcome /\ holder' = holder
    BY <1>6 DEF Flush
  <2>2. rq' \in Seq(Message)
    <3>1. rq \in Seq(Message) /\ worker[w].box \in Seq(Message)
      BY <1>1, Fields
    <3>2. QED
      BY <2>1, <3>1, ConcatProperties
  <2>3. PICK pc, task, emu, box : GoesTo(w, pc, task, emu, box)
    BY <1>6, FlushGoes
  <2>4. QED
    BY <1>1, <2>1, <2>2, <2>3, GoesType
<1>7. ASSUME NEW w \in Workers, Kill(w)
      PROVE  PoolType'
  <2>1. tq' = tq /\ rq' = rq /\ poolResults' = poolResults /\ outcome' = outcome /\ holder' = holder
    BY <1>7 DEF Kill
  <2>2. main' \in MainRecord
    BY <1>1, <1>7 DEF Kill, MainRecord
  <2>3. PICK pc, task, emu, box : GoesTo(w, pc, task, emu, box)
    BY <1>7, KillGoes
  <2>4. QED
    BY <1>1, <2>1, <2>2, <2>3, GoesType
<1>8. ASSUME NEW w \in Workers, Spawn(w)
      PROVE  PoolType'
  <2>1. tq' = tq /\ rq' = rq /\ poolResults' = poolResults /\ outcome' = outcome /\ holder' = holder
    BY <1>8 DEF Spawn
  <2>2. main' \in MainRecord
    BY <1>1, <1>8 DEF Spawn, MainRecord
  <2>3. PICK pc, task, emu, box : GoesTo(w, pc, task, emu, box)
    BY <1>8, SetGoes DEF Spawn, Phases
  <2>4. QED
    BY <1>1, <2>1, <2>2, <2>3, GoesType
<1>9. CASE Receive
  <2>1. rq # <<>> /\ tq' = tq /\ rq' = Tail(rq) /\ outcome' = outcome /\ holder' = holder /\ worker' = worker
    BY <1>9 DEF Receive
  <2>2. rq' \in Seq(Message) /\ Head(rq) \in Message
    BY <1>1, <2>1, HeadTailProperties
  <2>3. PICK m \in Message : m = Head(rq)
    BY <2>2
  <2>4. m.from \in Workers /\ m.task \in 0..Tasks /\ m.how \in {NoResult, "ok", "raised"}
    BY <2>3 DEF Message
  <2>5. Taken(m) \/ PidSeen(m) \/ Done(m) \/ Exited(m)
    BY <1>9, <2>3 DEF Receive
  <2>6. main' \in MainRecord
    <3>1. \A i \in 0..Tasks : [main EXCEPT !.running[m.from] = i] \in MainRecord
      BY <1>1, <2>4 DEF MainRecord
    <3>2. 0 \in 0..Tasks
      BY DEF PoolParameters
    <3>3. [main EXCEPT !.pids[m.from] = m.task] \in MainRecord
      BY <1>1, <2>4 DEF MainRecord
    <3>4. [main EXCEPT !.live = main.live \ {m.from}] \in MainRecord
      BY <1>1, <2>4 DEF MainRecord
    <3>5. QED
      BY <2>4, <2>5, <3>1, <3>2, <3>3, <3>4 DEF Taken, PidSeen, Done, Exited
  <2>7. poolResults' \in [1..Tasks -> {NoResult, "ok", "raised", "died", "never ran"}]
    BY <1>1, <2>4, <2>5 DEF Taken, PidSeen, Done, Exited
  <2>8. QED
    BY <1>1, <2>1, <2>2, <2>6, <2>7 DEF PoolType
<1>10. CASE Timeout \/ Joined
  <2>1. main' \in MainRecord
    BY <1>1, <1>10 DEF Timeout, Joined, MainRecord
  <2>2. QED
    BY <1>1, <1>10, <2>1 DEF Timeout, Joined, PoolType
<1>11. ASSUME NEW w \in Workers, Look(w)
       PROVE  PoolType'
  <2>1. tq' = tq /\ rq' = rq /\ worker' = worker /\ outcome' = outcome /\ holder' = holder
    BY <1>11 DEF Look
  <2>2. main' \in MainRecord
    <3>1. PICK next : next = [main EXCEPT !.check = main.check \ {w},
                              !.pc = IF main.check = {w} THEN "collect" ELSE "sweep"]
      OBVIOUS
    <3>2. next \in MainRecord
      BY <1>1, <3>1 DEF MainRecord
    <3>3. 0 \in 0..Tasks
      BY DEF PoolParameters
    <3>4. [next EXCEPT !.live = next.live \ {w}, !.running[w] = 0] \in MainRecord
      BY <3>2, <3>3 DEF MainRecord
    <3>5. main' = next \/ main' = [next EXCEPT !.live = next.live \ {w}, !.running[w] = 0]
      BY <1>11, <3>1 DEF Look
    <3>6. QED
      BY <3>2, <3>4, <3>5
  <2>3. poolResults' \in [1..Tasks -> {NoResult, "ok", "raised", "died", "never ran"}]
    BY <1>1, <1>11 DEF Look
  <2>4. QED
    BY <1>1, <2>1, <2>2, <2>3 DEF PoolType
<1>12. CASE TerminateAll
  <2>1. main' \in MainRecord
    BY <1>1, <1>12 DEF TerminateAll, MainRecord
  <2>2. worker' \in [Workers -> WorkerRecord]
    BY <1>1, <1>12 DEF TerminateAll, WorkerRecord, Alive
  <2>3. QED
    BY <1>1, <1>12, <2>1, <2>2 DEF TerminateAll, PoolType
<1>13. CASE Reap
  <2>1. main' \in MainRecord
    BY <1>1, <1>13 DEF Reap, MainRecord
  <2>2. worker' \in [Workers -> WorkerRecord]
    <3>1. ASSUME NEW w \in Workers, NEW e \in 0..Tasks
          PROVE  [worker[w] EXCEPT !.emu = e] \in WorkerRecord
      BY <1>1 DEF WorkerRecord
    <3>2. NoEmulator \in 0..Tasks /\ \A w \in Workers : worker[w].emu \in 0..Tasks
      BY Fields DEF NoEmulator, PoolParameters
    <3>3. ASSUME NEW w \in Workers
          PROVE  [worker[w] EXCEPT !.emu = IF worker[w].emu = main.pids[w] THEN NoEmulator ELSE worker[w].emu] \in WorkerRecord
      BY <3>1, <3>2
    <3>4. QED
      BY <1>13, <3>3 DEF Reap
  <2>3. poolResults' \in [1..Tasks -> {NoResult, "ok", "raised", "died", "never ran"}]
    BY <1>1, <1>13 DEF Reap
  <2>4. QED
    BY <1>1, <1>13, <2>1, <2>2, <2>3 DEF Reap, PoolType
<1>14. ASSUME NEW group \in BOOLEAN, SigTerm(group)
       PROVE  PoolType'
  <2>1. main' \in MainRecord
    BY <1>1, <1>14 DEF SigTerm, MainRecord
  <2>2. worker' \in [Workers -> WorkerRecord]
    <3>1. <<>> \in Seq(Message)
      OBVIOUS
    <3>2. \A w \in Workers : [worker[w] EXCEPT !.sig = group /\ Alive(w), !.box = <<>>] \in WorkerRecord
      BY <1>1, <3>1 DEF WorkerRecord, Alive
    <3>3. QED
      BY <1>14, <3>2 DEF SigTerm
  <2>3. rq' = <<>> /\ tq' = tq /\ holder' = holder /\ outcome' = outcome
    BY <1>14 DEF SigTerm
  <2>4. poolResults' \in [1..Tasks -> {NoResult, "ok", "raised", "died", "never ran"}]
    BY <1>14 DEF SigTerm
  <2>5. <<>> \in Seq(Message)
    OBVIOUS
  <2>6. QED
    BY <1>1, <2>1, <2>2, <2>3, <2>4, <2>5 DEF PoolType
<1>15. CASE UNCHANGED poolVars
  BY <1>1, <1>15 DEF poolVars, PoolType
<1>16. QED
  BY <1>2, <1>3, <1>4, <1>5, <1>6, <1>7, <1>8, <1>9, <1>10, <1>11, <1>12, <1>13, <1>14, <1>15
     DEF PoolNext, MainStep, WorkerStep, PoolFinished

\* The pool starts with the types.
LEMMA InitType ==
  ASSUME PoolParameters, PoolInit
  PROVE  PoolType
<1>1. <<>> \in Seq(Message) /\ 0 \in 0..Tasks /\ 0 \in 0..N
  <2> HIDE DEF Message
  <2>1. QED
    BY DEF PoolParameters
<1>2. tq \in Seq(0..Tasks)
  <2>1. PICK n \in Nat : n = Tasks + N
    BY DEF PoolParameters
  <2>2. \A i \in 1..n : (IF i <= Tasks THEN i ELSE End) \in 0..Tasks
    BY <2>1 DEF PoolParameters, End
  <2>3. tq = [i \in 1..n |-> IF i <= Tasks THEN i ELSE End]
    BY <2>1 DEF PoolInit
  <2>4. tq \in [1..n -> 0..Tasks]
    BY <2>2, <2>3
  <2>5. \E k \in Nat : tq \in [1..k -> 0..Tasks]
    BY <2>1, <2>4
  <2>6. QED
    BY <2>5, SeqDef
<1>3. worker \in [Workers -> WorkerRecord]
  <2> HIDE DEF Message
  <2>1. PICK box : box = <<>>
    OBVIOUS
  <2>2. [pc |-> "new", task |-> 0, emu |-> 0, box |-> box, sig |-> FALSE, cut |-> FALSE] \in WorkerRecord
    BY <1>1, <2>1 DEF WorkerRecord, Phases
  <2>3. worker = [w \in Workers |-> [pc |-> "new", task |-> 0, emu |-> 0, box |-> box, sig |-> FALSE,
                                      cut |-> FALSE]]
    BY <2>1 DEF PoolInit, NoEmulator
  <2>4. QED
    BY <2>2, <2>3
<1>4. main \in MainRecord
  BY <1>1 DEF PoolInit, MainRecord, NoEmulator
<1>5. QED
  <2> HIDE DEF Message, WorkerRecord, MainRecord
  <2>1. QED
    BY <1>1, <1>2, <1>3, <1>4 DEF PoolInit, PoolType

\* No step but the signal ends a run before it is done, and none begins a worker after that.
LEMMA PhasesStep ==
  ASSUME PoolType, PhasesSound, [PoolNext]_poolVars
  PROVE  PhasesSound'
<1> HIDE DEF Message, WorkerRecord, MainRecord
<1>1. ASSUME NEW w \in Workers, NEW pc, NEW task, NEW emu, NEW box, GoesTo(w, pc, task, emu, box), Alive(w),
             main'.pc = main.pc, main'.aborted = main.aborted
      PROVE  PhasesSound'
  BY <1>1 DEF PhasesSound
<1>2. ASSUME NEW w \in Workers, Get(w) \/ Prepare(w) \/ Booted(w) \/ Finish(w) \/ Raise(w) \/ Stop(w) \/ Exit(w)
                                \/ Terminated(w) \/ Flush(w)
      PROVE  PhasesSound'
  <2>1. Alive(w) /\ main' = main
    BY <1>2 DEF Get, Prepare, Booted, Finish, Raise, Report, Stop, Exit, Terminated, Flush, Alive, Working
  <2>2. QED
    BY <2>1 DEF PhasesSound
<1>3. ASSUME NEW w \in Workers, Kill(w)
      PROVE  PhasesSound'
  <2>1. Alive(w) /\ main'.pc = main.pc /\ main'.aborted = main.aborted
    BY <1>3 DEF Kill, PoolType, MainRecord
  <2>2. QED
    BY <2>1 DEF PhasesSound
<1>4. ASSUME NEW w \in Workers, Spawn(w)
      PROVE  PhasesSound'
  BY <1>4, Fields DEF Spawn, PhasesSound, PoolType, MainRecord
<1>5. CASE Receive
  <2>1. main'.pc = main.pc /\ main'.aborted = main.aborted /\ main.pc = "collect"
    BY <1>5 DEF Receive, Taken, PidSeen, Done, Exited, PoolType, MainRecord
  <2>2. QED
    BY <2>1 DEF PhasesSound
<1>6. CASE Timeout \/ Joined
  BY <1>6 DEF Timeout, Joined, PhasesSound, PoolType, MainRecord
<1>7. ASSUME NEW w \in Workers, Look(w)
      PROVE  PhasesSound'
  <2>1. main.pc = "sweep" /\ main'.pc \in {"collect", "sweep"} /\ main'.aborted = main.aborted
    BY <1>7 DEF Look, PoolType, MainRecord
  <2>2. QED
    BY <2>1 DEF PhasesSound
<1>8. CASE TerminateAll
  BY <1>8 DEF TerminateAll, PhasesSound, PoolType, MainRecord
<1>9. CASE Reap
  <2>1. \A w \in Workers : worker'[w].pc = worker[w].pc
    BY <1>9 DEF Reap, PoolType, WorkerRecord
  <2>2. main'.pc = IF main.aborted THEN "aborted" ELSE "returned"
    BY <1>9 DEF Reap, PoolType, MainRecord
  <2>3. main'.aborted = main.aborted
    BY <1>9 DEF Reap, PoolType, MainRecord
  <2>4. \A w \in Workers : ~Alive(w)
    BY <1>9 DEF Reap, Started, Alive
  <2>5. QED
    BY <2>1, <2>2, <2>3, <2>4 DEF PhasesSound, Alive
<1>10. ASSUME NEW group \in BOOLEAN, SigTerm(group)
       PROVE  PhasesSound'
  BY <1>10 DEF SigTerm, PhasesSound, PoolType, MainRecord
<1>11. CASE UNCHANGED poolVars
  BY <1>11 DEF poolVars, PhasesSound, Alive
<1>12. QED
  BY <1>2, <1>3, <1>4, <1>5, <1>6, <1>7, <1>8, <1>9, <1>10, <1>11
     DEF PoolNext, MainStep, WorkerStep, PoolFinished

\* A worker's emulator goes with it.
LEMMA EmulatorsStep ==
  ASSUME PoolParameters, PoolType, PhasesSound, EmulatorsSound, [PoolNext]_poolVars
  PROVE  EmulatorsSound'
<1> HIDE DEF Message, WorkerRecord, MainRecord
<1>1. ASSUME NEW w \in Workers, NEW pc, NEW task, NEW emu, NEW box, GoesTo(w, pc, task, emu, box), Alive(w),
             main' = main,
             pc # "new", pc = "flushing" /\ emu # NoEmulator => worker[w].cut, pc = "dead" /\ emu # NoEmulator => worker[w].cut
      PROVE  EmulatorsSound'
  BY <1>1 DEF EmulatorsSound, EmulatorSound, HasOne, PhasesSound, GoesTo
<1>2. ASSUME NEW w \in Workers, Get(w)
      PROVE  EmulatorsSound'
  <2>1. Alive(w) /\ main' = main
    BY <1>2 DEF Get, Alive
  <2>2. PICK pc, task, emu, box : pc \in {"stopping", "took"} /\ GoesTo(w, pc, task, emu, box)
    BY <1>2, GetGoes
  <2>3. QED
    BY <1>1, <2>1, <2>2
<1>3. ASSUME NEW w \in Workers, Prepare(w) \/ Booted(w)
      PROVE  EmulatorsSound'
  <2>1. Alive(w) /\ main' = main
    BY <1>3 DEF Prepare, Booted, Alive
  <2>2. <<>> \in Seq(Message) /\ Msg("pid", w, worker[w].emu, NoResult) \in Seq(Message)
    <3>1. worker[w].emu \in 0..Tasks
      BY Fields
    <3>2. QED
      BY <3>1, MsgType
  <2>3. "running" \in Phases /\ "starting" \in Phases
    BY DEF Phases
  <2>4. CASE Set(w, "running")
    <3>1. GoesTo(w, "running", worker[w].task, worker[w].emu, worker[w].box)
      BY <2>3, <2>4, SetGoes
    <3>2. QED
      BY <1>1, <2>1, <3>1
  <2>5. CASE Becomes(w, "starting", worker[w].task, <<>>)
    <3>1. PICK emu \in 0..Tasks : emu = worker[w].task
      BY Fields
    <3>2. GoesTo(w, "starting", worker[w].task, emu, worker[w].box \o <<>>)
      BY <2>2, <2>3, <2>5, <3>1, BecomesGoes
    <3>3. QED
      BY <1>1, <2>1, <3>2
  <2>6. CASE Becomes(w, "running", worker[w].emu, Msg("pid", w, worker[w].emu, NoResult))
    <3>1. PICK emu \in 0..Tasks : emu = worker[w].emu
      BY Fields
    <3>2. GoesTo(w, "running", worker[w].task, emu, worker[w].box \o Msg("pid", w, worker[w].emu, NoResult))
      BY <2>2, <2>3, <2>6, <3>1, BecomesGoes
    <3>3. QED
      BY <1>1, <2>1, <3>2
  <2>7. QED
    BY <1>3, <2>4, <2>5, <2>6 DEF Prepare, Booted
<1>4. ASSUME NEW w \in Workers, Finish(w) \/ Raise(w)
      PROVE  EmulatorsSound'
  <2>1. Alive(w) /\ main' = main
    BY <1>4 DEF Finish, Raise, Report, Alive
  <2>2. PICK how \in {"ok", "raised"}, emu \in 0..Tasks : Report(w, how, emu)
    BY <1>4, Fields DEF Finish, Raise, PoolParameters, NoEmulator
  <2>3. Msg("done", w, worker[w].task, how) \in Seq(Message)
    BY MsgType, Fields
  <2>4. PICK box : GoesTo(w, "idle", worker[w].task, emu, box)
    BY <2>2, <2>3, BecomesGoes DEF Report, Phases
  <2>5. QED
    BY <1>1, <2>1, <2>4
<1>5. ASSUME NEW w \in Workers, Stop(w)
      PROVE  EmulatorsSound'
  <2>1. Alive(w) /\ main' = main
    BY <1>5 DEF Stop, Alive
  <2>2. Msg("exit", w, 0, NoResult) \in Seq(Message)
    <3>1. 0 \in 0..Tasks
      BY DEF PoolParameters
    <3>2. QED
      BY <3>1, MsgType
  <2>3. PICK box : GoesTo(w, "flushing", worker[w].task, NoEmulator, box)
    BY <1>5, <2>2, BecomesGoes DEF Stop, Phases, NoEmulator, PoolParameters
  <2>4. QED
    BY <1>1, <2>1, <2>3
<1>6. ASSUME NEW w \in Workers, Exit(w)
      PROVE  EmulatorsSound'
  <2>1. Alive(w) /\ main' = main /\ worker[w].pc = "flushing"
    BY <1>6 DEF Exit, Alive
  <2>2. GoesTo(w, "dead", worker[w].task, worker[w].emu, worker[w].box)
    BY <1>6, SetGoes DEF Exit, Phases
  <2>3. HasOne(w) => worker[w].cut
    BY <2>1 DEF EmulatorsSound, EmulatorSound
  <2>4. QED
    BY <1>1, <2>1, <2>2, <2>3 DEF HasOne
<1>7. ASSUME NEW w \in Workers, Flush(w)
      PROVE  EmulatorsSound'
  <2>1. Alive(w) /\ main' = main
    BY <1>7 DEF Flush
  <2>2. GoesTo(w, worker[w].pc, worker[w].task, worker[w].emu, <<>>)
    BY <1>7, FlushGoes
  <2>3. worker[w].pc = "flushing" /\ HasOne(w) => worker[w].cut
    BY DEF EmulatorsSound, EmulatorSound
  <2>4. QED
    BY <1>1, <2>1, <2>2, <2>3 DEF Alive, HasOne
\* The signal in the finally is noted; one before it leaves the finally to stop the emulator.
<1>8. ASSUME NEW w \in Workers, Terminated(w)
      PROVE  EmulatorsSound'
  <2>1. Alive(w) /\ main' = main
    BY <1>8 DEF Terminated, Alive, Working
  <2>2. worker \in [Workers -> WorkerRecord]
    BY DEF PoolType
  <2>3. \A v \in Workers : v # w => worker'[v] = worker[v]
    BY <1>8, <2>2 DEF Terminated
  <2>4. /\ worker'[w].emu = worker[w].emu /\ worker'[w].cut = (worker[w].pc = "stopping")
        /\ worker'[w].pc = IF worker[w].pc = "stopping" THEN "flushing" ELSE "stopping"
    BY <1>8, <2>2 DEF Terminated, WorkerRecord
  <2>5. QED
    BY <2>1, <2>3, <2>4 DEF EmulatorsSound, EmulatorSound, HasOne, PhasesSound
<1>9. ASSUME NEW w \in Workers, Kill(w)
      PROVE  EmulatorsSound'
  <2>1. /\ Alive(w) /\ main'.pc = main.pc /\ main'.pids = main.pids
        /\ main'.killed = main.killed \cup {w}
    BY <1>9 DEF Kill, PoolType, MainRecord
  <2>2. GoesTo(w, "dead", worker[w].task, worker[w].emu, <<>>)
    BY <1>9, KillGoes
  <2>3. QED
    BY <2>1, <2>2 DEF EmulatorsSound, EmulatorSound, HasOne, PhasesSound, GoesTo
<1>10. ASSUME NEW w \in Workers, Spawn(w)
       PROVE  EmulatorsSound'
  <2>1. main.pc = "spawn" /\ main'.pc \in {"spawn", "collect"} /\ main'.killed = main.killed
    BY <1>10 DEF Spawn, PoolType, MainRecord
  <2>2. GoesTo(w, "idle", worker[w].task, worker[w].emu, worker[w].box)
    BY <1>10, SetGoes DEF Spawn, Phases
  <2>3. QED
    BY <2>1, <2>2 DEF EmulatorsSound, EmulatorSound, HasOne, GoesTo
<1>11. ASSUME worker' = worker, main'.pc \notin {"returned", "aborted"}, main'.killed = main.killed
       PROVE  EmulatorsSound'
  BY <1>11 DEF EmulatorsSound, EmulatorSound, HasOne
<1>12. CASE Receive
  <2>1. main'.pc = main.pc /\ main'.killed = main.killed /\ main.pc = "collect" /\ worker' = worker
    BY <1>12 DEF Receive, Taken, PidSeen, Done, Exited, PoolType, MainRecord
  <2>2. QED
    BY <1>11, <2>1
<1>13. CASE Timeout \/ Joined
  BY <1>11, <1>13 DEF Timeout, Joined, PoolType, MainRecord
<1>14. ASSUME NEW w \in Workers, Look(w)
       PROVE  EmulatorsSound'
  BY <1>11, <1>14 DEF Look, PoolType, MainRecord
<1>15. CASE TerminateAll
  <2>1. \A w \in Workers : /\ worker'[w].pc = worker[w].pc /\ worker'[w].emu = worker[w].emu
                           /\ worker'[w].cut = worker[w].cut
    BY <1>15 DEF TerminateAll, PoolType, WorkerRecord
  <2>2. main'.pc = "reap" /\ main'.killed = main.killed
    BY <1>15 DEF TerminateAll, PoolType, MainRecord
  <2>3. QED
    BY <2>1, <2>2 DEF EmulatorsSound, EmulatorSound, HasOne
<1>16. CASE Reap
  <2>1. \A w \in Workers : /\ worker'[w].pc = worker[w].pc
                           /\ worker'[w].emu = (IF worker[w].emu = main.pids[w] THEN NoEmulator ELSE worker[w].emu)
                           /\ worker'[w].cut = worker[w].cut
    BY <1>16 DEF Reap, PoolType, WorkerRecord
  <2>2. main'.pids = main.pids /\ main'.killed = main.killed
    BY <1>16 DEF Reap, PoolType, MainRecord
  <2>3. QED
    BY <2>1, <2>2 DEF EmulatorsSound, EmulatorSound, HasOne
<1>17. ASSUME NEW group \in BOOLEAN, SigTerm(group)
       PROVE  EmulatorsSound'
  <2>1. \A w \in Workers : /\ worker'[w].pc = worker[w].pc /\ worker'[w].emu = worker[w].emu
                           /\ worker'[w].cut = worker[w].cut
    BY <1>17 DEF SigTerm, PoolType, WorkerRecord
  <2>2. main'.pc = "finally" /\ main'.killed = main.killed
    BY <1>17 DEF SigTerm, PoolType, MainRecord
  <2>3. QED
    BY <2>1, <2>2 DEF EmulatorsSound, EmulatorSound, HasOne
<1>18. CASE UNCHANGED poolVars
  BY <1>18 DEF poolVars, EmulatorsSound, EmulatorSound, HasOne
<1>19. QED
  BY <1>2, <1>3, <1>4, <1>5, <1>6, <1>7, <1>8, <1>9, <1>10, <1>12, <1>13, <1>14, <1>15, <1>16, <1>17, <1>18
     DEF PoolNext, MainStep, WorkerStep, PoolFinished

\* Whatever is killed or signalled, wherever: an emulator outlives run_pool only if its worker was
\* killed hard, or signalled a second time while it stopped it, and the last process number read for
\* its port is not its own.
THEOREM EmulatorsAreStopped ==
  ASSUME PoolParameters
  PROVE  PoolSpec => []NoEmulatorLeft
<1>1. PoolInit => PoolType
  BY InitType
<1>2. PoolInit => PhasesSound /\ EmulatorsSound
  BY DEF PoolInit, PhasesSound, EmulatorsSound, EmulatorSound, HasOne
<1>3. PoolType /\ [PoolNext]_poolVars => PoolType'
  BY TypeStep
<1>4. PoolType /\ PhasesSound /\ [PoolNext]_poolVars => PhasesSound'
  BY PhasesStep
<1>5. PoolType /\ PhasesSound /\ EmulatorsSound /\ [PoolNext]_poolVars => EmulatorsSound'
  BY EmulatorsStep
<1>6. PoolType /\ PhasesSound /\ EmulatorsSound => NoEmulatorLeft
  BY Fields DEF PhasesSound, EmulatorsSound, EmulatorSound, HasOne, NoEmulatorLeft, Alive, Phases
<1>7. QED
  BY <1>1, <1>2, <1>3, <1>4, <1>5, <1>6, PTL DEF PoolSpec

-----------------------------------------------------------------------------
(* The results. *)

\* Messages put after others.
LEMMA CatMessages ==
  ASSUME NEW s \in Seq(Message), NEW t \in Seq(Message)
  PROVE  /\ s \o t \in Seq(Message) /\ Len(s \o t) = Len(s) + Len(t)
         /\ Len(s) \in Nat /\ Len(t) \in Nat
         /\ \A j \in 1..Len(s) : (s \o t)[j] = s[j] /\ s[j] \in Message
         /\ \A j \in 1..Len(t) : (s \o t)[Len(s) + j] = t[j] /\ t[j] \in Message
         /\ \A j \in 1..Len(s \o t) : j \in 1..Len(s) \/ j - Len(s) \in 1..Len(t)
<1> HIDE DEF Message
<1>1. Len(s) \in Nat /\ Len(t) \in Nat
  OBVIOUS
<1>2. /\ s \o t \in Seq(Message) /\ Len(s \o t) = Len(s) + Len(t)
      /\ \A j \in 1..Len(s) : (s \o t)[j] = s[j]
      /\ \A j \in 1..Len(t) : (s \o t)[Len(s) + j] = t[j]
  OBVIOUS
<1>3. \A j \in 1..Len(s) : s[j] \in Message
  OBVIOUS
<1>4. \A j \in 1..Len(t) : t[j] \in Message
  OBVIOUS
<1>5. QED
  BY <1>1, <1>2, <1>3, <1>4

\* What is told in two sequences, one after the other, is told in one of them.
LEMMA ToldCat ==
  ASSUME NEW s \in Seq(Message), NEW t \in Seq(Message), NEW w, NEW kind, NEW i
  PROVE  Told(s \o t, w, kind, i) <=> Told(s, w, kind, i) \/ Told(t, w, kind, i)
<1> HIDE DEF Message
<1>1. PICK u : u = s \o t
  OBVIOUS
<1>2. /\ Len(u) = Len(s) + Len(t) /\ Len(s) \in Nat /\ Len(t) \in Nat
      /\ \A j \in 1..Len(s) : u[j] = s[j]
      /\ \A j \in 1..Len(t) : u[Len(s) + j] = t[j]
      /\ \A j \in 1..Len(u) : j \in 1..Len(s) \/ j - Len(s) \in 1..Len(t)
  BY <1>1, CatMessages
<1>3. Told(s, w, kind, i) => Told(u, w, kind, i)
  BY <1>2 DEF Told
<1>4. Told(t, w, kind, i) => Told(u, w, kind, i)
  <2>1. ASSUME NEW j \in 1..Len(t), t[j].kind = kind /\ t[j].from = w /\ t[j].task = i
        PROVE  Told(u, w, kind, i)
    <3>1. Len(s) + j \in 1..Len(u)
      BY <1>2
    <3>2. QED
      BY <1>2, <2>1, <3>1 DEF Told
  <2>2. QED
    BY <2>1 DEF Told
<1>5. ASSUME NEW j \in 1..Len(u), u[j].kind = kind /\ u[j].from = w /\ u[j].task = i
      PROVE  Told(s, w, kind, i) \/ Told(t, w, kind, i)
  <2>1. CASE j \in 1..Len(s)
    BY <1>2, <1>5, <2>1 DEF Told
  <2>2. CASE j - Len(s) \in 1..Len(t)
    <3>1. u[j] = t[j - Len(s)]
      <4>1. PICK l \in 1..Len(t) : l = j - Len(s)
        BY <2>2
      <4>2. j = Len(s) + l
        BY <1>2, <4>1
      <4>3. QED
        BY <1>2, <4>1, <4>2
    <3>2. QED
      BY <1>5, <2>2, <3>1 DEF Told
  <2>3. QED
    BY <1>2, <2>1, <2>2
<1>6. QED
  BY <1>1, <1>3, <1>4, <1>5 DEF Told

\* What was taken and what became of it do not change.
HistoryGrows ==
    /\ \A i \in 1..Tasks : holder[i] # 0 => holder'[i] = holder[i]
    /\ \A i \in 1..Tasks : outcome[i] # NoResult => outcome'[i] = outcome[i]

\* A true message stays true as tasks are taken and end.
LEMMA TruthfulGrows ==
  ASSUME PoolParameters, HistoryGrows, NEW m \in Message, Truthful(m),
         worker[m.from].pc \in {"flushing", "dead"} => worker'[m.from].pc \in {"flushing", "dead"}
  PROVE  Truthful(m)'
<1>1. m.from \in 1..N /\ m.task \in 0..Tasks
  BY DEF Message, Workers
<1>2. m.kind \in {"take", "done"} => m.task \in 1..Tasks /\ holder[m.task] # 0
  BY <1>1 DEF Truthful, PoolParameters
<1>3. m.kind = "done" => outcome[m.task] # NoResult
  BY DEF Truthful
<1>4. QED
  BY <1>2, <1>3 DEF Truthful, HistoryGrows

\* A worker puts messages.
LEMMA PutMessages ==
  ASSUME PoolParameters, PoolType, MessagesSound, HistoryGrows, rq' = rq,
         NEW w \in Workers, NEW pc, NEW task, NEW emu, NEW msgs \in Seq(Message),
         GoesTo(w, pc, task, emu, worker[w].box \o msgs),
         worker[w].pc \in {"flushing", "dead"} => pc \in {"flushing", "dead"},
         \A j \in 1..Len(msgs) : Truthful(msgs[j])' /\ msgs[j].from = w
  PROVE  MessagesSound'
<1> HIDE DEF Message
<1>1. \A v \in Workers : worker[v].pc \in {"flushing", "dead"} => worker'[v].pc \in {"flushing", "dead"}
  BY DEF GoesTo
<1>2. ASSUME NEW m \in Message, Truthful(m)
      PROVE  Truthful(m)'
  <2>1. m.from \in Workers
    BY DEF Message
  <2>2. QED
    BY <1>1, <1>2, <2>1, TruthfulGrows
<1>3. rq \in Seq(Message) /\ \A v \in Workers : worker[v].box \in Seq(Message)
  BY Fields DEF PoolType
<1>4. \A j \in 1..Len(rq) : Truthful(rq[j])'
  <2>1. \A j \in 1..Len(rq) : rq[j] \in Message
    BY <1>3
  <2>2. QED
    BY <1>2, <2>1 DEF MessagesSound
<1>5. ASSUME NEW v \in Workers, v # w
      PROVE  BoxSound(v)'
  <2>1. PICK box \in Seq(Message) : box = worker[v].box
    BY <1>3
  <2>2. worker'[v].box = box
    BY <1>5, <2>1 DEF GoesTo
  <2>3. \A j \in 1..Len(box) : Truthful(box[j])' /\ box[j].from = v
    <3>1. \A j \in 1..Len(box) : box[j] \in Message
      OBVIOUS
    <3>2. QED
      BY <1>2, <2>1, <3>1 DEF MessagesSound, BoxSound
  <2>4. QED
    BY <2>2, <2>3 DEF BoxSound
<1>6. BoxSound(w)'
  <2>1. PICK box \in Seq(Message) : box = worker[w].box
    BY <1>3
  <2>2. PICK u : u = box \o msgs
    OBVIOUS
  <2>3. worker'[w].box = u
    BY <2>1, <2>2 DEF GoesTo
  <2>4. /\ \A j \in 1..Len(box) : u[j] = box[j] /\ box[j] \in Message
        /\ \A j \in 1..Len(msgs) : u[Len(box) + j] = msgs[j]
        /\ \A j \in 1..Len(u) : j \in 1..Len(box) \/ j - Len(box) \in 1..Len(msgs)
        /\ Len(box) \in Nat
    BY <2>2, CatMessages
  <2>5. \A j \in 1..Len(box) : Truthful(u[j])' /\ u[j].from = w
    BY <1>2, <2>1, <2>4 DEF MessagesSound, BoxSound
  <2>6. ASSUME NEW j \in Int, j - Len(box) \in 1..Len(msgs)
        PROVE  Truthful(u[j])' /\ u[j].from = w
    <3>1. PICK l \in 1..Len(msgs) : l = j - Len(box)
      BY <2>6
    <3>2. j = Len(box) + l
      BY <2>4, <3>1
    <3>3. u[j] = msgs[l]
      BY <2>4, <3>2
    <3>4. QED
      BY <3>3
  <2>7. \A j \in 1..Len(u) : Truthful(u[j])' /\ u[j].from = w
    BY <2>4, <2>5, <2>6
  <2>8. QED
    BY <2>3, <2>7 DEF BoxSound
<1>7. QED
  BY <1>4, <1>5, <1>6 DEF MessagesSound

\* A worker that puts something has not put its exit.
LEMMA PutExit ==
  ASSUME PoolType, MessagesSound, ExitIsLast, rq' = rq,
         NEW w \in Workers, NEW pc, NEW task, NEW emu, NEW msgs \in Seq(Message),
         GoesTo(w, pc, task, emu, worker[w].box \o msgs), Len(msgs) <= 1,
         worker[w].pc \in {"flushing", "dead"} => msgs = <<>>
  PROVE  ExitIsLast'
<1> HIDE DEF Message
<1>1. rq \in Seq(Message) /\ \A v \in Workers : worker[v].box \in Seq(Message)
  BY Fields DEF PoolType
<1>2. PICK box \in Seq(Message) : box = worker[w].box
  BY <1>1
<1>3. PICK u : u = box \o msgs
  OBVIOUS
<1>4. worker'[w].box = u /\ \A v \in Workers : v # w => worker'[v].box = worker[v].box
  BY <1>2, <1>3 DEF GoesTo
<1>5. CASE msgs = <<>>
  <2>1. u = box
    BY <1>3, <1>5, ConcatEmptySeq
  <2>2. \A v \in Workers : worker'[v].box = worker[v].box
    BY <1>2, <1>4, <2>1
  <2>3. \A j \in 1..Len(rq) : rq[j].from \in Workers
    <3>1. \A j \in 1..Len(rq) : rq[j] \in Message
      BY <1>1
    <3>2. QED
      BY <3>1 DEF Message
  <2>4. QED
    BY <2>2, <2>3 DEF ExitIsLast
<1>6. CASE msgs # <<>>
  <2>1. worker[w].pc \notin {"flushing", "dead"}
    BY <1>6
  <2>2. \A j \in 1..Len(box) : box[j].kind # "exit"
    BY <1>2, <2>1 DEF MessagesSound, BoxSound, Truthful
  <2>3. \A j \in 1..Len(rq) : rq[j].kind = "exit" => rq[j].from # w
    BY <2>1 DEF MessagesSound, Truthful
  <2>4. /\ Len(u) = Len(box) + Len(msgs) /\ Len(box) \in Nat /\ Len(msgs) \in Nat
        /\ \A j \in 1..Len(box) : u[j] = box[j]
        /\ \A j \in 1..Len(u) : j \in 1..Len(box) \/ j - Len(box) \in 1..Len(msgs)
    BY <1>3, CatMessages
  <2>5. \A j \in 1..Len(u) : u[j].kind = "exit" => j = Len(u)
    BY <2>2, <2>4
  <2>6. \A j \in 1..Len(rq) : rq[j].from \in Workers
    <3>1. \A j \in 1..Len(rq) : rq[j] \in Message
      BY <1>1
    <3>2. QED
      BY <3>1 DEF Message
  <2>7. \A v \in Workers : \A j \in 1..Len(worker'[v].box) : worker'[v].box[j].kind = "exit" => j = Len(worker'[v].box)
    BY <1>4, <2>5 DEF ExitIsLast
  <2>8. \A j \in 1..Len(rq) : rq[j].kind = "exit" =>
            worker'[rq[j].from].box = <<>> /\ \A l \in j+1..Len(rq) : rq[l].from # rq[j].from
    BY <1>4, <2>3, <2>6 DEF ExitIsLast
  <2>9. QED
    BY <2>7, <2>8 DEF ExitIsLast
<1>7. QED
  BY <1>5, <1>6

\* The other workers are as they were.
LEMMA PutWorkers ==
  ASSUME PoolParameters, PoolType, \A v \in Workers : WorkerSound(v), HistoryGrows, rq' = rq, main' = main,
         NEW w \in Workers, NEW pc, NEW task, NEW emu, NEW box, GoesTo(w, pc, task, emu, box),
         \A v \in Workers : v # w /\ worker[v].pc \in Has => outcome'[worker[v].task] = outcome[worker[v].task],
         WorkerSound(w)'
  PROVE  \A v \in Workers : WorkerSound(v)'
<1> SUFFICES ASSUME NEW v \in Workers, v # w PROVE WorkerSound(v)'
  OBVIOUS
<1> HIDE DEF Message, WorkerRecord, MainRecord
<1>1. WorkerSound(v) /\ worker'[v] = worker[v]
  BY DEF GoesTo
<1>2. worker[v].task \in 0..Tasks /\ main.running[v] \in 0..Tasks /\ v # 0
  BY Fields DEF Workers
<1>3. worker[v].pc \in Has => worker[v].task \in 1..Tasks /\ holder[worker[v].task] = v
  BY <1>1, <1>2 DEF WorkerSound, PoolParameters
<1>4. worker'[v].pc \in Has => worker'[v].task # 0 /\ holder'[worker'[v].task] = v /\ outcome'[worker'[v].task] = NoResult
  BY <1>1, <1>2, <1>3 DEF HistoryGrows, WorkerSound
<1>5. main.running[v] # 0 => main.running[v] \in 1..Tasks /\ holder[main.running[v]] = v
  BY <1>1, <1>2 DEF WorkerSound, PoolParameters
<1>6. main.running[v] # 0 => holder'[main.running[v]] = v
  BY <1>2, <1>5 DEF HistoryGrows
<1>7. Unread(v, "exit", 0)' <=> Unread(v, "exit", 0)
  BY <1>1 DEF Unread, Told
<1>8. QED
  BY <1>1, <1>4, <1>6, <1>7 DEF WorkerSound

\* A worker goes on with its task.
LEMMA PutTasks ==
  ASSUME PoolParameters, PoolType, \A i \in 1..Tasks : TaskSound(i), rq' = rq,
         main'.killed = main.killed, holder' = holder, outcome' = outcome, poolResults' = poolResults,
         NEW w \in Workers, NEW pc, NEW task, NEW emu, NEW msgs \in Seq(Message),
         GoesTo(w, pc, task, emu, worker[w].box \o msgs),
         worker[w].pc \in Has => pc \in Has /\ task = worker[w].task
  PROVE  \A i \in 1..Tasks : TaskSound(i)'
<1> HIDE DEF Message, WorkerRecord, MainRecord
<1>1. SUFFICES ASSUME NEW i \in 1..Tasks PROVE TaskSound(i)'
  OBVIOUS
<1>2. TaskSound(i) /\ holder[i] \in 0..N
  BY DEF PoolType
<1>3. holder[i] # 0 => holder[i] \in Workers
  BY <1>2 DEF Workers, PoolParameters
<1>4. ASSUME NEW v \in Workers, Unread(v, "done", i)
      PROVE  Unread(v, "done", i)'
  <2>1. CASE v # w
    BY <1>4, <2>1 DEF Unread, Told, GoesTo
  <2>2. CASE v = w
    <3>1. PICK box \in Seq(Message) : box = worker[w].box
      BY Fields
    <3>2. Told(box, w, "done", i) => Told(box \o msgs, w, "done", i)
      BY <3>1, ToldCat
    <3>3. worker'[w].box = box \o msgs
      BY <3>1 DEF GoesTo
    <3>4. QED
      BY <1>4, <2>2, <3>1, <3>2, <3>3 DEF Unread
  <2>3. QED
    BY <2>1, <2>2
<1>5. \A v \in Workers : worker[v].pc \in Has => worker'[v].pc \in Has /\ worker'[v].task = worker[v].task
  BY DEF GoesTo
<1>6. QED
  BY <1>2, <1>3, <1>4, <1>5 DEF TaskSound

\* The queue, where no task is taken.
LEMMA QueueStays ==
  ASSUME NEW k, Queued(k), tq' = tq, holder' = holder, main.killed \subseteq main'.killed,
         \A w \in Workers \ main'.killed : worker'[w].pc \in {"stopping", "flushing", "dead"} =>
              worker[w].pc \in {"stopping", "flushing", "dead"} \/ k > Tasks
  PROVE  Queued(k)'
BY DEF Queued

\* The queue loses its head.
LEMMA QueueTaken ==
  ASSUME PoolParameters, PoolType, NEW k \in 0..Tasks + N, Queued(k), tq # <<>>, tq' = Tail(tq),
         main' = main, NEW w \in Workers, Head(tq) \in 0..Tasks,
         holder' = IF Head(tq) = End THEN holder ELSE [holder EXCEPT ![Head(tq)] = w],
         \A v \in Workers : v # w => worker'[v].pc = worker[v].pc,
         worker'[w].pc \in {"stopping", "flushing", "dead"} => Head(tq) = End
  PROVE  /\ k + 1 \in 0..Tasks + N /\ Queued(k + 1)'
         /\ Head(tq) = IF k + 1 <= Tasks THEN k + 1 ELSE End
<1> HIDE DEF Message, WorkerRecord, MainRecord
<1>1. Tasks \in Nat /\ N \in Nat \ {0} /\ k \in Nat /\ w # 0
  BY DEF PoolParameters, Workers
<1>2. tq \in Seq(0..Tasks)
  BY DEF PoolType
<1>3. /\ Len(tq) = Tasks + N - k
      /\ \A j \in 1..Len(tq) : tq[j] = IF k + j <= Tasks THEN k + j ELSE End
      /\ \A i \in 1..Tasks : holder[i] = 0 <=> i > k
      /\ \A v \in Workers \ main.killed : worker[v].pc \in {"stopping", "flushing", "dead"} => k > Tasks
  BY DEF Queued
<1>4. PICK t : t = Tail(tq)
  OBVIOUS
<1>5. Len(tq) \in Nat /\ Len(tq) >= 1 /\ Head(tq) = tq[1]
  BY <1>2
<1>6. Len(t) = Len(tq) - 1 /\ \A j \in 1..Len(t) : t[j] = tq[j + 1]
  BY <1>2, <1>4, HeadTailProperties
<1>7. Head(tq) = IF k + 1 <= Tasks THEN k + 1 ELSE End
  BY <1>1, <1>3, <1>5
<1>8. k + 1 \in 0..Tasks + N /\ Len(t) = Tasks + N - (k + 1)
  BY <1>1, <1>3, <1>5, <1>6
<1>9. \A j \in 1..Len(t) : t[j] = IF k + 1 + j <= Tasks THEN k + 1 + j ELSE End
  <2>1. ASSUME NEW j \in 1..Len(t)
        PROVE  t[j] = IF k + 1 + j <= Tasks THEN k + 1 + j ELSE End
    <3>1. j \in Int /\ j + 1 \in 1..Len(tq) /\ k + (j + 1) = k + 1 + j
      BY <1>1, <1>5, <1>6
    <3>2. t[j] = tq[j + 1]
      BY <1>6
    <3>3. tq[j + 1] = IF k + (j + 1) <= Tasks THEN k + (j + 1) ELSE End
      BY <1>3, <3>1
    <3>4. QED
      BY <3>1, <3>2, <3>3
  <2>2. QED
    BY <2>1
<1>10. \A i \in 1..Tasks : holder'[i] = 0 <=> i > k + 1
  <2>1. CASE Head(tq) = End
    <3>1. k >= Tasks
      BY <1>1, <1>7, <2>1 DEF End
    <3>2. QED
      BY <1>1, <1>3, <2>1, <3>1
  <2>2. CASE Head(tq) # End
    <3>1. Head(tq) = k + 1 /\ k + 1 <= Tasks
      BY <1>7, <2>2
    <3>2. holder' = [holder EXCEPT ![k + 1] = w] /\ holder \in [1..Tasks -> 0..N]
      BY <2>2, <3>1 DEF PoolType
    <3>3. QED
      BY <1>1, <1>3, <3>1, <3>2
  <2>3. QED
    BY <2>1, <2>2
<1>11. \A v \in Workers \ main.killed : worker'[v].pc \in {"stopping", "flushing", "dead"} => k + 1 > Tasks
  <2>1. Head(tq) = End => k + 1 > Tasks
    BY <1>1, <1>7 DEF End
  <2>2. k > Tasks => k + 1 > Tasks
    BY <1>1
  <2>3. ASSUME NEW v \in Workers \ main.killed, worker'[v].pc \in {"stopping", "flushing", "dead"} PROVE k + 1 > Tasks
    <3>1. CASE v = w
      BY <2>1, <2>3, <3>1
    <3>2. CASE v # w
      BY <1>3, <2>2, <2>3, <3>2
    <3> QED BY <3>1, <3>2
  <2>4. QED
    BY <2>3
<1>12. QED
  BY <1>4, <1>7, <1>8, <1>9, <1>10, <1>11 DEF Queued

\* A worker takes a task, or the end.
LEMMA GetSound ==
  ASSUME PoolParameters, PoolType, PoolSound, ~main.aborted, NEW w \in Workers, Get(w)
  PROVE  PoolSound'
<1> HIDE DEF Message, WorkerRecord, MainRecord
<1>1. /\ rq' = rq /\ main' = main /\ poolResults' = poolResults /\ outcome' = outcome
      /\ tq # <<>> /\ Head(tq) \in 0..Tasks /\ tq' = Tail(tq) /\ worker[w].pc = "idle"
      /\ holder' = IF Head(tq) = End THEN holder ELSE [holder EXCEPT ![Head(tq)] = w]
  BY GetGoes DEF Get
<1>2. PICK k \in 0..Tasks + N : Queued(k)
  BY DEF PoolSound
<1>3. /\ MessagesSound /\ ExitIsLast /\ \A v \in Workers : WorkerSound(v)
      /\ \A i \in 1..Tasks : TaskSound(i)
      /\ main.pc \in {"finally", "reap"} => worker[w].pc = "dead"
  BY DEF PoolSound
<1>4. main.pc \notin {"finally", "reap"} /\ Tasks \in Nat /\ N \in Nat /\ w # 0 /\ k \in Nat
  BY <1>1, <1>3 DEF PoolParameters, Workers
<1>5. CASE Head(tq) = End
  <2>1. GoesTo(w, "stopping", worker[w].task, worker[w].emu, worker[w].box)
    BY <1>5, GetGoes
  <2>2. PICK msgs \in Seq(Message) : msgs = <<>> /\ Len(msgs) = 0
    BY EmptySeq
  <2>3. worker[w].box \o msgs = worker[w].box
    BY <2>2, Fields, ConcatEmptySeq
  <2>4. GoesTo(w, "stopping", worker[w].task, worker[w].emu, worker[w].box \o msgs)
    BY <2>1, <2>3
  <2>5. HistoryGrows /\ holder' = holder
    BY <1>1, <1>5 DEF HistoryGrows
  <2>6. MessagesSound'
    <3>1. \A j \in 1..Len(msgs) : FALSE
      BY <2>2
    <3>2. worker[w].pc \notin {"flushing", "dead"}
      BY <1>1
    <3>3. QED
      BY <1>1, <1>3, <2>4, <2>5, <3>1, <3>2, PutMessages
  <2>7. ExitIsLast'
    <3>1. Len(msgs) <= 1 /\ msgs = <<>>
      BY <2>2
    <3>2. QED
      BY <1>1, <1>3, <2>4, <3>1, PutExit
  <2>8. WorkerSound(w)'
    BY <1>1, <1>3, <2>1, <2>5 DEF WorkerSound, GoesTo, Has
  <2>9. \A v \in Workers : WorkerSound(v)'
    BY <1>1, <1>3, <2>1, <2>5, <2>8, PutWorkers
  <2>10. \A i \in 1..Tasks : TaskSound(i)'
    BY <1>1, <1>3, <2>4, <2>5, PutTasks DEF Has
  <2>11. \E l \in 0..Tasks + N : Queued(l)'
    BY <1>1, <1>2, <1>5, <2>1, QueueTaken DEF GoesTo
  <2>12. QED
    BY <1>1, <1>4, <2>6, <2>7, <2>9, <2>10, <2>11 DEF PoolSound
<1>6. CASE Head(tq) # End
  <2>1. PICK i \in 1..Tasks : i = Head(tq)
    BY <1>1, <1>4, <1>6 DEF End
  <2>2. PICK msgs \in Seq(Message) : msgs = Msg("take", w, i, NoResult)
    BY MsgType
  <2>3. /\ msgs = <<[kind |-> "take", from |-> w, task |-> i, how |-> NoResult]>>
    BY <2>2 DEF Msg
  <2>4. GoesTo(w, "took", i, worker[w].emu, worker[w].box \o msgs)
    BY <1>6, <2>1, <2>2, GetGoes
  <2>5. k + 1 \in 0..Tasks + N /\ Queued(k + 1)' /\ i = k + 1
    BY <1>1, <1>2, <1>4, <1>6, <2>1, <2>4, QueueTaken DEF GoesTo
  <2>6. holder[i] = 0 /\ holder \in [1..Tasks -> 0..N] /\ holder' = [holder EXCEPT ![i] = w]
    <3>1. i > k
      BY <1>4, <2>5
    <3>2. holder[i] = 0
      BY <1>2, <3>1 DEF Queued
    <3>3. QED
      BY <1>1, <1>6, <2>1, <3>2 DEF PoolType
  <2>7. HistoryGrows /\ holder'[i] = w /\ \A j \in 1..Tasks : j # i => holder'[j] = holder[j]
    BY <1>1, <2>6 DEF HistoryGrows
  <2>8. Len(msgs) = 1 /\ msgs[1].kind = "take" /\ msgs[1].from = w /\ msgs[1].task = i /\ msgs # <<>>
    BY <2>3
  <2>9. \A j \in 1..Len(msgs) : Truthful(msgs[j])' /\ msgs[j].from = w
    BY <2>7, <2>8 DEF Truthful
  <2>10. MessagesSound'
    BY <1>1, <1>3, <2>4, <2>7, <2>9, PutMessages
  <2>11. ExitIsLast'
    <3>1. Len(msgs) <= 1 /\ worker[w].pc \notin {"flushing", "dead"}
      BY <1>1, <2>8
    <3>2. QED
      BY <1>1, <1>3, <2>4, <3>1, PutExit
  <2>12. outcome[i] = NoResult /\ poolResults[i] = NoResult
    BY <1>3, <2>6 DEF TaskSound
  <2>13. WorkerSound(w)'
    <3>1. main.running[w] # 0 => main.running[w] \in 1..Tasks /\ holder[main.running[w]] = w
      BY <1>3, <1>4, Fields DEF WorkerSound
    <3>2. main.running[w] # 0 => holder'[main.running[w]] = w
      BY <1>4, <2>7, <3>1 DEF HistoryGrows
    <3>3. QED
      BY <1>1, <1>3, <1>4, <2>4, <2>7, <2>12, <3>2 DEF WorkerSound, GoesTo, Has
  <2>14. \A v \in Workers : WorkerSound(v)'
    BY <1>1, <1>3, <2>4, <2>7, <2>13, PutWorkers
  <2>15. TaskSound(i)'
    BY <1>1, <1>4, <2>4, <2>7, <2>12 DEF TaskSound, GoesTo, Has
  <2>16. ASSUME NEW j \in 1..Tasks, j # i
         PROVE  TaskSound(j)'
    <3>1. TaskSound(j) /\ holder'[j] = holder[j] /\ holder[j] \in 0..N
      BY <1>3, <2>6, <2>7, <2>16
    <3>2. holder[j] # 0 => holder[j] \in Workers
      BY <1>4, <3>1 DEF Workers
    <3>3. ASSUME NEW v \in Workers, Unread(v, "done", j)
          PROVE  Unread(v, "done", j)'
      <4>1. CASE v # w
        BY <1>1, <2>4, <3>3, <4>1 DEF Unread, Told, GoesTo
      <4>2. CASE v = w
        <5>1. PICK box \in Seq(Message) : box = worker[w].box
          BY Fields
        <5>2. Told(box, w, "done", j) => Told(box \o msgs, w, "done", j)
          BY <5>1, ToldCat
        <5>3. worker'[w].box = box \o msgs
          BY <2>4, <5>1 DEF GoesTo
        <5>4. QED
          BY <1>1, <3>3, <4>2, <5>1, <5>2, <5>3 DEF Unread
      <4>3. QED
        BY <4>1, <4>2
    <3>4. \A v \in Workers : worker[v].pc \in Has => worker'[v].pc = worker[v].pc /\ worker'[v].task = worker[v].task
      BY <1>1, <2>4 DEF GoesTo, Has
    <3>5. QED
      BY <1>1, <3>1, <3>2, <3>3, <3>4 DEF TaskSound
  <2>17. QED
    BY <1>1, <1>4, <2>5, <2>10, <2>11, <2>14, <2>15, <2>16 DEF PoolSound
<1>7. QED
  BY <1>5, <1>6

\* A step between two messages, or one that puts what is true.
LEMMA GoesOnSound ==
  ASSUME PoolParameters, PoolType, PoolSound, ~main.aborted,
         tq' = tq, rq' = rq, main' = main, poolResults' = poolResults, holder' = holder, outcome' = outcome,
         NEW w \in Workers, worker[w].pc # "dead", NEW pc, NEW emu, NEW msgs \in Seq(Message),
         GoesTo(w, pc, worker[w].task, emu, worker[w].box \o msgs),
         Len(msgs) <= 1, worker[w].pc = "flushing" => msgs = <<>> /\ pc = "dead",
         \A j \in 1..Len(msgs) : Truthful(msgs[j])' /\ msgs[j].from = w,
         worker[w].pc \in Has => pc \in Has,
         pc \in {"stopping", "flushing", "dead"} => worker[w].pc \in {"stopping", "flushing"},
         WorkerSound(w)'
  PROVE  PoolSound'
<1> HIDE DEF Message, WorkerRecord, MainRecord
<1>1. /\ MessagesSound /\ ExitIsLast /\ \A v \in Workers : WorkerSound(v)
      /\ \A i \in 1..Tasks : TaskSound(i)
      /\ main.pc \in {"finally", "reap"} => worker[w].pc = "dead"
  BY DEF PoolSound
<1>2. HistoryGrows
  BY DEF HistoryGrows
<1>3. worker[w].pc \in {"flushing", "dead"} => pc \in {"flushing", "dead"} /\ msgs = <<>>
  OBVIOUS
<1>4. MessagesSound'
  BY <1>1, <1>2, <1>3, PutMessages
<1>5. ExitIsLast'
  BY <1>1, <1>3, PutExit
<1>6. \A v \in Workers : WorkerSound(v)'
  BY <1>1, <1>2, PutWorkers
<1>7. \A i \in 1..Tasks : TaskSound(i)'
  <2>1. worker[w].pc \in Has => pc \in Has /\ worker[w].task = worker[w].task
    OBVIOUS
  <2>2. main'.killed = main.killed
    OBVIOUS
  <2>3. QED
    BY <1>1, <2>1, <2>2, PutTasks
<1>8. \E l \in 0..Tasks + N : Queued(l)'
  <2>1. PICK k \in 0..Tasks + N : Queued(k)
    BY DEF PoolSound
  <2>2. \A v \in Workers : worker'[v].pc \in {"stopping", "flushing", "dead"} =>
            worker[v].pc \in {"stopping", "flushing", "dead"}
    BY DEF GoesTo
  <2>3. QED
    BY <2>1, <2>2, QueueStays
<1>9. QED
  BY <1>1, <1>4, <1>5, <1>6, <1>7, <1>8 DEF PoolSound

\* There is nothing in the empty sequence.
LEMMA NoMessages ==
  <<>> \in Seq(Message) /\ Len(<<>>) <= 1 /\ \A j \in 1..Len(<<>>) : FALSE
<1> HIDE DEF Message
<1>1. <<>> \in Seq(Message) /\ Len(<<>>) = 0
  BY EmptySeq
<1>2. QED
  BY <1>1

\* A worker starts, is told a process number, or has ended.
LEMMA WorkSound ==
  ASSUME PoolParameters, PoolType, PoolSound, ~main.aborted, NEW w \in Workers,
         Prepare(w) \/ Booted(w) \/ Stop(w) \/ (GapExit = FALSE /\ Exit(w))
  PROVE  PoolSound'
<1> HIDE DEF Message, WorkerRecord, MainRecord
<1>1. /\ tq' = tq /\ rq' = rq /\ main' = main /\ poolResults' = poolResults /\ outcome' = outcome /\ holder' = holder
      /\ worker[w].pc # "dead"
  BY DEF Prepare, Booted, Stop, Exit
<1>2. /\ WorkerSound(w) /\ w # 0 /\ 0 \in 0..Tasks /\ worker[w].box \in Seq(Message)
  BY Fields DEF PoolSound, PoolParameters, Workers
<1>3. PICK none \in Seq(Message) : none = <<>> /\ Len(none) <= 1 /\ (\A j \in 1..Len(none) : FALSE)
                                   /\ worker[w].box \o none = worker[w].box
  BY <1>2, NoMessages, ConcatEmptySeq
<1>4. CASE Prepare(w)
  <2>1. worker[w].pc = "took"
    BY <1>4 DEF Prepare
  <2>2. worker[w].pc # "flushing" /\ {"starting", "running"} \subseteq Has /\ {"starting", "running"} \subseteq Phases
    BY <2>1 DEF Has, Phases
  <2>3. ASSUME NEW pc \in {"starting", "running"}, NEW emu, GoesTo(w, pc, worker[w].task, emu, worker[w].box \o none)
        PROVE  PoolSound'
    <3>1. WorkerSound(w)'
      BY <1>1, <1>2, <1>3, <2>1, <2>3 DEF WorkerSound, GoesTo, Has
    <3>2. pc \in Has /\ pc \notin {"stopping", "flushing", "dead"}
      BY <2>2, <2>3
    <3>3. QED
      BY <1>1, <1>3, <2>2, <2>3, <3>1, <3>2, GoesOnSound
  <2>4. CASE worker[w].emu # NoEmulator
    <3>1. Set(w, "running")
      BY <1>4, <2>4 DEF Prepare
    <3>2. GoesTo(w, "running", worker[w].task, worker[w].emu, worker[w].box \o none)
      BY <1>3, <2>2, <3>1, SetGoes
    <3>3. QED
      BY <2>3, <3>2
  <2>5. CASE worker[w].emu = NoEmulator
    <3>1. Becomes(w, "starting", worker[w].task, none)
      BY <1>3, <1>4, <2>5 DEF Prepare
    <3>2. GoesTo(w, "starting", worker[w].task, worker[w].task, worker[w].box \o none)
      BY <2>2, <3>1, BecomesGoes, Fields
    <3>3. QED
      BY <2>3, <3>2
  <2>6. QED
    BY <2>4, <2>5
<1>5. CASE Booted(w)
  <2>1. worker[w].pc = "starting"
    BY <1>5 DEF Booted
  <2>2. PICK msgs \in Seq(Message) : msgs = Msg("pid", w, worker[w].emu, NoResult)
    BY Fields, MsgType
  <2>3. GoesTo(w, "running", worker[w].task, worker[w].emu, worker[w].box \o msgs)
    BY <1>5, <2>2, BecomesGoes, Fields DEF Booted, Phases
  <2>4. Len(msgs) = 1 /\ msgs[1].kind = "pid" /\ msgs[1].from = w
    BY <2>2 DEF Msg
  <2>5. \A j \in 1..Len(msgs) : Truthful(msgs[j])' /\ msgs[j].from = w
    BY <2>4 DEF Truthful
  <2>6. WorkerSound(w)'
    BY <1>1, <1>2, <2>1, <2>3 DEF WorkerSound, GoesTo, Has
  <2>7. worker[w].pc # "flushing" /\ "running" \in Has /\ Len(msgs) <= 1
    BY <2>1, <2>4 DEF Has
  <2>8. QED
    BY <1>1, <2>3, <2>5, <2>6, <2>7, GoesOnSound
<1>6. CASE Stop(w)
  <2>1. worker[w].pc = "stopping"
    BY <1>6 DEF Stop
  <2>2. PICK msgs \in Seq(Message) : msgs = Msg("exit", w, 0, NoResult)
    BY <1>2, MsgType
  <2>3. GoesTo(w, "flushing", worker[w].task, NoEmulator, worker[w].box \o msgs)
    BY <1>2, <1>6, <2>2, BecomesGoes DEF Stop, Phases, NoEmulator
  <2>4. Len(msgs) = 1 /\ msgs[1].kind = "exit" /\ msgs[1].from = w /\ msgs[1].task = 0
    BY <2>2 DEF Msg
  <2>5. \A j \in 1..Len(msgs) : Truthful(msgs[j])' /\ msgs[j].from = w
    BY <2>3, <2>4 DEF Truthful, GoesTo
  <2>6. Unread(w, "exit", 0)'
    <3>1. Told(msgs, w, "exit", 0)
      BY <2>4 DEF Told
    <3>2. PICK box \in Seq(Message) : box = worker[w].box
      BY <1>2
    <3>3. Told(box \o msgs, w, "exit", 0)
      BY <3>1, ToldCat
    <3>4. QED
      BY <2>3, <3>2, <3>3 DEF Unread, GoesTo
  <2>7. WorkerSound(w)'
    BY <1>1, <1>2, <2>1, <2>3, <2>6 DEF WorkerSound, GoesTo, Has
  <2>8. worker[w].pc # "flushing" /\ worker[w].pc \notin Has /\ Len(msgs) <= 1 /\ worker[w].pc \in {"stopping", "flushing"}
    BY <2>1, <2>4 DEF Has
  <2>9. QED
    BY <1>1, <2>3, <2>5, <2>7, <2>8, GoesOnSound
<1>7. CASE GapExit = FALSE /\ Exit(w)
  <2>1. worker[w].pc = "flushing" /\ worker[w].box = <<>> /\ main.pc # "sweep"
    BY <1>7 DEF Exit
  <2>2. GoesTo(w, "dead", worker[w].task, worker[w].emu, worker[w].box \o none)
    BY <1>3, <1>7, SetGoes DEF Exit, Phases
  <2>3. Unread(w, "exit", 0) => Unread(w, "exit", 0)'
    BY <1>1, <1>3, <2>2 DEF Unread, GoesTo
  <2>4. WorkerSound(w)'
    BY <1>1, <1>2, <1>3, <2>1, <2>2, <2>3 DEF WorkerSound, GoesTo, Has
  <2>5. worker[w].pc \notin Has /\ worker[w].pc \in {"stopping", "flushing"} /\ none = <<>>
    BY <1>3, <2>1 DEF Has
  <2>6. QED
    BY <1>1, <1>3, <2>2, <2>4, <2>5, GoesOnSound
<1>8. QED
  BY <1>4, <1>5, <1>6, <1>7

\* A task has ended.
LEMMA ReportSound ==
  ASSUME PoolParameters, PoolType, PoolSound, ~main.aborted, NEW w \in Workers, Finish(w) \/ Raise(w)
  PROVE  PoolSound'
<1> HIDE DEF Message, WorkerRecord, MainRecord
<1>1. PICK how \in {"ok", "raised"}, emu \in 0..Tasks : Report(w, how, emu)
  <2>1. worker[w].emu \in 0..Tasks
    BY Fields
  <2>2. NoEmulator \in 0..Tasks
    BY DEF NoEmulator, PoolParameters
  <2>3. QED
    BY <2>1, <2>2 DEF Finish, Raise
<1>2. tq' = tq /\ rq' = rq /\ main' = main /\ poolResults' = poolResults /\ holder' = holder
  BY <1>1 DEF Report
<1>3. worker[w].pc \in Has
  BY DEF Finish, Raise, Has
<1>4. /\ MessagesSound /\ ExitIsLast /\ \A v \in Workers : WorkerSound(v)
      /\ \A i \in 1..Tasks : TaskSound(i)
      /\ main.pc \in {"finally", "reap"} => worker[w].pc = "dead"
  BY DEF PoolSound
<1>5. PICK i \in 1..Tasks : i = worker[w].task /\ holder[i] = w /\ outcome[i] = NoResult
  BY <1>3, <1>4, Fields DEF WorkerSound, PoolParameters
<1>6. PICK msgs \in Seq(Message) : msgs = Msg("done", w, i, how)
  <2>1. Msg("done", w, i, how) \in Seq(Message)
    <3>1. i \in 0..Tasks
      BY Fields, <1>5
    <3>2. QED
      BY <3>1, MsgType
  <2>2. QED
    BY <2>1
<1>7. GoesTo(w, "idle", worker[w].task, emu, worker[w].box \o msgs)
  <2>1. Becomes(w, "idle", emu, msgs)
    BY <1>1, <1>5, <1>6 DEF Report
  <2>2. "idle" \in Phases
    BY DEF Phases
  <2>3. QED
    BY <2>1, <2>2, BecomesGoes
<1>8. outcome' = [outcome EXCEPT ![i] = how] /\ outcome \in [1..Tasks -> {NoResult, "ok", "raised"}]
  BY <1>1, <1>5 DEF Report, PoolType
<1>9. /\ outcome'[i] = how /\ \A j \in 1..Tasks : j # i => outcome'[j] = outcome[j]
      /\ how # NoResult /\ w # 0
  <2>1. how # NoResult
    BY Names
  <2>2. w # 0
    BY DEF Workers
  <2>3. QED
    BY <1>8, <2>1, <2>2
<1>10. HistoryGrows
  BY <1>2, <1>5, <1>9 DEF HistoryGrows
<1>11. /\ Len(msgs) = 1 /\ msgs[1].kind = "done" /\ msgs[1].from = w /\ msgs[1].task = i /\ msgs[1].how = how
  BY <1>2, <1>4, <1>6 DEF Msg, PoolSound
<1>12. \A j \in 1..Len(msgs) : Truthful(msgs[j])' /\ msgs[j].from = w
  BY <1>2, <1>5, <1>9, <1>11 DEF Truthful
<1>13. worker[w].pc \notin {"flushing", "dead"} /\ main.pc \notin {"finally", "reap"} /\ Len(msgs) <= 1
  BY <1>3, <1>4, <1>11 DEF Has
<1>14. MessagesSound'
  BY <1>2, <1>4, <1>7, <1>10, <1>12, <1>13, PutMessages
<1>15. ExitIsLast'
  BY <1>2, <1>4, <1>7, <1>13, PutExit
<1>16. WorkerSound(w)'
  BY <1>2, <1>3, <1>4, <1>7 DEF WorkerSound, GoesTo, Has
<1>17. \A v \in Workers : v # w /\ worker[v].pc \in Has => outcome'[worker[v].task] = outcome[worker[v].task]
  <2>1. ASSUME NEW v \in Workers, v # w, worker[v].pc \in Has
        PROVE  outcome'[worker[v].task] = outcome[worker[v].task]
    <3>1. worker[v].task \in 1..Tasks /\ holder[worker[v].task] = v
      BY <1>4, <2>1, Fields DEF WorkerSound, PoolParameters
    <3>2. worker[v].task # i
      BY <1>5, <2>1, <3>1
    <3>3. QED
      BY <1>9, <3>1, <3>2
  <2>2. QED
    BY <2>1
<1>18. \A v \in Workers : WorkerSound(v)'
  BY <1>2, <1>4, <1>7, <1>10, <1>16, <1>17, PutWorkers
<1>19. ASSUME NEW v \in Workers, NEW j \in 1..Tasks, Unread(v, "done", j) \/ (v = w /\ j = i)
       PROVE  Unread(v, "done", j)'
  <2>1. CASE v # w
    BY <1>2, <1>7, <1>19, <2>1 DEF Unread, Told, GoesTo
  <2>2. CASE v = w
    <3>1. PICK box \in Seq(Message) : box = worker[w].box
      BY Fields
    <3>2. Told(box \o msgs, w, "done", j) <=> Told(box, w, "done", j) \/ Told(msgs, w, "done", j)
      BY <3>1, ToldCat
    <3>3. Told(msgs, w, "done", i)
      BY <1>11 DEF Told
    <3>4. worker'[w].box = box \o msgs
      BY <1>7, <3>1 DEF GoesTo
    <3>5. QED
      BY <1>2, <1>19, <2>2, <3>1, <3>2, <3>3, <3>4 DEF Unread
  <2>3. QED
    BY <2>1, <2>2
<1>20. TaskSound(i)'
  <2>1. TaskSound(i)
    BY <1>4
  <2>2. Unread(w, "done", i)'
    BY <1>19
  <2>3. QED
    BY <1>2, <1>5, <1>9, <2>1, <2>2 DEF TaskSound
<1>21. ASSUME NEW j \in 1..Tasks, j # i
       PROVE  TaskSound(j)'
  <2>1. TaskSound(j) /\ outcome'[j] = outcome[j] /\ holder[j] \in 0..N
    BY <1>4, <1>9, <1>21 DEF PoolType
  <2>2. holder[j] # 0 => holder[j] \in Workers
    BY <2>1 DEF Workers, PoolParameters
  <2>3. ASSUME NEW v \in Workers, worker[v].pc \in Has, worker[v].task = j
        PROVE  worker'[v].pc \in Has /\ worker'[v].task = j
    BY <1>5, <1>7, <1>21, <2>3 DEF GoesTo
  <2>4. holder[j] # 0 /\ holder[j] \notin main.killed =>
         \/ outcome'[j] = NoResult /\ worker'[holder[j]].pc \in Has /\ worker'[holder[j]].task = j
         \/ outcome'[j] # NoResult /\ (poolResults[j] = outcome'[j] \/ Unread(holder[j], "done", j)')
    <3>1. SUFFICES ASSUME holder[j] # 0, holder[j] \notin main.killed
                   PROVE  \/ outcome'[j] = NoResult /\ worker'[holder[j]].pc \in Has /\ worker'[holder[j]].task = j
                          \/ outcome'[j] # NoResult /\ (poolResults[j] = outcome'[j] \/ Unread(holder[j], "done", j)')
      OBVIOUS
    <3>2. PICK v \in Workers : v = holder[j]
      BY <2>2, <3>1
    <3>3. \/ outcome[j] = NoResult /\ worker[v].pc \in Has /\ worker[v].task = j
          \/ outcome[j] # NoResult /\ (poolResults[j] = outcome[j] \/ Unread(v, "done", j))
      BY <2>1, <3>1, <3>2 DEF TaskSound
    <3>4. Unread(v, "done", j) => Unread(v, "done", j)'
      BY <1>19
    <3>5. Unread(v, "done", j)' <=> Unread(holder[j], "done", j)'
      BY <1>2, <3>2
    <3>6. QED
      BY <2>1, <2>3, <3>2, <3>3, <3>4, <3>5
  <2>5. QED
    BY <1>2, <2>1, <2>4 DEF TaskSound
<1>22. \E l \in 0..Tasks + N : Queued(l)'
  <2>1. PICK k \in 0..Tasks + N : Queued(k)
    BY DEF PoolSound
  <2>2. \A v \in Workers : worker'[v].pc \in {"stopping", "flushing", "dead"} =>
            worker[v].pc \in {"stopping", "flushing", "dead"}
    BY <1>7 DEF GoesTo
  <2>3. QED
    BY <1>2, <2>1, <2>2, QueueStays
<1>23. QED
  BY <1>2, <1>13, <1>14, <1>15, <1>18, <1>20, <1>21, <1>22 DEF PoolSound

\* Messages are moved to the pipe.
LEMMA FlushSound ==
  ASSUME PoolParameters, PoolType, PoolSound, ~main.aborted, NEW w \in Workers, Flush(w)
  PROVE  PoolSound'
<1> HIDE DEF Message, WorkerRecord, MainRecord
<1>1. /\ tq' = tq /\ main' = main /\ poolResults' = poolResults /\ outcome' = outcome /\ holder' = holder
      /\ Alive(w) /\ worker[w].box # <<>> /\ rq' = rq \o worker[w].box
  BY DEF Flush
<1>2. /\ MessagesSound /\ ExitIsLast /\ \A v \in Workers : WorkerSound(v)
      /\ \A i \in 1..Tasks : TaskSound(i)
      /\ main.pc \in {"finally", "reap"} => worker[w].pc = "dead"
  BY DEF PoolSound
<1>3. GoesTo(w, worker[w].pc, worker[w].task, worker[w].emu, <<>>)
  BY FlushGoes
<1>4. PICK q \in Seq(Message) : q = rq
  BY DEF PoolType
<1>5. PICK box \in Seq(Message) : box = worker[w].box
  BY Fields
<1>6. PICK u : u = q \o box
  OBVIOUS
<1>7. /\ rq' = u /\ Len(u) = Len(q) + Len(box) /\ Len(q) \in Nat /\ Len(box) \in Nat
      /\ \A j \in 1..Len(q) : u[j] = q[j] /\ q[j] \in Message
      /\ \A j \in 1..Len(box) : u[Len(q) + j] = box[j] /\ box[j] \in Message
      /\ \A j \in 1..Len(u) : j \in 1..Len(q) \/ j - Len(q) \in 1..Len(box)
  BY <1>1, <1>4, <1>5, <1>6, CatMessages
<1>8. ASSUME NEW j \in 1..Len(u), ~ (j \in 1..Len(q))
      PROVE  \E l \in 1..Len(box) : j = Len(q) + l /\ u[j] = box[l]
  <2>1. PICK l \in 1..Len(box) : l = j - Len(q)
    BY <1>7, <1>8
  <2>2. j = Len(q) + l
    BY <1>7, <2>1
  <2>3. QED
    BY <1>7, <2>2
<1>9. \A v \in Workers : /\ worker'[v].pc = worker[v].pc /\ worker'[v].task = worker[v].task
                         /\ worker'[v].sig = worker[v].sig
                         /\ worker'[v].box = IF v = w THEN <<>> ELSE worker[v].box
  BY <1>3 DEF GoesTo
<1>10. /\ \A j \in 1..Len(q) : Truthful(q[j])
       /\ \A j \in 1..Len(box) : Truthful(box[j]) /\ box[j].from = w
  BY <1>2, <1>4, <1>5 DEF MessagesSound, BoxSound
<1>11. ASSUME NEW m \in Message, Truthful(m)
       PROVE  Truthful(m)'
  <2>1. m.from \in Workers
    BY DEF Message
  <2>2. QED
    BY <1>1, <1>9, <1>11, <2>1 DEF Truthful
<1>12. MessagesSound'
  <2>1. ASSUME NEW j \in 1..Len(u)
        PROVE  Truthful(u[j])'
    <3>1. CASE j \in 1..Len(q)
      BY <1>7, <1>10, <1>11, <3>1
    <3>2. CASE ~ (j \in 1..Len(q))
      BY <1>7, <1>8, <1>10, <1>11, <3>2
    <3>3. QED
      BY <3>1, <3>2
  <2>2. \A j \in 1..Len(rq') : Truthful(rq[j])'
    BY <1>7, <2>1
  <2>3. ASSUME NEW v \in Workers, v # w
        PROVE  BoxSound(v)'
    <3>1. PICK b \in Seq(Message) : b = worker[v].box
      BY Fields
    <3>2. \A j \in 1..Len(b) : b[j] \in Message /\ Truthful(b[j]) /\ b[j].from = v
      BY <1>2, <3>1 DEF MessagesSound, BoxSound
    <3>3. worker'[v].box = b
      BY <1>9, <2>3, <3>1
    <3>4. \A j \in 1..Len(b) : Truthful(b[j])' /\ b[j].from = v
      BY <1>11, <3>2
    <3>5. QED
      BY <3>3, <3>4 DEF BoxSound
  <2>4. BoxSound(w)'
    <3>1. \A j \in 1..Len(<<>>) : FALSE
      BY NoMessages
    <3>2. QED
      BY <1>9, <3>1 DEF BoxSound
  <2>5. QED
    BY <2>2, <2>3, <2>4 DEF MessagesSound
<1>13. \A j \in 1..Len(q) : q[j].from \in Workers
  BY <1>7 DEF Message
<1>14. ExitIsLast'
  <2>1. \A v \in Workers : \A j \in 1..Len(worker'[v].box) : worker'[v].box[j].kind = "exit" => j = Len(worker'[v].box)
    <3>1. \A j \in 1..Len(<<>>) : FALSE
      BY NoMessages
    <3>2. QED
      BY <1>2, <1>9, <3>1 DEF ExitIsLast
  <2>2. ASSUME NEW j \in 1..Len(u), u[j].kind = "exit"
        PROVE  worker'[u[j].from].box = <<>> /\ \A l \in j+1..Len(u) : u[l].from # u[j].from
    <3>1. CASE j \in 1..Len(q)
      <4>1. /\ q[j].kind = "exit" /\ worker[q[j].from].box = <<>> /\ q[j].from # w
            /\ \A l \in j+1..Len(q) : q[l].from # q[j].from
        BY <1>1, <1>2, <1>4, <1>7, <2>2, <3>1 DEF ExitIsLast
      <4>2. worker'[q[j].from].box = <<>>
        BY <1>9, <1>13, <3>1, <4>1
      <4>3. ASSUME NEW l \in j+1..Len(u)
            PROVE  u[l].from # q[j].from
        <5>1. CASE l \in 1..Len(q)
          <6>1. l \in j+1..Len(q)
            BY <3>1, <5>1
          <6>2. QED
            BY <1>7, <4>1, <5>1, <6>1
        <5>2. CASE ~ (l \in 1..Len(q))
          <6>1. l \in 1..Len(u)
            BY <3>1
          <6>2. QED
            BY <1>8, <1>10, <4>1, <5>2, <6>1
        <5>3. QED
          BY <5>1, <5>2
      <4>4. QED
        BY <1>7, <3>1, <4>2, <4>3
    <3>2. CASE ~ (j \in 1..Len(q))
      <4>1. PICK l \in 1..Len(box) : j = Len(q) + l /\ u[j] = box[l]
        BY <1>8, <3>2
      <4>2. l = Len(box) /\ box[l].from = w
        BY <1>2, <1>5, <1>10, <2>2, <4>1 DEF ExitIsLast
      <4>3. j = Len(u)
        BY <1>7, <4>1, <4>2
      <4>4. QED
        BY <1>7, <1>9, <4>1, <4>2, <4>3
    <3>3. QED
      BY <3>1, <3>2
  <2>3. QED
    BY <1>7, <2>1, <2>2 DEF ExitIsLast
<1>15. ASSUME NEW v \in Workers, NEW kind, NEW i, Unread(v, kind, i)
       PROVE  Unread(v, kind, i)'
  <2>1. Told(u, v, kind, i) <=> Told(q, v, kind, i) \/ Told(box, v, kind, i)
    BY <1>6, ToldCat
  <2>2. CASE v = w
    BY <1>4, <1>5, <1>7, <1>15, <2>1, <2>2 DEF Unread
  <2>3. CASE v # w
    BY <1>4, <1>7, <1>9, <1>15, <2>1, <2>3 DEF Unread
  <2>4. QED
    BY <2>2, <2>3
<1>16. ASSUME NEW v \in Workers
       PROVE  WorkerSound(v)'
  <2>1. WorkerSound(v)
    BY <1>2
  <2>2. Unread(v, "exit", 0) => Unread(v, "exit", 0)'
    BY <1>15
  <2>3. ASSUME v \notin main.killed, main.pc # "spawn", v \notin main.live
        PROVE  /\ worker'[v].pc \in {"flushing", "dead"} /\ worker'[v].box = <<>>
               /\ \A j \in 1..Len(u) : u[j].from # v
    <3>1. /\ worker[v].pc \in {"flushing", "dead"} /\ worker[v].box = <<>>
          /\ \A j \in 1..Len(q) : q[j].from # v
      BY <1>4, <2>1, <2>3 DEF WorkerSound
    <3>2. v # w
      BY <1>1, <3>1
    <3>3. \A j \in 1..Len(u) : u[j].from # v
      BY <1>7, <1>8, <1>10, <3>1, <3>2
    <3>4. QED
      BY <1>9, <3>1, <3>2, <3>3
  <2>4. worker'[v].pc \in {"new", "dead"} => worker'[v].box = <<>>
    BY <1>9, <2>1 DEF WorkerSound
  <2>5. QED
    BY <1>1, <1>7, <1>9, <2>1, <2>2, <2>3, <2>4 DEF WorkerSound
<1>17. ASSUME NEW i \in 1..Tasks
       PROVE  TaskSound(i)'
  <2>1. TaskSound(i) /\ holder[i] \in 0..N
    BY <1>2 DEF PoolType
  <2>2. holder[i] # 0 => holder[i] \in Workers
    BY <2>1 DEF Workers, PoolParameters
  <2>3. QED
    BY <1>1, <1>9, <1>15, <2>1, <2>2 DEF TaskSound
<1>18. \E l \in 0..Tasks + N : Queued(l)'
  <2>1. PICK k \in 0..Tasks + N : Queued(k)
    BY DEF PoolSound
  <2>2. QED
    BY <1>1, <1>9, <2>1, QueueStays
<1>19. main.pc \notin {"finally", "reap"}
  BY <1>1, <1>2 DEF Alive
<1>20. QED
  BY <1>1, <1>12, <1>14, <1>16, <1>17, <1>18, <1>19 DEF PoolSound

\* A worker is killed with what it has not sent.
LEMMA KillSound ==
  ASSUME PoolParameters, PoolType, PoolSound, ~main.aborted, NEW w \in Workers, Kill(w)
  PROVE  PoolSound'
<1> HIDE DEF Message, WorkerRecord, MainRecord
<1>1. /\ tq' = tq /\ rq' = rq /\ poolResults' = poolResults /\ outcome' = outcome /\ holder' = holder /\ Alive(w)
      /\ main' = [main EXCEPT !.killed = main.killed \cup {w}]
  BY DEF Kill
<1>2. /\ main'.killed = main.killed \cup {w} /\ main'.pc = main.pc /\ main'.live = main.live
      /\ main'.running = main.running /\ main'.check = main.check
  BY <1>1 DEF PoolType, MainRecord
<1>3. /\ MessagesSound /\ ExitIsLast /\ \A v \in Workers : WorkerSound(v)
      /\ \A i \in 1..Tasks : TaskSound(i)
      /\ main.pc \in {"finally", "reap"} => worker[w].pc = "dead"
  BY DEF PoolSound
<1>4. GoesTo(w, "dead", worker[w].task, worker[w].emu, <<>>)
  BY KillGoes
<1>5. PICK q \in Seq(Message) : q = rq
  BY DEF PoolType
<1>6. ASSUME NEW m \in Message, Truthful(m)
      PROVE  Truthful(m)'
  <2>1. m.from \in Workers
    BY DEF Message
  <2>2. QED
    BY <1>1, <1>4, <1>6, <2>1 DEF Truthful, GoesTo
<1>7. MessagesSound'
  <2>1. \A j \in 1..Len(q) : q[j] \in Message /\ Truthful(q[j])
    BY <1>3, <1>5 DEF MessagesSound
  <2>2. \A j \in 1..Len(q) : Truthful(q[j])'
    BY <1>6, <2>1
  <2>3. ASSUME NEW v \in Workers, v # w
        PROVE  BoxSound(v)'
    <3>1. PICK b \in Seq(Message) : b = worker[v].box
      BY Fields
    <3>2. \A j \in 1..Len(b) : b[j] \in Message /\ Truthful(b[j]) /\ b[j].from = v
      BY <1>3, <3>1 DEF MessagesSound, BoxSound
    <3>3. worker'[v].box = b
      BY <1>4, <2>3, <3>1 DEF GoesTo
    <3>4. \A j \in 1..Len(b) : Truthful(b[j])' /\ b[j].from = v
      BY <1>6, <3>2
    <3>5. QED
      BY <3>3, <3>4 DEF BoxSound
  <2>4. BoxSound(w)'
    <3>1. \A j \in 1..Len(<<>>) : FALSE
      BY NoMessages
    <3>2. QED
      BY <1>4, <3>1 DEF BoxSound, GoesTo
  <2>5. QED
    BY <1>1, <1>5, <2>2, <2>3, <2>4 DEF MessagesSound
<1>8. ExitIsLast'
  <2>1. \A j \in 1..Len(<<>>) : FALSE
    BY NoMessages
  <2>2. \A j \in 1..Len(rq) : rq[j].from \in Workers
    <3>1. \A j \in 1..Len(q) : q[j] \in Message
      OBVIOUS
    <3>2. QED
      BY <1>5, <3>1 DEF Message
  <2>3. \A v \in Workers : worker'[v].box = IF v = w THEN <<>> ELSE worker[v].box
    BY <1>4 DEF GoesTo
  <2>4. QED
    BY <1>1, <1>3, <2>1, <2>2, <2>3 DEF ExitIsLast
<1>9. ASSUME NEW v \in Workers, v # w
      PROVE  WorkerSound(v)'
  <2>1. WorkerSound(v) /\ worker'[v] = worker[v]
    BY <1>3, <1>4, <1>9 DEF GoesTo
  <2>2. Unread(v, "exit", 0)' <=> Unread(v, "exit", 0)
    BY <1>1, <2>1 DEF Unread, Told
  <2>3. v \in main'.killed <=> v \in main.killed
    BY <1>2, <1>9
  <2>4. v \in main'.check \ main'.killed <=> v \in main.check \ main.killed
    BY <1>2, <2>3
  <2>5. QED
    BY <1>1, <1>2, <2>1, <2>2, <2>3, <2>4 DEF WorkerSound
<1>10. WorkerSound(w)'
  <2>1. WorkerSound(w)
    BY <1>3
  <2>2. w \in main'.killed /\ ~ (w \in main'.check \ main'.killed)
    BY <1>2
  <2>3. QED
    BY <1>1, <1>2, <1>4, <2>1, <2>2 DEF WorkerSound, GoesTo, Has
<1>11. ASSUME NEW i \in 1..Tasks
       PROVE  TaskSound(i)'
  <2>1. TaskSound(i) /\ holder[i] \in 0..N
    BY <1>3 DEF PoolType
  <2>2. holder[i] # 0 => holder[i] \in Workers
    BY <2>1 DEF Workers, PoolParameters
  <2>3. \A v \in Workers : v # w => worker'[v] = worker[v] /\ (Unread(v, "done", i) => Unread(v, "done", i)')
    BY <1>1, <1>4 DEF Unread, Told, GoesTo
  <2>4. CASE holder[i] \in main'.killed
    BY <1>1, <1>2, <2>1, <2>4 DEF TaskSound
  <2>5. CASE holder[i] \notin main'.killed
    <3>1. holder[i] \notin main.killed /\ holder[i] # w
      BY <1>2, <2>5
    <3>2. QED
      BY <1>1, <1>2, <2>1, <2>2, <2>3, <3>1 DEF TaskSound
  <2>6. QED
    BY <2>4, <2>5
<1>12. \E l \in 0..Tasks + N : Queued(l)'
  <2>1. PICK k \in 0..Tasks + N : Queued(k)
    BY DEF PoolSound
  <2>2. \A v \in Workers : v # w => worker'[v].pc = worker[v].pc
    BY <1>4 DEF GoesTo
  <2>3. QED
    BY <1>1, <1>2, <2>1, <2>2, QueueStays
<1>13. main'.pc \notin {"finally", "reap"}
  BY <1>1, <1>2, <1>3 DEF Alive
<1>14. QED
  BY <1>7, <1>8, <1>9, <1>10, <1>11, <1>12, <1>13 DEF PoolSound

\* A step of the main process sends and takes nothing: the messages, the tasks and the workers are as they were, but
\* for a worker that is started.
Elsewhere ==
    /\ tq' = tq /\ rq' = rq /\ holder' = holder /\ outcome' = outcome /\ main'.killed = main.killed
    /\ \A v \in Workers : /\ worker'[v].box = worker[v].box /\ worker'[v].task = worker[v].task
                          /\ worker'[v].pc = worker[v].pc \/ (worker[v].pc = "new" /\ worker'[v].pc = "idle")

\* Such a step keeps what is said of the queue and the messages, and of the tasks where no result comes.
LEMMA ElsewhereSound ==
  ASSUME PoolParameters, PoolType, PoolSound, Elsewhere
  PROVE  /\ (\E k \in 0..Tasks + N : Queued(k)')
         /\ MessagesSound' /\ ExitIsLast'
         /\ \A v \in Workers : \A kind, i : Unread(v, kind, i)' <=> Unread(v, kind, i)
         /\ \A i \in 1..Tasks : poolResults'[i] = poolResults[i] => TaskSound(i)'
<1> HIDE DEF Message, WorkerRecord, MainRecord
<1>1. /\ MessagesSound /\ ExitIsLast /\ \A i \in 1..Tasks : TaskSound(i)
  BY DEF PoolSound
<1>2. PICK q \in Seq(Message) : q = rq
  BY DEF PoolType
<1>3. \A j \in 1..Len(q) : q[j] \in Message
  OBVIOUS
<1>4. \A m \in Message : m.from \in Workers
  BY DEF Message
<1>5. ASSUME NEW m \in Message, Truthful(m)
      PROVE  Truthful(m)'
  BY <1>4, <1>5 DEF Truthful, Elsewhere
<1>6. MessagesSound'
  <2>1. \A j \in 1..Len(q) : Truthful(q[j])'
    BY <1>1, <1>2, <1>3, <1>5 DEF MessagesSound
  <2>2. ASSUME NEW v \in Workers
        PROVE  BoxSound(v)'
    <3>1. PICK b \in Seq(Message) : b = worker[v].box
      BY Fields
    <3>2. \A j \in 1..Len(b) : b[j] \in Message /\ Truthful(b[j]) /\ b[j].from = v
      BY <1>1, <3>1 DEF MessagesSound, BoxSound
    <3>3. worker'[v].box = b
      BY <3>1 DEF Elsewhere
    <3>4. \A j \in 1..Len(b) : Truthful(b[j])' /\ b[j].from = v
      BY <1>5, <3>2
    <3>5. QED
      BY <3>3, <3>4 DEF BoxSound
  <2>3. QED
    BY <1>2, <2>1, <2>2 DEF MessagesSound, Elsewhere
<1>7. ExitIsLast'
  BY <1>1, <1>2, <1>3, <1>4 DEF ExitIsLast, Elsewhere
<1>8. \A v \in Workers : \A kind, i : Unread(v, kind, i)' <=> Unread(v, kind, i)
  BY DEF Unread, Told, Elsewhere
<1>9. ASSUME NEW i \in 1..Tasks, poolResults'[i] = poolResults[i]
      PROVE  TaskSound(i)'
  <2>1. TaskSound(i) /\ holder[i] \in 0..N
    BY <1>1 DEF PoolType
  <2>2. holder[i] # 0 => holder[i] \in Workers
    BY <2>1 DEF Workers, PoolParameters
  <2>3. holder'[i] = holder[i] /\ outcome'[i] = outcome[i] /\ main'.killed = main.killed
    BY DEF Elsewhere
  <2>4. \A v \in Workers : worker[v].pc \in Has => worker'[v].pc \in Has /\ worker'[v].task = worker[v].task
    BY DEF Elsewhere, Has
  <2>5. \A v \in Workers : Unread(v, "done", i) => Unread(v, "done", i)'
    BY <1>8
  <2>6. QED
    BY <1>9, <2>1, <2>2, <2>3, <2>4, <2>5 DEF TaskSound
<1>10. \E k \in 0..Tasks + N : Queued(k)'
  <2>1. PICK k \in 0..Tasks + N : Queued(k)
    BY DEF PoolSound
  <2>2. \A v \in Workers : worker'[v].pc \in {"stopping", "flushing", "dead"} =>
            worker[v].pc \in {"stopping", "flushing", "dead"}
    BY DEF Elsewhere
  <2>3. QED
    BY <2>1, <2>2, QueueStays DEF Elsewhere
<1>11. QED
  BY <1>6, <1>7, <1>8, <1>9, <1>10

\* What a worker itself does not change.
LEMMA ElsewhereWorker ==
  ASSUME PoolParameters, PoolType, PoolSound, Elsewhere, NEW v \in Workers,
         worker'[v].sig = FALSE,
         worker'[v].pc = "new" => main'.pc = "spawn",
         main'.running[v] \in {0, main.running[v]},
         (main'.pc = "spawn" \/ v \in main'.live) => (main.pc = "spawn" \/ v \in main.live),
         v \notin main.killed /\ main'.pc # "spawn" /\ v \notin main'.live =>
             \/ main.pc # "spawn" /\ v \notin main.live
             \/ worker[v].pc = "dead" /\ worker[v].box = <<>> /\ ~ Unread(v, "exit", 0),
         main'.pc = "sweep" /\ v \in main'.check \ main.killed => worker[v].pc # "dead"
  PROVE  WorkerSound(v)'
<1> HIDE DEF Message, WorkerRecord, MainRecord
<1>1. WorkerSound(v) /\ \A kind, i : Unread(v, kind, i)' <=> Unread(v, kind, i)
  BY ElsewhereSound DEF PoolSound
<1>2. /\ rq' = rq /\ holder' = holder /\ outcome' = outcome /\ main'.killed = main.killed
      /\ worker'[v].box = worker[v].box /\ worker'[v].task = worker[v].task
      /\ worker'[v].pc = worker[v].pc \/ (worker[v].pc = "new" /\ worker'[v].pc = "idle")
  BY DEF Elsewhere
<1>3. v \notin main.killed /\ main'.pc # "spawn" /\ v \notin main'.live =>
          /\ worker[v].pc \in {"flushing", "dead"} /\ worker[v].box = <<>>
          /\ \A j \in 1..Len(rq) : rq[j].from # v
  <2>1. ASSUME v \notin main.killed, worker[v].pc = "dead", ~ Unread(v, "exit", 0)
        PROVE  main.pc # "spawn" /\ v \notin main.live
    BY <1>1, <2>1 DEF WorkerSound
  <2>2. QED
    BY <1>1, <2>1 DEF WorkerSound
<1>4. QED
  BY <1>1, <1>2, <1>3 DEF WorkerSound, Has

\* A worker process is started, the last one ends the starting.
LEMMA SpawnSound ==
  ASSUME PoolParameters, PoolType, PoolSound, ~main.aborted, NEW w \in Workers, Spawn(w)
  PROVE  PoolSound'
<1> HIDE DEF Message, WorkerRecord, MainRecord
<1>1. /\ tq' = tq /\ rq' = rq /\ poolResults' = poolResults /\ outcome' = outcome /\ holder' = holder
      /\ main.pc = "spawn" /\ Started = 1..w-1
  BY DEF Spawn
<1>2. GoesTo(w, "idle", worker[w].task, worker[w].emu, worker[w].box)
  BY SetGoes DEF Spawn, Phases
<1>3. /\ main'.killed = main.killed /\ main'.running = main.running
      /\ main'.pc = IF w = N THEN "collect" ELSE "spawn"
      /\ w = N => main'.live = Workers
  <2>1. main' = IF w = N THEN [main EXCEPT !.pc = "collect", !.live = Workers] ELSE main
    BY DEF Spawn
  <2>2. main \in MainRecord
    BY DEF PoolType
  <2>3. QED
    BY <1>1, <2>1, <2>2 DEF MainRecord
<1>4. worker[w].pc = "new"
  <2>1. w \notin 1..w-1
    BY DEF Workers, PoolParameters
  <2>2. QED
    BY <1>1, <2>1 DEF Started
<1>5. Elsewhere
  BY <1>1, <1>2, <1>3, <1>4 DEF Elsewhere, GoesTo
<1>6. w = N => \A v \in Workers : v # w => worker[v].pc # "new"
  <2>1. w = N => \A v \in Workers : v # w => v \in 1..w-1
    BY DEF Workers, PoolParameters
  <2>2. QED
    BY <1>1, <2>1 DEF Started
<1>7. ASSUME NEW v \in Workers
      PROVE  WorkerSound(v)'
  <2>1. worker'[v].sig = FALSE
    <3>1. ~worker[v].sig /\ worker'[v].sig = worker[v].sig /\ worker[v].sig \in BOOLEAN
      BY <1>2, Fields DEF PoolSound, WorkerSound, GoesTo
    <3>2. QED
      BY <3>1
  <2>2. worker'[v].pc = "new" => main'.pc = "spawn"
    BY <1>2, <1>3, <1>6 DEF GoesTo
  <2>3. main'.running[v] \in {0, main.running[v]}
    BY <1>3
  <2>4. ~ (main'.pc # "spawn" /\ v \notin main'.live) /\ main'.pc # "sweep"
    BY <1>3
  <2>5. QED
    BY <1>1, <1>5, <2>1, <2>2, <2>3, <2>4, ElsewhereWorker
<1>8. \A i \in 1..Tasks : TaskSound(i)'
  BY <1>1, <1>5, ElsewhereSound
<1>9. main'.pc \notin {"finally", "reap"}
  BY <1>3
<1>10. QED
  BY <1>5, <1>7, <1>8, <1>9, ElsewhereSound DEF PoolSound

\* The reading times out: a live worker that has ended by now has told so, unless it was killed.
LEMMA TimeoutSound ==
  ASSUME PoolParameters, PoolType, PoolSound, ~main.aborted, Timeout
  PROVE  PoolSound'
<1> HIDE DEF Message, WorkerRecord, MainRecord
<1>1. /\ tq' = tq /\ rq' = rq /\ poolResults' = poolResults /\ outcome' = outcome /\ holder' = holder /\ worker' = worker
      /\ main.pc = "collect" /\ rq = <<>>
  BY DEF Timeout
<1>2. /\ main'.killed = main.killed /\ main'.running = main.running /\ main'.live = main.live
      /\ main'.pc = "sweep" /\ main'.check = main.live
  BY DEF Timeout, PoolType, MainRecord
<1>3. Elsewhere
  BY <1>1, <1>2 DEF Elsewhere
<1>4. ASSUME NEW v \in Workers
      PROVE  WorkerSound(v)'
  <2>1. WorkerSound(v) /\ worker[v].sig \in BOOLEAN
    BY Fields DEF PoolSound
  <2>2. ASSUME v \in main.live, v \notin main.killed, worker[v].pc = "dead"
        PROVE  FALSE
    <3>1. Unread(v, "exit", 0) /\ worker[v].box = <<>>
      BY <1>1, <2>1, <2>2 DEF WorkerSound
    <3>2. \A j \in 1..Len(<<>>) : FALSE
      BY NoMessages
    <3>3. QED
      BY <1>1, <3>1, <3>2 DEF Unread, Told
  <2>3. worker'[v].sig = FALSE /\ worker'[v].pc # "new"
    BY <1>1, <2>1 DEF WorkerSound
  <2>4. QED
    BY <1>1, <1>2, <1>3, <2>2, <2>3, ElsewhereWorker
<1>5. \A i \in 1..Tasks : TaskSound(i)'
  BY <1>1, <1>3, ElsewhereSound
<1>6. QED
  BY <1>2, <1>3, <1>4, <1>5, ElsewhereSound DEF PoolSound

\* A worker is looked at: one found dead here was killed, with the task it holds.
LEMMA LookSound ==
  ASSUME PoolParameters, PoolType, PoolSound, ~main.aborted, NEW w \in Workers, Look(w)
  PROVE  PoolSound'
<1> HIDE DEF Message, WorkerRecord, MainRecord
<1>1. /\ tq' = tq /\ rq' = rq /\ outcome' = outcome /\ holder' = holder /\ worker' = worker
      /\ main.pc = "sweep" /\ w \in main.check
  BY DEF Look
<1>2. /\ main'.killed = main.killed /\ main'.check \subseteq main.check /\ main'.pc \in {"collect", "sweep"}
      /\ Alive(w) => main'.running = main.running /\ main'.live = main.live
      /\ ~Alive(w) => /\ main'.live = main.live \ {w} /\ main'.running[w] = 0
                      /\ \A v \in Workers : v # w => main'.running[v] = main.running[v]
  <2>1. PICK next : next = [main EXCEPT !.check = main.check \ {w},
                                        !.pc = IF main.check = {w} THEN "collect" ELSE "sweep"]
    OBVIOUS
  <2>2. main \in MainRecord
    BY DEF PoolType
  <2>3. /\ next \in MainRecord /\ next.killed = main.killed /\ next.check \subseteq main.check
        /\ next.pc \in {"collect", "sweep"} /\ next.running = main.running /\ next.live = main.live
    BY <2>1, <2>2 DEF MainRecord
  <2>4. CASE Alive(w)
    <3>1. main' = next
      BY <2>1, <2>4 DEF Look
    <3>2. QED
      BY <2>3, <2>4, <3>1
  <2>5. CASE ~Alive(w)
    <3>1. main' = [next EXCEPT !.live = next.live \ {w}, !.running[w] = 0]
      BY <2>1, <2>5 DEF Look
    <3>2. QED
      BY <2>3, <2>5, <3>1 DEF MainRecord
  <2>6. QED
    BY <2>4, <2>5
<1>3. Elsewhere
  BY <1>1, <1>2 DEF Elsewhere
<1>4. WorkerSound(w)
  BY DEF PoolSound
<1>5. ~Alive(w) => w \in main.killed
  BY <1>1, <1>4 DEF WorkerSound, Alive
<1>6. ASSUME NEW v \in Workers
      PROVE  WorkerSound(v)'
  <2>1. WorkerSound(v) /\ worker[v].sig \in BOOLEAN
    BY Fields DEF PoolSound
  <2>2. worker'[v].sig = FALSE /\ worker'[v].pc # "new"
    BY <1>1, <2>1 DEF WorkerSound
  <2>3. main'.running[v] \in {0, main.running[v]}
    BY <1>2
  <2>4. v \in main'.live => v \in main.live
    BY <1>2
  <2>5. v \notin main.killed /\ v \notin main'.live => v \notin main.live
    BY <1>2, <1>5
  <2>6. main'.pc # "spawn"
    BY <1>2
  <2>7. main'.pc = "sweep" /\ v \in main'.check \ main.killed => worker[v].pc # "dead"
    BY <1>1, <1>2, <2>1 DEF WorkerSound
  <2>8. QED
    BY <1>1, <1>3, <2>2, <2>3, <2>4, <2>5, <2>6, <2>7, ElsewhereWorker
<1>7. ASSUME NEW i \in 1..Tasks
      PROVE  TaskSound(i)'
  <2>1. CASE poolResults'[i] = poolResults[i]
    BY <1>3, <2>1, ElsewhereSound
  <2>2. CASE poolResults'[i] # poolResults[i]
    <3>1. /\ ~Alive(w) /\ main.running[w] # 0
          /\ poolResults' = [poolResults EXCEPT ![main.running[w]] = "died"]
      BY <2>2 DEF Look
    <3>2. main.running[w] = i /\ poolResults'[i] = "died"
      BY <2>2, <3>1 DEF PoolType
    <3>3. holder[i] = w /\ w \in main.killed /\ w # 0
      BY <1>4, <1>5, <3>1, <3>2 DEF WorkerSound, Workers
    <3>4. QED
      BY <1>1, <1>2, <3>2, <3>3 DEF TaskSound
  <2>3. QED
    BY <2>1, <2>2
<1>8. QED
  BY <1>2, <1>3, <1>6, <1>7, ElsewhereSound DEF PoolSound

\* All workers have ended, and are told to end once more.
LEMMA EndingSound ==
  ASSUME PoolParameters, PoolType, PoolSound, ~main.aborted, Joined \/ TerminateAll
  PROVE  PoolSound'
<1> HIDE DEF Message, WorkerRecord, MainRecord
<1>1. /\ tq' = tq /\ rq' = rq /\ outcome' = outcome /\ holder' = holder /\ poolResults' = poolResults
      /\ main.pc \in {"collect", "finally"}
  BY DEF Joined, TerminateAll
<1>2. /\ main'.killed = main.killed /\ main'.running = main.running /\ main'.live = main.live
      /\ main'.pc \in {"finally", "reap"}
  BY DEF Joined, TerminateAll, PoolType, MainRecord
<1>3. \A v \in Workers : WorkerSound(v) /\ worker[v].sig = FALSE
  BY Fields DEF PoolSound, WorkerSound
<1>4. \A v \in Workers : worker[v].pc = "dead" /\ v \notin main.live
  <2>1. CASE TerminateAll
    BY <2>1 DEF TerminateAll, PoolSound
  <2>2. CASE Joined
    <3>1. main.live = {} /\ main.pc = "collect" /\ \A v \in Started : ~Alive(v)
      BY <2>2 DEF Joined
    <3>2. QED
      BY <1>3, <3>1 DEF WorkerSound, Started, Alive
  <2>3. QED
    BY <2>1, <2>2
<1>5. \A v \in Workers : worker'[v].pc = worker[v].pc /\ worker'[v].task = worker[v].task
                         /\ worker'[v].box = worker[v].box /\ worker'[v].sig = FALSE
  <2>1. CASE worker' = worker
    BY <1>3, <2>1
  <2>2. CASE TerminateAll
    <3>1. worker' = [v \in Workers |-> [worker[v] EXCEPT !.sig = worker[v].sig \/ Alive(v)]]
      BY <2>2 DEF TerminateAll
    <3>2. ASSUME NEW v \in Workers
          PROVE  worker'[v].pc = worker[v].pc /\ worker'[v].task = worker[v].task
                 /\ worker'[v].box = worker[v].box /\ worker'[v].sig = (worker[v].sig \/ Alive(v))
      BY <3>1 DEF PoolType, WorkerRecord
    <3>3. \A v \in Workers : ~Alive(v)
      BY <1>4 DEF Alive
    <3>4. QED
      BY <1>3, <3>2, <3>3
  <2>3. QED
    BY <2>1, <2>2 DEF Joined
<1>6. Elsewhere
  BY <1>1, <1>2, <1>5 DEF Elsewhere
<1>7. ASSUME NEW v \in Workers
      PROVE  WorkerSound(v)'
  <2>1. worker'[v].pc # "new" /\ main.pc # "spawn" /\ main'.pc \notin {"spawn", "sweep"}
    BY <1>1, <1>2, <1>4, <1>5
  <2>2. QED
    BY <1>2, <1>5, <1>6, <2>1, ElsewhereWorker
<1>8. \A i \in 1..Tasks : TaskSound(i)'
  BY <1>1, <1>6, ElsewhereSound
<1>9. \A v \in Workers : worker'[v].pc = "dead" /\ v \notin main'.live
  BY <1>2, <1>4, <1>5
<1>10. QED
  BY <1>6, <1>7, <1>8, <1>9, ElsewhereSound DEF PoolSound

\* The head of a sequence of messages, and the rest.
LEMMA ToldTail ==
  ASSUME NEW q \in Seq(Message), q # <<>>, NEW u, u = Tail(q)
  PROVE  /\ Len(q) \in Nat \ {0} /\ Len(u) = Len(q) - 1 /\ u \in Seq(Message) /\ Head(q) = q[1] /\ q[1] \in Message
         /\ \A j \in 1..Len(u) : u[j] = q[j + 1] /\ u[j] \in Message
         /\ \A w, kind, i : Told(q, w, kind, i) =>
                \/ q[1].kind = kind /\ q[1].from = w /\ q[1].task = i
                \/ Told(u, w, kind, i)
<1> HIDE DEF Message
<1>1. /\ u \in Seq(Message) /\ Len(u) = Len(q) - 1 /\ \A j \in 1..Len(u) : u[j] = q[j + 1]
  BY HeadTailProperties
<1>2. Len(q) \in Nat \ {0}
  OBVIOUS
<1>3. q[1] \in Message /\ Head(q) = q[1]
  BY <1>2
<1>4. \A j \in 1..Len(u) : u[j] \in Message
  BY <1>1
<1>5. ASSUME NEW w, NEW kind, NEW i, NEW j \in 1..Len(q), q[j].kind = kind /\ q[j].from = w /\ q[j].task = i, j # 1
      PROVE  Told(u, w, kind, i)
  <2>1. j - 1 \in 1..Len(u) /\ u[j - 1] = q[j]
    BY <1>1, <1>2, <1>5
  <2>2. QED
    BY <1>5, <2>1 DEF Told
<1>6. QED
  BY <1>1, <1>2, <1>3, <1>4, <1>5 DEF Told

\* A message is read.
LEMMA ReceiveSound ==
  ASSUME PoolParameters, PoolType, PoolSound, ~main.aborted, Receive
  PROVE  PoolSound'
<1> HIDE DEF Message, WorkerRecord, MainRecord
<1>1. /\ tq' = tq /\ worker' = worker /\ outcome' = outcome /\ holder' = holder
      /\ main.pc = "collect" /\ rq # <<>> /\ rq' = Tail(rq)
  BY DEF Receive
<1>2. /\ MessagesSound /\ ExitIsLast /\ (\A v \in Workers : WorkerSound(v))
      /\ \A i \in 1..Tasks : TaskSound(i)
  BY DEF PoolSound
<1>3. PICK q \in Seq(Message) : q = rq
  BY DEF PoolType
<1>4. PICK u : u = Tail(q)
  OBVIOUS
<1>5. PICK m : m = q[1]
  OBVIOUS
<1>6. /\ Len(q) \in Nat \ {0} /\ Len(u) = Len(q) - 1 /\ Head(q) = m /\ m \in Message /\ rq' = u
      /\ \A j \in 1..Len(u) : u[j] = q[j + 1] /\ u[j] \in Message
      /\ \A w, kind, i : Told(q, w, kind, i) =>
             (m.kind = kind /\ m.from = w /\ m.task = i) \/ Told(u, w, kind, i)
  BY <1>1, <1>3, <1>4, <1>5, ToldTail
<1>7. m.from \in Workers /\ m.task \in 0..Tasks /\ m.kind \in {"take", "pid", "done", "exit"}
  BY <1>6 DEF Message
<1>8. Truthful(m)
  BY <1>2, <1>3, <1>5, <1>6 DEF MessagesSound
<1>9. /\ m.kind = "take" => Taken(m)
      /\ m.kind = "pid" => PidSeen(m)
      /\ m.kind = "done" => Done(m)
      /\ m.kind = "exit" => Exited(m)
  BY <1>3, <1>6, <1>7 DEF Receive
<1>10. /\ main'.killed = main.killed /\ main'.pc = "collect" /\ main'.check = main.check
       /\ main'.live = IF m.kind = "exit" THEN main.live \ {m.from} ELSE main.live
       /\ \A v \in Workers : main'.running[v] =
              IF v = m.from /\ m.kind = "take" THEN m.task ELSE
              IF v = m.from /\ m.kind = "done" THEN 0 ELSE main.running[v]
  <2>1. main \in MainRecord
    BY DEF PoolType
  <2>2. CASE m.kind = "take"
    <3>1. main' = [main EXCEPT !.running[m.from] = m.task]
      BY <1>9, <2>2 DEF Taken
    <3>2. QED
      BY <1>1, <1>7, <2>1, <2>2, <3>1 DEF MainRecord
  <2>3. CASE m.kind = "pid"
    <3>1. main' = [main EXCEPT !.pids[m.from] = m.task]
      BY <1>9, <2>3 DEF PidSeen
    <3>2. QED
      BY <1>1, <1>7, <2>1, <2>3, <3>1 DEF MainRecord
  <2>4. CASE m.kind = "done"
    <3>1. main' = [main EXCEPT !.running[m.from] = 0]
      BY <1>9, <2>4 DEF Done
    <3>2. QED
      BY <1>1, <1>7, <2>1, <2>4, <3>1 DEF MainRecord
  <2>5. CASE m.kind = "exit"
    <3>1. main' = [main EXCEPT !.live = main.live \ {m.from}]
      BY <1>9, <2>5 DEF Exited
    <3>2. QED
      BY <1>1, <1>7, <2>1, <2>5, <3>1 DEF MainRecord
  <2>6. QED
    BY <1>7, <2>2, <2>3, <2>4, <2>5
<1>11. poolResults' = IF m.kind = "done" THEN [poolResults EXCEPT ![m.task] = m.how] ELSE poolResults
  BY <1>7, <1>9 DEF Taken, PidSeen, Done, Exited
<1>12. \A v \in Workers : \A kind, i : Unread(v, kind, i) =>
           (m.kind = kind /\ m.from = v /\ m.task = i) \/ Unread(v, kind, i)'
  BY <1>1, <1>3, <1>6 DEF Unread
<1>13. MessagesSound'
  <2>1. ASSUME NEW j \in 1..Len(u)
        PROVE  Truthful(u[j])'
    <3>1. j + 1 \in 1..Len(q)
      BY <1>6
    <3>2. Truthful(q[j + 1])
      BY <1>2, <1>3, <3>1 DEF MessagesSound
    <3>3. Truthful(u[j])
      BY <1>6, <3>2
    <3>4. QED
      BY <1>1, <3>3 DEF Truthful
  <2>2. \A j \in 1..Len(rq') : Truthful(rq[j])'
    BY <1>6, <2>1
  <2>3. ASSUME NEW v \in Workers
        PROVE  BoxSound(v)'
    <3>1. BoxSound(v)
      BY <1>2 DEF MessagesSound
    <3>2. QED
      BY <1>1, <3>1 DEF BoxSound, Truthful
  <2>4. QED
    BY <2>2, <2>3 DEF MessagesSound
<1>14. ExitIsLast'
  <2>1. ASSUME NEW j \in 1..Len(u), u[j].kind = "exit"
        PROVE  worker'[u[j].from].box = <<>> /\ \A l \in j+1..Len(u) : u[l].from # u[j].from
    <3>1. j + 1 \in 1..Len(q) /\ q[j + 1].kind = "exit" /\ u[j] = q[j + 1]
      BY <1>6, <2>1
    <3>2. worker[u[j].from].box = <<>> /\ \A l \in j+1+1..Len(q) : q[l].from # u[j].from
      BY <1>2, <1>3, <3>1 DEF ExitIsLast
    <3>3. ASSUME NEW l \in j+1..Len(u)
          PROVE  u[l].from # u[j].from
      <4>1. l \in 1..Len(u) /\ l + 1 \in j+1+1..Len(q)
        BY <1>6
      <4>2. QED
        BY <1>6, <3>2, <4>1
    <3>4. QED
      BY <1>1, <3>2, <3>3
  <2>2. QED
    BY <1>1, <1>2, <1>6, <2>1 DEF ExitIsLast
<1>15. ASSUME NEW v \in Workers
       PROVE  WorkerSound(v)'
  <2>1. WorkerSound(v) /\ worker[v].pc # "new"
    BY <1>1, <1>2 DEF WorkerSound
  <2>2. main'.running[v] # 0 => holder[main'.running[v]] = v
    BY <1>8, <1>10, <2>1 DEF WorkerSound, Truthful
  <2>3. ASSUME v \notin main.killed, worker[v].pc \in {"flushing", "dead"}, v \in main'.live
        PROVE  Unread(v, "exit", 0)'
    <3>1. v \in main.live /\ ~ (m.kind = "exit" /\ m.from = v)
      BY <1>10, <2>3
    <3>2. Unread(v, "exit", 0)
      BY <2>1, <2>3, <3>1 DEF WorkerSound
    <3>3. QED
      BY <1>12, <3>1, <3>2
  <2>4. ASSUME v \notin main.killed, v \notin main'.live
        PROVE  /\ worker[v].pc \in {"flushing", "dead"} /\ worker[v].box = <<>>
               /\ \A j \in 1..Len(u) : u[j].from # v
    <3>1. CASE v \notin main.live
      <4>1. /\ worker[v].pc \in {"flushing", "dead"} /\ worker[v].box = <<>>
            /\ \A j \in 1..Len(q) : q[j].from # v
        BY <1>1, <1>3, <2>1, <2>4, <3>1 DEF WorkerSound
      <4>2. \A j \in 1..Len(u) : j + 1 \in 1..Len(q)
        BY <1>6
      <4>3. QED
        BY <1>6, <4>1, <4>2
    <3>2. CASE v \in main.live
      <4>1. m.kind = "exit" /\ m.from = v
        BY <1>10, <2>4, <3>2
      <4>2. 1 \in 1..Len(q)
        BY <1>6
      <4>3. worker[v].box = <<>> /\ \A l \in 1+1..Len(q) : q[l].from # v
        BY <1>2, <1>3, <1>5, <4>1, <4>2 DEF ExitIsLast
      <4>4. worker[v].pc \in {"flushing", "dead"}
        BY <1>8, <4>1 DEF Truthful
      <4>5. \A j \in 1..Len(u) : j + 1 \in 1+1..Len(q)
        BY <1>6
      <4>6. QED
        BY <1>6, <4>3, <4>4, <4>5
    <3>3. QED
      BY <3>1, <3>2
  <2>5. QED
    BY <1>1, <1>6, <1>10, <2>1, <2>2, <2>3, <2>4 DEF WorkerSound
<1>16. ASSUME NEW i \in 1..Tasks
       PROVE  TaskSound(i)'
  <2>1. TaskSound(i) /\ holder[i] \in 0..N
    BY <1>2 DEF PoolType
  <2>2. holder[i] # 0 => holder[i] \in Workers
    BY <2>1 DEF Workers, PoolParameters
  <2>3. CASE m.kind = "done" /\ m.task = i
    <3>1. poolResults'[i] = m.how
      BY <1>11, <2>3 DEF PoolType
    <3>2. outcome[i] = m.how /\ m.how # NoResult /\ holder[i] = m.from /\ holder[i] # 0
      BY <1>7, <1>8, <2>3 DEF Truthful, Workers
    <3>3. QED
      BY <1>1, <1>10, <3>1, <3>2 DEF TaskSound
  <2>4. CASE ~ (m.kind = "done" /\ m.task = i)
    <3>1. poolResults'[i] = poolResults[i]
      BY <1>7, <1>11, <2>4 DEF PoolType
    <3>2. \A v \in Workers : Unread(v, "done", i) => Unread(v, "done", i)'
      BY <1>12, <2>4
    <3>3. QED
      BY <1>1, <1>10, <2>1, <2>2, <3>1, <3>2 DEF TaskSound
  <2>5. QED
    BY <2>3, <2>4
<1>17. \E l \in 0..Tasks + N : Queued(l)'
  <2>1. PICK k \in 0..Tasks + N : Queued(k)
    BY DEF PoolSound
  <2>2. QED
    BY <1>1, <1>10, <2>1, QueueStays
<1>18. main'.pc \notin {"finally", "reap"}
  BY <1>10
<1>19. QED
  BY <1>13, <1>14, <1>15, <1>16, <1>17, <1>18 DEF PoolSound

\* When run_pool returns, its results are the tasks' own.
LEMMA ReapTrue ==
  ASSUME PoolParameters, PoolType, PoolSound, ~main.aborted, Reap
  PROVE  main'.pc = "returned" /\ ResultsAreTheirs'
<1> HIDE DEF Message, WorkerRecord, MainRecord
<1>1. /\ tq' = tq /\ rq' = rq /\ outcome' = outcome /\ holder' = holder /\ main.pc = "reap"
      /\ poolResults' = [i \in 1..Tasks |-> IF poolResults[i] = NoResult THEN "never ran" ELSE poolResults[i]]
  BY DEF Reap
<1>2. main'.killed = main.killed /\ main'.pc = "returned"
  BY DEF Reap, PoolType, MainRecord
<1>3. /\ (\A v \in Workers : WorkerSound(v)) /\ (\A i \in 1..Tasks : TaskSound(i))
      /\ \A v \in Workers : worker[v].pc = "dead" /\ v \notin main.live
  BY <1>1 DEF PoolSound
<1>4. PICK k \in 0..Tasks + N : Queued(k)
  BY DEF PoolSound
<1>5. ASSUME NEW i \in 1..Tasks
      PROVE  \/ poolResults'[i] = outcome[i]
             \/ poolResults'[i] \in {"died", "never ran"} /\ holder[i] \in main.killed
             \/ poolResults'[i] = "never ran" /\ main.killed = Workers
  <2>1. TaskSound(i) /\ holder[i] \in 0..N
    BY <1>3 DEF PoolType
  <2>2. poolResults'[i] = IF poolResults[i] = NoResult THEN "never ran" ELSE poolResults[i]
    BY <1>1
  <2>3. CASE holder[i] = 0
    <3>1. i > k
      BY <1>4, <2>3 DEF Queued
    <3>2. ASSUME NEW v \in Workers, v \notin main.killed
          PROVE  FALSE
      <4>1. k > Tasks
        BY <1>3, <1>4, <3>2 DEF Queued
      <4>2. QED
        BY <3>1, <4>1 DEF PoolParameters
    <3>3. main.killed = Workers
      BY <3>2, Fields
    <3>4. QED
      BY <2>1, <2>2, <2>3, <3>3 DEF TaskSound
  <2>4. CASE holder[i] # 0 /\ holder[i] \notin main.killed
    <3>1. PICK v \in Workers : v = holder[i]
      BY <2>1, <2>4 DEF Workers, PoolParameters
    <3>2. worker[v].box = <<>> /\ \A j \in 1..Len(rq) : rq[j].from # v
      BY <1>1, <1>3, <2>4, <3>1 DEF WorkerSound
    <3>3. \A j \in 1..Len(<<>>) : FALSE
      BY NoMessages
    <3>4. ~ Unread(v, "done", i)
      BY <3>2, <3>3 DEF Unread, Told
    <3>5. outcome[i] # NoResult /\ poolResults[i] = outcome[i]
      BY <1>3, <2>1, <2>4, <3>1, <3>4 DEF TaskSound, Has
    <3>6. QED
      BY <2>2, <3>5
  <2>5. CASE holder[i] # 0 /\ holder[i] \in main.killed
    BY <2>1, <2>2, <2>5, Names DEF TaskSound
  <2>6. QED
    BY <2>3, <2>4, <2>5
<1>6. QED
  BY <1>1, <1>2, <1>5 DEF ResultsAreTheirs

\* Nothing takes SIGTERM back, and run_pool returns from the last of its steps alone.
LEMMA MainKeeps ==
  ASSUME PoolType, [PoolNext]_poolVars, ~main'.aborted
  PROVE  ~main.aborted /\ (main'.pc = "returned" => main.pc = "returned" \/ Reap)
<1> HIDE DEF Message, WorkerRecord
<1>1. CASE main' = main
  BY <1>1
<1>2. ASSUME NEW w \in Workers, Get(w) \/ Prepare(w) \/ Booted(w) \/ Finish(w) \/ Raise(w) \/ Stop(w)
                                \/ Terminated(w) \/ Exit(w) \/ Flush(w)
      PROVE  main' = main
  BY <1>2 DEF Get, Prepare, Booted, Finish, Raise, Report, Stop, Terminated, Exit, Flush
<1>3. ASSUME NEW w \in Workers, Kill(w)
      PROVE  main'.aborted = main.aborted /\ main'.pc = main.pc
  BY <1>3 DEF Kill, PoolType, MainRecord
<1>4. ASSUME NEW w \in Workers, Spawn(w)
      PROVE  main'.aborted = main.aborted /\ main'.pc # "returned"
  BY <1>4 DEF Spawn, PoolType, MainRecord
<1>5. CASE Receive
  BY <1>5 DEF Receive, Taken, PidSeen, Done, Exited, PoolType, MainRecord
<1>6. CASE Timeout \/ Joined \/ TerminateAll
  BY <1>6 DEF Timeout, Joined, TerminateAll, PoolType, MainRecord
<1>7. CASE Reap
  BY <1>7 DEF Reap, PoolType, MainRecord
<1>8. ASSUME NEW w \in Workers, Look(w)
      PROVE  main'.aborted = main.aborted /\ main'.pc # "returned"
  BY <1>8 DEF Look, PoolType, MainRecord
<1>9. ASSUME NEW group \in BOOLEAN, SigTerm(group)
      PROVE  FALSE
  BY <1>9 DEF SigTerm, PoolType, MainRecord
<1>10. QED
  BY <1>1, <1>2, <1>3, <1>4, <1>5, <1>6, <1>7, <1>8, <1>9 DEF PoolNext, MainStep, WorkerStep, PoolFinished, poolVars

\* Once run_pool has returned nothing is left that could take a step.
LEMMA ReturnedStays ==
  ASSUME PoolType, PhasesSound, [PoolNext]_poolVars, main.pc = "returned"
  PROVE  UNCHANGED poolVars
<1>1. \A w \in Workers : ~Alive(w) /\ worker[w].pc \in {"new", "dead"}
  BY DEF PhasesSound, Alive
<1>2. ASSUME NEW w \in Workers
      PROVE  ~ (WorkerStep(w) \/ Flush(w) \/ Kill(w))
  BY <1>1 DEF WorkerStep, Get, Prepare, Booted, Finish, Raise, Stop, Terminated, Exit, Flush, Kill, Working
<1>3. ~ MainStep
  BY DEF MainStep, Receive, Timeout, Joined, TerminateAll, Reap, Spawn, Look
<1>4. \A group \in BOOLEAN : ~ SigTerm(group)
  BY DEF SigTerm
<1>5. QED
  BY <1>2, <1>3, <1>4 DEF PoolNext, PoolFinished

\* At the start every task is in the queue, in order, with an End a worker after them.
LEMMA InitSound ==
  ASSUME PoolParameters, PoolInit
  PROVE  main.pc = "spawn" /\ PoolSound
<1> HIDE DEF Message, WorkerRecord, MainRecord
<1>1. /\ rq = <<>> /\ main.pc = "spawn" /\ main.killed = {}
      /\ \A w \in Workers : main.running[w] = 0 /\ worker[w].pc = "new" /\ worker[w].box = <<>> /\ ~worker[w].sig
      /\ \A i \in 1..Tasks : holder[i] = 0 /\ outcome[i] = NoResult /\ poolResults[i] = NoResult
  BY DEF PoolInit
<1>2. \A j \in 1..Len(<<>>) : FALSE
  BY NoMessages
<1>3. Queued(0)
  <2>1. PICK n \in Nat : n = Tasks + N
    BY DEF PoolParameters
  <2>2. tq = [i \in 1..n |-> IF i <= Tasks THEN i ELSE End]
    BY <2>1 DEF PoolInit
  <2>3. tq \in Seq(0..Tasks)
    BY InitType DEF PoolType
  <2>4. DOMAIN tq = 1..n /\ DOMAIN tq = 1..Len(tq) /\ Len(tq) \in Nat
    BY <2>2, <2>3, LenProperties
  <2>5. Len(tq) = n
    BY <2>1, <2>4
  <2>6. \A j \in 1..n : tq[j] = IF 0 + j <= Tasks THEN 0 + j ELSE End
    BY <2>2
  <2>7. 0 \in 0..Tasks + N /\ n = Tasks + N - 0
    BY <2>1 DEF PoolParameters
  <2>8. \A i \in 1..Tasks : holder[i] = 0 <=> i > 0
    BY <1>1
  <2>9. QED
    BY <1>1, <2>5, <2>6, <2>7, <2>8 DEF Queued
<1>4. MessagesSound /\ ExitIsLast
  BY <1>1, <1>2 DEF MessagesSound, BoxSound, ExitIsLast
<1>5. \A w \in Workers : WorkerSound(w)
  BY <1>1, <1>2 DEF WorkerSound, Has
<1>6. \A i \in 1..Tasks : TaskSound(i)
  BY <1>1 DEF TaskSound
<1>7. \E k \in 0..Tasks + N : Queued(k)
  BY <1>3 DEF Queued
<1>8. QED
  BY <1>1, <1>4, <1>5, <1>6, <1>7 DEF PoolSound

\* Where nothing changes, the invariant stays.
LEMMA StillSound ==
  ASSUME PoolSound, UNCHANGED poolVars
  PROVE  PoolSound'
<1>1. /\ (\A k : Queued(k)' <=> Queued(k)) /\ (MessagesSound' <=> MessagesSound) /\ (ExitIsLast' <=> ExitIsLast)
      /\ (\A w : WorkerSound(w)' <=> WorkerSound(w)) /\ (\A i : TaskSound(i)' <=> TaskSound(i))
  BY DEF poolVars, Queued, MessagesSound, BoxSound, Truthful, ExitIsLast, WorkerSound, TaskSound, Unread, Told
<1>2. QED
  BY <1>1 DEF poolVars, PoolSound

\* No step makes a message false, loses one of a worker that was not killed, or returns too early.
LEMMA PoolStep ==
  ASSUME PoolParameters, GapExit = FALSE, PoolType, PhasesSound, PoolInv, [PoolNext]_poolVars
  PROVE  PoolInv'
<1> HIDE DEF Message, WorkerRecord, MainRecord
<1>1. SUFFICES ASSUME ~main'.aborted
               PROVE  IF main'.pc = "returned" THEN ResultsAreTheirs' ELSE PoolSound'
  BY DEF PoolInv
<1>2. ~main.aborted /\ (main'.pc = "returned" => main.pc = "returned" \/ Reap)
  BY <1>1, MainKeeps
<1>3. CASE main.pc = "returned"
  <2>1. UNCHANGED poolVars
    BY <1>3, ReturnedStays
  <2>2. QED
    BY <1>2, <1>3, <2>1 DEF PoolInv, ResultsAreTheirs, poolVars
<1>4. CASE main.pc # "returned" /\ Reap
  <2>1. PoolSound
    BY <1>2, <1>4 DEF PoolInv
  <2>2. QED
    BY <1>2, <1>4, <2>1, ReapTrue
<1>5. CASE main.pc # "returned" /\ ~Reap
  <2>1. PoolSound /\ main'.pc # "returned"
    BY <1>2, <1>5 DEF PoolInv
  <2>2. ASSUME NEW w \in Workers, Get(w) \/ Prepare(w) \/ Booted(w) \/ Finish(w) \/ Raise(w) \/ Stop(w) \/ Exit(w)
                                  \/ Flush(w) \/ Kill(w) \/ Spawn(w) \/ Look(w)
        PROVE  PoolSound'
    <3>1. CASE Get(w)
      BY <1>2, <2>1, <3>1, GetSound
    <3>2. CASE Prepare(w) \/ Booted(w) \/ Stop(w) \/ Exit(w)
      BY <1>2, <2>1, <3>2, WorkSound
    <3>3. CASE Finish(w) \/ Raise(w)
      BY <1>2, <2>1, <3>3, ReportSound
    <3>4. CASE Flush(w)
      BY <1>2, <2>1, <3>4, FlushSound
    <3>5. CASE Kill(w)
      BY <1>2, <2>1, <3>5, KillSound
    <3>6. CASE Spawn(w)
      BY <1>2, <2>1, <3>6, SpawnSound
    <3>7. CASE Look(w)
      BY <1>2, <2>1, <3>7, LookSound
    <3>8. QED
      BY <2>2, <3>1, <3>2, <3>3, <3>4, <3>5, <3>6, <3>7
  <2>3. ASSUME NEW w \in Workers, Terminated(w)
        PROVE  FALSE
    BY <2>1, <2>3 DEF PoolSound, WorkerSound, Terminated
  <2>4. CASE Receive \/ Timeout \/ Joined \/ TerminateAll
    BY <1>2, <2>1, <2>4, ReceiveSound, TimeoutSound, EndingSound
  <2>5. ASSUME NEW group \in BOOLEAN, SigTerm(group)
        PROVE  FALSE
    BY <1>1, <2>5 DEF SigTerm, PoolType, MainRecord
  <2>6. CASE UNCHANGED poolVars
    BY <2>1, <2>6, StillSound
  <2>7. \/ Receive \/ Timeout \/ Joined \/ TerminateAll \/ UNCHANGED poolVars
        \/ \E group \in BOOLEAN : SigTerm(group)
        \/ \E w \in Workers : Terminated(w)
        \/ \E w \in Workers : \/ Get(w) \/ Prepare(w) \/ Booted(w) \/ Finish(w) \/ Raise(w) \/ Stop(w) \/ Exit(w)
                              \/ Flush(w) \/ Kill(w) \/ Spawn(w) \/ Look(w)
    BY <1>5 DEF PoolNext, MainStep, WorkerStep, PoolFinished
  <2>8. QED
    BY <2>1, <2>2, <2>3, <2>4, <2>5, <2>6, <2>7
<1>6. QED
  BY <1>3, <1>4, <1>5

\* Where no worker ends between the main process's timeout and its look, run_pool returns what the tasks themselves
\* gave, whatever is killed: a task it calls dead was in the hands of a worker that was killed, and so was one it calls
\* unrun, unless every worker was.
THEOREM ResultsAreTheTasks ==
  ASSUME PoolParameters, GapExit = FALSE
  PROVE  PoolSpec => []ResultsAreTheirs
<1>1. PoolInit => PoolType /\ PhasesSound /\ PoolInv
  <2>1. PoolInit => PhasesSound
    BY DEF PoolInit, PhasesSound
  <2>2. QED
    BY <2>1, InitType, InitSound DEF PoolInv
<1>2. PoolType /\ [PoolNext]_poolVars => PoolType'
  BY TypeStep
<1>3. PoolType /\ PhasesSound /\ [PoolNext]_poolVars => PhasesSound'
  BY PhasesStep
<1>4. PoolType /\ PhasesSound /\ PoolInv /\ [PoolNext]_poolVars => PoolInv'
  BY PoolStep
<1>5. PhasesSound /\ PoolInv => ResultsAreTheirs
  BY DEF PhasesSound, PoolInv, ResultsAreTheirs
<1>6. QED
  BY <1>1, <1>2, <1>3, <1>4, <1>5, PTL DEF PoolSpec

-----------------------------------------------------------------------------
(* tapetest. *)
Pcs == {"none", "play", "setup", "run_to", "enter", "poll", "ended"}
Verdicts == {"", "PASS", "FAIL", "worker died"}
JobRecord == [pc : Pcs, attempt : Int, T : Int, lead : Int, lines : Int, tries : 0..Tries, verdict : Verdicts]

\* The margins of a job: Command leaves at least 12 ticks, run_to goes on to the last 10 and every try of ENTER takes one.
InTime(j) ==
    /\ j.pc = "run_to" => j.T <= j.lead - 10
    /\ j.pc = "enter" => j.T <= j.lead - 10 + j.tries
    /\ j.pc = "poll" => j.T < j.lead
JobsInTime == pending \in Seq(Ids) /\ job \in [Ids -> JobRecord] /\ \A c \in Ids : InTime(job[c])

\* A step that gives one job a record with its margins keeps them all.
LEMMA OneJob ==
    ASSUME JobsInTime, NEW c \in Ids, NEW j \in JobRecord, InTime(j), On(c, j), pending' \in Seq(Ids)
    PROVE  JobsInTime'
BY DEF JobsInTime, On, InTime, JobRecord

\* One field of a record changes.
LEMMA FieldChanges ==
    ASSUME NEW j \in JobRecord
    PROVE  /\ \A p \in Pcs : [j EXCEPT !.pc = p] \in JobRecord
           /\ \A n \in Int : [j EXCEPT !.T = n] \in JobRecord /\ [j EXCEPT !.lead = n] \in JobRecord
           /\ \A n \in Int : [j EXCEPT !.lines = n] \in JobRecord /\ [j EXCEPT !.attempt = n] \in JobRecord
           /\ \A n \in 0..Tries : [j EXCEPT !.tries = n] \in JobRecord
<1>1. \A p \in Pcs : [j EXCEPT !.pc = p] \in JobRecord
  BY DEF JobRecord
<1>2. \A n \in Int : [j EXCEPT !.T = n] \in JobRecord
  BY DEF JobRecord
<1>3. \A n \in Int : [j EXCEPT !.lead = n] \in JobRecord
  BY DEF JobRecord
<1>4. \A n \in Int : [j EXCEPT !.lines = n] \in JobRecord
  BY DEF JobRecord
<1>5. \A n \in Int : [j EXCEPT !.attempt = n] \in JobRecord
  BY DEF JobRecord
<1>6. \A n \in 0..Tries : [j EXCEPT !.tries = n] \in JobRecord
  BY DEF JobRecord
<1> QED
  BY <1>1, <1>2, <1>3, <1>4, <1>5, <1>6

LEMMA FromZero == ASSUME NEW j \in JobRecord PROVE [j EXCEPT !.T = 0] \in JobRecord
BY 0 \in Int, FieldChanges

LEMMA NoneIsARecord == None \in JobRecord /\ InTime(None)
<1>1. None \in JobRecord
  BY DEF None, JobRecord, Pcs, Verdicts, Tries
<1>2. InTime(None)
  BY DEF None, InTime
<1> QED BY <1>1, <1>2

LEMMA CasesAreIds == Cases \in Seq(Ids)
BY TapeRunAssumption DEF Ids

LEMMA InTimeInit == Init => JobsInTime
BY NoneIsARecord, CasesAreIds DEF Init, JobsInTime

LEMMA SubmitInTime == JobsInTime /\ Submit => JobsInTime'
<1> SUFFICES ASSUME JobsInTime, Submit PROVE JobsInTime'
  OBVIOUS
<1>1. Head(pending) \in Ids /\ Tail(pending) \in Seq(Ids)
  BY DEF JobsInTime, Submit
<1>2. Lead[Head(pending)] \in Int
  BY <1>1, TapeRunAssumption DEF Ids
<1>3. [None EXCEPT !.pc = "play", !.lead = Lead[Head(pending)]] \in JobRecord
  BY <1>2, NoneIsARecord DEF JobRecord, Pcs, Verdicts
<1>4. InTime([None EXCEPT !.pc = "play", !.lead = Lead[Head(pending)]])
  BY <1>2 DEF InTime, None
<1> QED
  BY <1>1, <1>3, <1>4, OneJob DEF Submit

LEMMA RetryInTime ==
    ASSUME JobsInTime, NEW c \in Ids, NEW lead \in Int, Retry(c, lead), pending' = pending
    PROVE  JobsInTime'
<1>1. pending' \in Seq(Ids) /\ job[c] \in JobRecord
  BY DEF JobsInTime
<1>2. CASE job[c].attempt = Attempts
  <2>1. [job[c] EXCEPT !.pc = "ended", !.verdict = "FAIL"] \in JobRecord
    BY <1>1 DEF JobRecord, Pcs, Verdicts
  <2>2. InTime([job[c] EXCEPT !.pc = "ended", !.verdict = "FAIL"])
    BY <1>1 DEF InTime, JobRecord
  <2> QED
    BY <1>1, <1>2, <2>1, <2>2, OneJob DEF Retry, Ends
<1>3. CASE job[c].attempt # Attempts
  <2> DEFINE j == [None EXCEPT !.pc = "play", !.attempt = job[c].attempt + 1, !.lead = lead]
  <2>1. j \in JobRecord
    <3>1. job[c].attempt + 1 \in Int
      BY <1>1 DEF JobRecord
    <3>2. j = [[[None EXCEPT !.pc = "play"] EXCEPT !.attempt = job[c].attempt + 1] EXCEPT !.lead = lead]
      OBVIOUS
    <3> QED BY <3>1, <3>2, NoneIsARecord, FieldChanges DEF Pcs
  <2>2. InTime(j)
    BY DEF InTime, None
  <2>3. On(c, j)
    BY <1>3 DEF Retry
  <2> QED
    BY <1>1, <2>1, <2>2, <2>3, OneJob
<1> QED
  BY <1>2, <1>3

LEMMA EndsInTime ==
    ASSUME JobsInTime, NEW c \in Ids, NEW v \in Verdicts, Ends(c, v), pending' = pending
    PROVE  JobsInTime'
<1>1. pending' \in Seq(Ids) /\ job[c] \in JobRecord
  BY DEF JobsInTime
<1>2. [job[c] EXCEPT !.pc = "ended", !.verdict = v] \in JobRecord
  BY <1>1 DEF JobRecord, Pcs
<1>3. InTime([job[c] EXCEPT !.pc = "ended", !.verdict = v])
  BY <1>1 DEF InTime, JobRecord
<1> QED
  BY <1>1, <1>2, <1>3, OneJob DEF Ends

LEMMA LongerIsANumber == ASSUME JobsInTime, NEW c \in Ids PROVE Longer(c) \in Int /\ job[c].lead \in Int
<1>1. job[c].lead \in Int
  BY DEF JobsInTime, JobRecord
<1> QED
  BY <1>1 DEF Longer

\* A step of job c alone, from its record to one with the margins.
LEMMA OneJobOn ==
    ASSUME JobsInTime, NEW c \in Ids, NEW j, job[c] \in JobRecord => j \in JobRecord /\ InTime(j), On(c, j), UNCHANGED pending
    PROVE  JobsInTime'
<1>1. job[c] \in JobRecord /\ pending' \in Seq(Ids)
  BY DEF JobsInTime
<1> QED
  BY <1>1, OneJob

LEMMA StepInTime == ASSUME JobsInTime, NEW c \in Ids, Step(c) PROVE JobsInTime'
<1> USE DEF pool
<1>0. job[c] \in JobRecord /\ InTime(job[c])
  BY DEF JobsInTime
<1>1. CASE Play(c)
  <2>1. Setup[c] \in Int
    BY TapeRunAssumption DEF Ids
  <2>2. [job[c] EXCEPT !.pc = "setup", !.T = 0, !.lines = Setup[c]] \in JobRecord
    <3>1. [job[c] EXCEPT !.pc = "setup", !.T = 0, !.lines = Setup[c]]
          = [[[job[c] EXCEPT !.pc = "setup"] EXCEPT !.T = 0] EXCEPT !.lines = Setup[c]]
      OBVIOUS
    <3>2. [job[c] EXCEPT !.pc = "setup"] \in JobRecord
      BY <1>0, FieldChanges DEF Pcs
    <3>3. [[job[c] EXCEPT !.pc = "setup"] EXCEPT !.T = 0] \in JobRecord
      BY <3>2, FromZero
    <3> QED BY <2>1, <3>1, <3>3, FieldChanges
  <2>3. InTime([job[c] EXCEPT !.pc = "setup", !.T = 0, !.lines = Setup[c]])
    BY <1>0 DEF InTime, JobRecord
  <2> QED BY <1>1, <2>2, <2>3, OneJobOn DEF Play
<1>2. CASE SetupLine(c)
  <2>1. PICK d \in 1..Slow : IF job[c].T + d > job[c].lead - 8 THEN Retry(c, Longer(c))
                             ELSE On(c, [job[c] EXCEPT !.T = @ + d, !.lines = @ - 1])
    BY <1>2 DEF SetupLine
  <2>2. CASE Retry(c, Longer(c))
    BY <1>2, <2>2, LongerIsANumber, RetryInTime DEF SetupLine
  <2>3. CASE On(c, [job[c] EXCEPT !.T = @ + d, !.lines = @ - 1])
    <3>1. d \in Int /\ job[c].pc = "setup"
      BY <1>2, TapeRunAssumption DEF SetupLine
    <3>2. [job[c] EXCEPT !.T = @ + d, !.lines = @ - 1] \in JobRecord
      <4>1. job[c].T + d \in Int /\ job[c].lines - 1 \in Int
        BY <1>0, <3>1 DEF JobRecord
      <4>2. [job[c] EXCEPT !.T = @ + d, !.lines = @ - 1] = [[job[c] EXCEPT !.T = job[c].T + d] EXCEPT !.lines = job[c].lines - 1]
        BY <1>0 DEF JobRecord
      <4> QED BY <1>0, <4>1, <4>2, FieldChanges
    <3>3. InTime([job[c] EXCEPT !.T = @ + d, !.lines = @ - 1])
      BY <1>0, <3>1 DEF InTime, JobRecord
    <3> QED BY <1>2, <2>3, <3>2, <3>3, OneJobOn DEF SetupLine
  <2> QED BY <2>1, <2>2, <2>3
<1>3. CASE Command(c)
  <2>1. PICK d \in 1..Slow : IF job[c].T + d > job[c].lead - 12 THEN Retry(c, Longer(c))
                             ELSE On(c, [job[c] EXCEPT !.T = @ + d, !.pc = "run_to"])
    BY <1>3 DEF Command
  <2>2. CASE Retry(c, Longer(c))
    BY <1>3, <2>2, LongerIsANumber, RetryInTime DEF Command
  <2>3. CASE job[c].T + d <= job[c].lead - 12 /\ On(c, [job[c] EXCEPT !.T = @ + d, !.pc = "run_to"])
    <3>1. d \in Int
      BY TapeRunAssumption
    <3>2. [job[c] EXCEPT !.T = @ + d, !.pc = "run_to"] \in JobRecord
      <4>1. job[c].T + d \in Int
        BY <1>0, <3>1 DEF JobRecord
      <4>2. [job[c] EXCEPT !.T = @ + d, !.pc = "run_to"] = [[job[c] EXCEPT !.T = job[c].T + d] EXCEPT !.pc = "run_to"]
        BY <1>0 DEF JobRecord
      <4> QED BY <1>0, <4>1, <4>2, FieldChanges DEF Pcs
    <3>3. InTime([job[c] EXCEPT !.T = @ + d, !.pc = "run_to"])
      BY <1>0, <2>3, <3>1 DEF InTime, JobRecord
    <3> QED BY <1>3, <2>3, <3>2, <3>3, OneJobOn DEF Command
  <2>4. job[c].T + d > job[c].lead - 12 \/ job[c].T + d <= job[c].lead - 12
    BY <1>0, TapeRunAssumption DEF JobRecord
  <2> QED BY <2>1, <2>2, <2>3, <2>4
<1>4. CASE RunTo(c)
  <2>1. CASE job[c].T >= job[c].lead - 10
    <3>1. [job[c] EXCEPT !.pc = "enter"] \in JobRecord
      BY <1>0 DEF JobRecord, Pcs
    <3>2. InTime([job[c] EXCEPT !.pc = "enter"])
      BY <1>0, <1>4 DEF InTime, JobRecord, RunTo, Tries
    <3> QED BY <1>4, <2>1, <3>1, <3>2, OneJobOn DEF RunTo
  <2>2. CASE ~(job[c].T >= job[c].lead - 10)
    <3>1. [job[c] EXCEPT !.T = @ + 1] \in JobRecord
      BY <1>0 DEF JobRecord
    <3>2. InTime([job[c] EXCEPT !.T = @ + 1])
      BY <1>0, <1>4, <2>2 DEF InTime, JobRecord, RunTo
    <3> QED BY <1>4, <2>2, <3>1, <3>2, OneJobOn DEF RunTo
  <2> QED BY <2>1, <2>2
<1>5. CASE PressEnter(c)
  <2>1. [job[c] EXCEPT !.T = @ + 1, !.pc = "poll"] \in JobRecord
    <3>1. job[c].T + 1 \in Int
      BY <1>0 DEF JobRecord
    <3>2. [job[c] EXCEPT !.T = @ + 1, !.pc = "poll"] = [[job[c] EXCEPT !.T = job[c].T + 1] EXCEPT !.pc = "poll"]
      BY <1>0 DEF JobRecord
    <3> QED BY <1>0, <3>1, <3>2, FieldChanges DEF Pcs
  <2>2. InTime([job[c] EXCEPT !.T = @ + 1, !.pc = "poll"])
    BY <1>0, <1>5 DEF InTime, JobRecord, PressEnter, Tries
  <2> QED BY <1>5, <2>1, <2>2, OneJobOn DEF PressEnter
<1>6. CASE NeverTaken(c) \/ Judged(c)
  BY <1>6, EndsInTime DEF NeverTaken, Judged, Verdicts
<1> QED
  BY <1>1, <1>2, <1>3, <1>4, <1>5, <1>6 DEF Step

LEMMA GoesInTime == ASSUME JobsInTime, NEW c \in Ids, Goes(c) PROVE JobsInTime'
<1> USE DEF pool
<1>0. job[c] \in JobRecord /\ InTime(job[c])
  BY DEF JobsInTime
<1>1. CASE TypingSlips(c)
  BY <1>1, LongerIsANumber, RetryInTime DEF TypingSlips
<1>2. CASE SetupFails(c)
  BY <1>2, EndsInTime DEF SetupFails, Verdicts
<1>3. CASE EnterDropped(c)
  <2>1. job[c].pc = "enter" /\ job[c].tries < Tries
    BY <1>3 DEF EnterDropped
  <2>2. [job[c] EXCEPT !.T = @ + 1, !.tries = @ + 1] \in JobRecord
    <3>1. job[c].T + 1 \in Int /\ job[c].tries + 1 \in 0..Tries
      BY <1>0, <2>1 DEF JobRecord, Tries
    <3>2. [job[c] EXCEPT !.T = @ + 1, !.tries = @ + 1] = [[job[c] EXCEPT !.T = job[c].T + 1] EXCEPT !.tries = job[c].tries + 1]
      BY <1>0 DEF JobRecord
    <3> QED BY <1>0, <3>1, <3>2, FieldChanges
  <2>3. InTime([job[c] EXCEPT !.T = @ + 1, !.tries = @ + 1])
    BY <1>0, <2>1 DEF InTime, JobRecord, Tries
  <2> QED BY <1>3, <2>2, <2>3, OneJobOn DEF EnterDropped
<1>4. CASE WorkerDies(c)
  <2>1. [job[c] EXCEPT !.pc = "ended", !.verdict = "worker died"] \in JobRecord
    BY <1>0 DEF JobRecord, Pcs, Verdicts
  <2>2. InTime([job[c] EXCEPT !.pc = "ended", !.verdict = "worker died"])
    BY <1>0 DEF InTime, JobRecord
  <2> QED BY <1>4, <2>1, <2>2, OneJobOn DEF WorkerDies
<1> QED
  BY <1>1, <1>2, <1>3, <1>4 DEF Goes

LEMMA CollectInTime == ASSUME JobsInTime, NEW c \in Ids, Collect(c) PROVE JobsInTime'
BY NoneIsARecord, OneJobOn DEF Collect

LEMMA NextInTime == JobsInTime /\ [Next]_vars => JobsInTime'
<1> SUFFICES ASSUME JobsInTime, [Next]_vars PROVE JobsInTime'
  OBVIOUS
<1>1. CASE Submit
  BY <1>1, SubmitInTime
<1>2. CASE Finished \/ UNCHANGED vars
  BY <1>2 DEF Finished, vars, pool, JobsInTime
<1>3. ASSUME NEW c \in Ids, Collect(c) \/ Step(c) \/ Goes(c) PROVE JobsInTime'
  BY <1>3, CollectInTime, StepInTime, GoesInTime
<1> QED
  BY <1>1, <1>2, <1>3 DEF Next

\* tapetest enters every command before the first block of its tape begins, for any lead_for, any typing pace and any faults:
\* a case is judged on a tape it heard from the start (tapetest.py: type_command, press_enter).
THEOREM EnteredInTime == Spec => []HeardFromTheStart
<1>1. JobsInTime => HeardFromTheStart
  BY DEF JobsInTime, InTime, HeardFromTheStart
<1> QED
  BY InTimeInit, NextInTime, <1>1, PTL DEF Spec

-----------------------------------------------------------------------------
(* The ports. *)
Live == {"setup", "run_to", "enter", "poll"}
Died(c) == "worker died" \in {results[c], job[c].verdict}

\* A port is at rest or has one case; a case is asked for once, and its port is its own till it is collected.
Waits(c) == \E i \in DOMAIN pending : pending[i] = c
AtRest(p) == \E i \in DOMAIN free : free[i] = p
CaseSound(c) ==
    /\ running[c] # 0 => ~AtRest(running[c]) /\ results[c] = ""
    /\ Waits(c) => running[c] = 0 /\ results[c] = "" /\ \A e \in emulators : e[1] # c
    /\ job[c].pc # "none" => running[c] # 0
    /\ job[c].pc # "ended" => job[c].verdict = ""
\* An emulator is on its case's port while the case's worker drives it, or its worker died.
OnItsPort(e) == Died(e[1]) \/ (e[2] = running[e[1]] /\ e[2] # 0 /\ job[e[1]].pc \in Live)
PortsSound ==
    /\ IsInjective(pending) /\ free \in Seq(Nat \ {0}) /\ IsInjective(free)
    /\ running \in [Ids -> Nat] /\ results \in [Ids -> Verdicts] /\ emulators \subseteq Ids \X Nat
    /\ \A c \in Ids : CaseSound(c)
    /\ \A c, d \in Ids : c # d /\ running[c] # 0 => running[c] # running[d]
    /\ \A e \in emulators : OnItsPort(e)
Sound == JobsInTime /\ PortsSound

LEMMA SoundInit == Init => Sound
<1> SUFFICES ASSUME Init PROVE Sound
  OBVIOUS
<1> DEFINE n == IF Jobs < Len(Cases) THEN Jobs ELSE Len(Cases)
<1>1. n \in Nat /\ free = [p \in 1..n |-> p]
  <2>1. Len(Cases) \in Nat
    BY TapeRunAssumption
  <2> QED
    BY <2>1, TapeRunAssumption DEF Init
<1>2. free \in Seq(Nat \ {0}) /\ IsInjective(free)
  <2>1. \A p \in 1..n : p \in Nat \ {0}
    BY <1>1
  <2> HIDE DEF n
  <2>2. free \in [1..n -> Nat \ {0}]
    BY <1>1, <2>1
  <2> QED
    BY <1>1, <2>2 DEF IsInjective
<1>3. IsInjective(pending) /\ running \in [Ids -> Nat] /\ results \in [Ids -> Verdicts]
  BY TapeRunAssumption DEF Init, Verdicts
<1>4. \A c \in Ids : CaseSound(c)
  BY DEF Init, CaseSound, None
<1> QED
  BY <1>2, <1>3, <1>4, InTimeInit DEF Sound, PortsSound, Init

\* A worker's step changes its own record, which is not over before and is an error's only at its end, and the emulators of
\* its case.
LEMMA JobSound ==
    ASSUME Sound, NEW c \in Ids, NEW j \in JobRecord, On(c, j), UNCHANGED pool,
           job[c].pc \notin {"none", "ended"}, j.pc # "none", j.pc # "ended" => j.verdict = "",
           emulators' \subseteq Ids \X Nat,
           \A e \in emulators' : \/ e \in emulators /\ e[1] # c
                                 \/ e[1] = c /\ (j.verdict = "worker died" \/ (e[2] = running[c] /\ j.pc \in Live))
    PROVE  PortsSound'
<1> USE DEF pool
<1>1. job' = [d \in Ids |-> IF d = c THEN j ELSE job[d]] /\ UNCHANGED <<pending, free, running, results>>
  BY DEF Sound, JobsInTime, On
<1>2. running[c] # 0
  BY DEF Sound, PortsSound, CaseSound
<1>3. ASSUME NEW d \in Ids PROVE CaseSound(d)'
  <2>1. CaseSound(d)
    BY DEF Sound, PortsSound
  <2>2. CASE d = c
    BY <1>1, <1>2, <2>1, <2>2 DEF CaseSound, AtRest, Waits
  <2>3. CASE d # c
    BY <1>1, <2>1, <2>3 DEF CaseSound, AtRest, Waits
  <2> QED
    BY <2>2, <2>3
<1>4. ASSUME NEW e \in emulators' PROVE OnItsPort(e)'
  <2>1. CASE e \in emulators /\ e[1] # c
    <3>1. OnItsPort(e) /\ e[1] \in Ids
      BY <2>1 DEF Sound, PortsSound
    <3> QED
      BY <1>1, <2>1, <3>1 DEF OnItsPort, Died
  <2>2. CASE e[1] = c /\ (j.verdict = "worker died" \/ (e[2] = running[c] /\ j.pc \in Live))
    BY <1>1, <1>2, <2>2 DEF OnItsPort, Died
  <2> QED
    BY <2>1, <2>2
<1> QED
  BY <1>1, <1>3, <1>4 DEF Sound, PortsSound

\* While its worker goes on, a case's emulators are on its port.
LEMMA OwnEmulators ==
    ASSUME Sound, NEW c \in Ids, job[c].pc \notin {"none", "ended"}
    PROVE  /\ \A e \in emulators : e[1] = c => e[2] = running[c] /\ job[c].pc \in Live
           /\ running[c] \in Nat
<1>1. CaseSound(c) /\ \A e \in emulators : OnItsPort(e)
  BY DEF Sound, PortsSound
<1>2. ~Died(c)
  BY <1>1 DEF CaseSound, Died
<1>3. running[c] \in Nat
  BY DEF Sound, PortsSound
<1> QED
  BY <1>1, <1>2, <1>3 DEF OnItsPort

\* A step of a live worker that leaves its emulators alone.
LEMMA JobGoesOn ==
    ASSUME Sound, NEW c \in Ids, NEW j, job[c] \in JobRecord => j \in JobRecord, On(c, j), UNCHANGED <<pool, emulators>>,
           job[c].pc \notin {"none", "ended", "play"}, j.pc \in Live, j.verdict = job[c].verdict
    PROVE  PortsSound'
<1>1. job[c] \in JobRecord /\ job[c].verdict = "" /\ emulators \subseteq Ids \X Nat
  BY DEF Sound, JobsInTime, PortsSound, CaseSound
<1>2. \A e \in emulators' : \/ e \in emulators /\ e[1] # c
                            \/ e[1] = c /\ (j.verdict = "worker died" \/ (e[2] = running[c] /\ j.pc \in Live))
  BY OwnEmulators
<1>3. j.pc # "none" /\ j.pc # "ended" /\ job[c].pc \notin {"none", "ended"}
  BY DEF Live
<1>4. emulators' \subseteq Ids \X Nat /\ UNCHANGED pool /\ j \in JobRecord
  BY <1>1
<1>5. j.pc # "ended" => j.verdict = ""
  BY <1>1
<1> QED
  BY <1>2, <1>3, <1>4, <1>5, JobSound

\* A step that ends the worker's emulators.
LEMMA StopsSound ==
    ASSUME Sound, NEW c \in Ids, NEW j \in JobRecord, On(c, j), UNCHANGED pool, emulators' = {e \in emulators : e[1] # c},
           job[c].pc \notin {"none", "ended"}, j.pc # "none", j.pc # "ended" => j.verdict = ""
    PROVE  PortsSound'
<1>1. emulators' \subseteq Ids \X Nat
  BY DEF Sound, PortsSound
<1>2. \A e \in emulators' : e \in emulators /\ e[1] # c
  OBVIOUS
<1> QED
  BY <1>1, <1>2, JobSound

LEMMA EndsSound ==
    ASSUME Sound, NEW c \in Ids, NEW v \in Verdicts, Ends(c, v), UNCHANGED pool, job[c].pc \notin {"none", "ended"}
    PROVE  PortsSound'
<1>1. [job[c] EXCEPT !.pc = "ended", !.verdict = v] \in JobRecord
  BY DEF Sound, JobsInTime, JobRecord, Pcs
<1>2. [job[c] EXCEPT !.pc = "ended", !.verdict = v].pc = "ended"
  BY DEF Sound, JobsInTime, JobRecord
<1> QED
  BY <1>1, <1>2, StopsSound DEF Ends

LEMMA RetrySound ==
    ASSUME Sound, NEW c \in Ids, NEW lead \in Int, Retry(c, lead), UNCHANGED pool, job[c].pc \notin {"none", "ended"}
    PROVE  PortsSound'
<1>1. CASE job[c].attempt = Attempts
  BY <1>1, EndsSound DEF Retry, Verdicts
<1>2. CASE job[c].attempt # Attempts
  <2> DEFINE j == [None EXCEPT !.pc = "play", !.attempt = job[c].attempt + 1, !.lead = lead]
  <2>1. j \in JobRecord
    <3>1. job[c].attempt + 1 \in Int
      BY DEF Sound, JobsInTime, JobRecord
    <3>2. j = [[[None EXCEPT !.pc = "play"] EXCEPT !.attempt = job[c].attempt + 1] EXCEPT !.lead = lead]
      OBVIOUS
    <3> QED BY <3>1, <3>2, NoneIsARecord, FieldChanges DEF Pcs
  <2>2. j.pc = "play" /\ j.verdict = ""
    BY DEF None
  <2>3. On(c, j) /\ emulators' = {e \in emulators : e[1] # c}
    BY <1>2 DEF Retry
  <2> HIDE DEF j
  <2> QED
    BY <2>1, <2>2, <2>3, StopsSound
<1> QED
  BY <1>1, <1>2

LEMMA StepSound == ASSUME Sound, NEW c \in Ids, Step(c) PROVE PortsSound'
<1> USE DEF pool
<1>0. job[c] \in JobRecord
  BY DEF Sound, JobsInTime
<1>1. CASE Play(c)
  <2> DEFINE j == [job[c] EXCEPT !.pc = "setup", !.T = 0, !.lines = Setup[c]]
  <2>1. j \in JobRecord
    <3>1. Setup[c] \in Int
      BY TapeRunAssumption DEF Ids
    <3>2. j = [[[job[c] EXCEPT !.pc = "setup"] EXCEPT !.T = 0] EXCEPT !.lines = Setup[c]]
      OBVIOUS
    <3>3. [[job[c] EXCEPT !.pc = "setup"] EXCEPT !.T = 0] \in JobRecord
      BY <1>0, FieldChanges, FromZero DEF Pcs
    <3> QED
      BY <3>1, <3>2, <3>3, FieldChanges
  <2>2. j.pc = "setup" /\ j.verdict = job[c].verdict
    BY <1>0 DEF JobRecord
  <2>3. On(c, j) /\ job[c].pc = "play" /\ emulators' = emulators \cup {<<c, running[c]>>}
    BY <1>1 DEF Play
  <2> HIDE DEF j
  <2>4. emulators' \subseteq Ids \X Nat
    BY <2>3, OwnEmulators DEF Sound, PortsSound
  <2>5. \A e \in emulators' : \/ e \in emulators /\ e[1] # c
                              \/ e[1] = c /\ (j.verdict = "worker died" \/ (e[2] = running[c] /\ j.pc \in Live))
    <3>1. \A e \in emulators : e[1] # c
      BY <2>3, OwnEmulators DEF Live
    <3>2. \A e \in emulators' : e \in emulators \/ e = <<c, running[c]>>
      BY <2>3
    <3>3. <<c, running[c]>>[1] = c /\ <<c, running[c]>>[2] = running[c]
      OBVIOUS
    <3>4. j.pc \in Live
      BY <2>2 DEF Live
    <3>5. ASSUME NEW e \in emulators', e = <<c, running[c]>> PROVE e[1] = c /\ e[2] = running[c]
      BY <3>3, <3>5
    <3> QED
      BY <3>1, <3>2, <3>4, <3>5
  <2>6. job[c].verdict = ""
    BY <2>3 DEF Sound, PortsSound, CaseSound
  <2>7. On(c, j) /\ UNCHANGED pool /\ job[c].pc \notin {"none", "ended"} /\ j.pc # "none" /\ (j.pc # "ended" => j.verdict = "")
    BY <1>1, <2>2, <2>3, <2>6 DEF Play
  <2> QED
    BY <2>1, <2>4, <2>5, <2>7, JobSound
<1>2. CASE SetupLine(c)
  <2>1. PICK d \in 1..Slow : \/ Retry(c, Longer(c))
                             \/ On(c, [job[c] EXCEPT !.T = @ + d, !.lines = @ - 1]) /\ UNCHANGED emulators
    BY <1>2 DEF SetupLine
  <2>2. job[c].pc = "setup" /\ UNCHANGED pool /\ d \in Int
    BY <1>2, TapeRunAssumption DEF SetupLine
  <2>3. CASE Retry(c, Longer(c))
    BY <2>2, <2>3, LongerIsANumber, RetrySound DEF Sound
  <2>4. CASE On(c, [job[c] EXCEPT !.T = @ + d, !.lines = @ - 1]) /\ UNCHANGED emulators
    <3> DEFINE j == [job[c] EXCEPT !.T = @ + d, !.lines = @ - 1]
    <3>1. j \in JobRecord
      <4>1. job[c].T + d \in Int /\ job[c].lines - 1 \in Int
        BY <1>0, <2>2 DEF JobRecord
      <4>2. j = [[job[c] EXCEPT !.T = job[c].T + d] EXCEPT !.lines = job[c].lines - 1]
        BY <1>0 DEF JobRecord
      <4> QED BY <1>0, <4>1, <4>2, FieldChanges
    <3>2. j.pc = "setup" /\ j.verdict = job[c].verdict
      BY <1>0, <2>2 DEF JobRecord
    <3> HIDE DEF j
    <3> QED
      BY <2>2, <2>4, <3>1, <3>2, JobGoesOn DEF Live, j
  <2> QED BY <2>1, <2>3, <2>4
<1>3. CASE Command(c)
  <2>1. PICK d \in 1..Slow : \/ Retry(c, Longer(c))
                             \/ On(c, [job[c] EXCEPT !.T = @ + d, !.pc = "run_to"]) /\ UNCHANGED emulators
    BY <1>3 DEF Command
  <2>2. job[c].pc = "setup" /\ UNCHANGED pool /\ d \in Int
    BY <1>3, TapeRunAssumption DEF Command
  <2>3. CASE Retry(c, Longer(c))
    BY <2>2, <2>3, LongerIsANumber, RetrySound DEF Sound
  <2>4. CASE On(c, [job[c] EXCEPT !.T = @ + d, !.pc = "run_to"]) /\ UNCHANGED emulators
    <3> DEFINE j == [job[c] EXCEPT !.T = @ + d, !.pc = "run_to"]
    <3>1. j \in JobRecord
      <4>1. job[c].T + d \in Int
        BY <1>0, <2>2 DEF JobRecord
      <4>2. j = [[job[c] EXCEPT !.T = job[c].T + d] EXCEPT !.pc = "run_to"]
        BY <1>0 DEF JobRecord
      <4> QED BY <1>0, <4>1, <4>2, FieldChanges DEF Pcs
    <3>2. j.pc = "run_to" /\ j.verdict = job[c].verdict
      BY <1>0 DEF JobRecord
    <3> HIDE DEF j
    <3> QED
      BY <2>2, <2>4, <3>1, <3>2, JobGoesOn DEF Live, j
  <2> QED BY <2>1, <2>3, <2>4
<1>4. CASE RunTo(c)
  <2> DEFINE j == IF job[c].T >= job[c].lead - 10 THEN [job[c] EXCEPT !.pc = "enter"] ELSE [job[c] EXCEPT !.T = @ + 1]
  <2>1. job[c].pc = "run_to" /\ On(c, j) /\ UNCHANGED <<pool, emulators>>
    BY <1>4 DEF RunTo
  <2>2. j \in JobRecord /\ j.pc \in Live /\ j.verdict = job[c].verdict
    BY <1>0, <2>1 DEF JobRecord, Pcs, Live
  <2> HIDE DEF j
  <2> QED BY <2>1, <2>2, JobGoesOn
<1>5. CASE PressEnter(c)
  <2> DEFINE j == [job[c] EXCEPT !.T = @ + 1, !.pc = "poll"]
  <2>1. job[c].pc = "enter" /\ On(c, j) /\ UNCHANGED <<pool, emulators>>
    BY <1>5 DEF PressEnter
  <2>2. j \in JobRecord
    <3>1. job[c].T + 1 \in Int
      BY <1>0 DEF JobRecord
    <3>2. j = [[job[c] EXCEPT !.T = job[c].T + 1] EXCEPT !.pc = "poll"]
      BY <1>0 DEF JobRecord
    <3> QED BY <1>0, <3>1, <3>2, FieldChanges DEF Pcs
  <2>3. j.pc \in Live /\ j.verdict = job[c].verdict
    BY <1>0 DEF JobRecord, Live
  <2> HIDE DEF j
  <2> QED BY <2>1, <2>2, <2>3, JobGoesOn
<1>6. CASE NeverTaken(c) \/ Judged(c)
  BY <1>6, EndsSound DEF NeverTaken, Judged, Verdicts
<1> QED
  BY <1>1, <1>2, <1>3, <1>4, <1>5, <1>6 DEF Step

LEMMA GoesSound == ASSUME Sound, NEW c \in Ids, Goes(c) PROVE PortsSound'
<1> USE DEF pool
<1>0. job[c] \in JobRecord
  BY DEF Sound, JobsInTime
<1>1. CASE TypingSlips(c)
  <2>1. job[c].lead \in Int
    BY <1>0 DEF JobRecord
  <2> QED
    BY <1>1, <2>1, RetrySound DEF TypingSlips
<1>2. CASE SetupFails(c)
  BY <1>2, EndsSound DEF SetupFails, Verdicts
<1>3. CASE EnterDropped(c)
  <2> DEFINE j == [job[c] EXCEPT !.T = @ + 1, !.tries = @ + 1]
  <2>1. job[c].pc = "enter" /\ job[c].tries < Tries /\ On(c, j) /\ UNCHANGED <<pool, emulators>>
    BY <1>3 DEF EnterDropped
  <2>2. j \in JobRecord
    <3>1. job[c].T + 1 \in Int /\ job[c].tries + 1 \in 0..Tries
      BY <1>0, <2>1 DEF JobRecord, Tries
    <3>2. j = [[job[c] EXCEPT !.T = job[c].T + 1] EXCEPT !.tries = job[c].tries + 1]
      BY <1>0 DEF JobRecord
    <3> QED BY <1>0, <3>1, <3>2, FieldChanges
  <2>3. j.pc \in Live /\ j.verdict = job[c].verdict
    BY <1>0, <2>1 DEF JobRecord, Live
  <2> HIDE DEF j
  <2> QED BY <2>1, <2>2, <2>3, JobGoesOn
<1>4. CASE WorkerDies(c)
  <2> DEFINE j == [job[c] EXCEPT !.pc = "ended", !.verdict = "worker died"]
  <2>1. j \in JobRecord /\ j.pc = "ended" /\ j.verdict = "worker died"
    BY <1>0 DEF JobRecord, Pcs, Verdicts
  <2>2. On(c, j) /\ UNCHANGED <<pool, emulators>> /\ job[c].pc \notin {"none", "ended"}
    BY <1>4 DEF WorkerDies
  <2> HIDE DEF j
  <2>3. emulators' \subseteq Ids \X Nat
    BY <2>2 DEF Sound, PortsSound
  <2>4. \A e \in emulators' : \/ e \in emulators /\ e[1] # c
                              \/ e[1] = c /\ (j.verdict = "worker died" \/ (e[2] = running[c] /\ j.pc \in Live))
    BY <2>1, <2>2
  <2> QED BY <2>1, <2>2, <2>3, <2>4, JobSound
<1> QED
  BY <1>1, <1>2, <1>3, <1>4 DEF Goes

----------------------------------------------------------------------------
\* What is left of a sequence without repetitions has none, and not its head.
LEMMA TailApart ==
    ASSUME NEW S, NEW s \in Seq(S), s # <<>>, IsInjective(s)
    PROVE  /\ Head(s) \in S /\ Tail(s) \in Seq(S) /\ IsInjective(Tail(s))
           /\ \A i \in DOMAIN Tail(s) : Tail(s)[i] # Head(s) /\ \E k \in DOMAIN s : s[k] = Tail(s)[i]
           /\ \E k \in DOMAIN s : s[k] = Head(s)
<1>1. Len(s) \in Nat \ {0} /\ DOMAIN s = 1..Len(s) /\ Head(s) = s[1] /\ Head(s) \in S
  OBVIOUS
<1>2. Tail(s) \in Seq(S) /\ Len(Tail(s)) = Len(s) - 1 /\ DOMAIN Tail(s) = 1..Len(s) - 1
  BY <1>1
<1>3. \A i \in 1..Len(s) - 1 : Tail(s)[i] = s[i + 1] /\ i + 1 \in 1..Len(s)
  BY <1>1, <1>2
<1>4. \A a, b \in 1..Len(s) : s[a] = s[b] => a = b
  BY <1>1 DEF IsInjective
<1>5. IsInjective(Tail(s))
  BY <1>1, <1>2, <1>3, <1>4 DEF IsInjective
<1>6. \A i \in DOMAIN Tail(s) : Tail(s)[i] # Head(s) /\ \E k \in DOMAIN s : s[k] = Tail(s)[i]
  BY <1>1, <1>2, <1>3, <1>4
<1>7. \E k \in DOMAIN s : s[k] = Head(s)
  BY <1>1
<1> QED
  BY <1>1, <1>2, <1>5, <1>6, <1>7

\* An element that a sequence without repetitions has not may be appended.
LEMMA AppendApart ==
    ASSUME NEW S, NEW s \in Seq(S), NEW x \in S, IsInjective(s), \A i \in DOMAIN s : s[i] # x
    PROVE  /\ Append(s, x) \in Seq(S) /\ IsInjective(Append(s, x))
           /\ \A i \in DOMAIN Append(s, x) : Append(s, x)[i] = x \/ \E k \in DOMAIN s : s[k] = Append(s, x)[i]
<1>1. Len(s) \in Nat /\ DOMAIN s = 1..Len(s) /\ Append(s, x) \in Seq(S) /\ Len(Append(s, x)) = Len(s) + 1
  OBVIOUS
<1>2. DOMAIN Append(s, x) = 1..Len(s) + 1 /\ \A i \in 1..Len(s) + 1 : i \in 1..Len(s) \/ i = Len(s) + 1
  BY <1>1
<1>3. Append(s, x)[Len(s) + 1] = x /\ \A i \in 1..Len(s) : Append(s, x)[i] = s[i]
  BY <1>1
<1>4. \A a, b \in 1..Len(s) : s[a] = s[b] => a = b
  BY <1>1 DEF IsInjective
<1>5. \A a, b \in 1..Len(s) + 1 : Append(s, x)[a] = Append(s, x)[b] => a = b
  BY <1>1, <1>2, <1>3, <1>4
<1>6. IsInjective(Append(s, x))
  BY <1>2, <1>5 DEF IsInjective
<1> QED
  BY <1>1, <1>2, <1>3, <1>6

LEMMA SubmitSound == ASSUME Sound, Submit PROVE PortsSound'
<1> DEFINE c == Head(pending)
           p == Head(free)
           j == [None EXCEPT !.pc = "play", !.lead = Lead[Head(pending)]]
<1>1. c \in Ids /\ Waits(c) /\ IsInjective(Tail(pending)) /\ \A d \in Ids : Waits(d)' => d # c /\ Waits(d)
  <2>1. pending \in Seq(Ids) /\ pending # <<>> /\ IsInjective(pending) /\ pending' = Tail(pending)
    BY DEF Sound, JobsInTime, PortsSound, Submit
  <2>2. /\ c \in Ids /\ IsInjective(Tail(pending)) /\ \E k \in DOMAIN pending : pending[k] = c
        /\ \A i \in DOMAIN Tail(pending) : Tail(pending)[i] # c /\ \E k \in DOMAIN pending : pending[k] = Tail(pending)[i]
    BY <2>1, TailApart
  <2> HIDE DEF c
  <2> QED
    BY <2>1, <2>2 DEF Waits
<1>2. p \in Nat \ {0} /\ AtRest(p) /\ Tail(free) \in Seq(Nat \ {0}) /\ IsInjective(Tail(free))
  BY TailApart DEF Sound, PortsSound, Submit, AtRest
<1>3. \A q : AtRest(q)' => q # p /\ AtRest(q)
  BY TailApart DEF Sound, PortsSound, Submit, AtRest
<1>4. j.pc = "play" /\ j.verdict = ""
  BY DEF None
<1>5. /\ job' = [d \in Ids |-> IF d = c THEN j ELSE job[d]] /\ running' = [d \in Ids |-> IF d = c THEN p ELSE running[d]]
      /\ pending' = Tail(pending) /\ free' = Tail(free) /\ UNCHANGED <<results, emulators>>
  BY DEF Submit, On, Sound, JobsInTime, PortsSound
<1>6. running[c] = 0 /\ results[c] = "" /\ \A e \in emulators : e[1] # c
  BY <1>1 DEF Sound, PortsSound, CaseSound
<1> HIDE DEF c, p, j
<1>7. ASSUME NEW d \in Ids PROVE CaseSound(d)'
  <2>1. CaseSound(d)
    BY DEF Sound, PortsSound
  <2>2. CASE d = c
    BY <1>1, <1>2, <1>3, <1>4, <1>5, <1>6, <2>2 DEF CaseSound
  <2>3. CASE d # c
    BY <1>1, <1>3, <1>5, <2>1, <2>3 DEF CaseSound
  <2> QED
    BY <2>2, <2>3
<1>8. \A d, x \in Ids : d # x /\ running'[d] # 0 => running'[d] # running'[x]
  <2>1. \A d \in Ids : running[d] # 0 => running[d] # p
    BY <1>2 DEF Sound, PortsSound, CaseSound
  <2>2. \A d, x \in Ids : d # x /\ running[d] # 0 => running[d] # running[x]
    BY DEF Sound, PortsSound
  <2> QED
    BY <1>2, <1>5, <2>1, <2>2
<1>9. \A e \in emulators' : OnItsPort(e)'
  <2>1. \A e \in emulators : OnItsPort(e) /\ e[1] \in Ids
    BY DEF Sound, PortsSound
  <2> QED
    BY <1>5, <1>6, <2>1 DEF OnItsPort, Died
<1>10. running' \in [Ids -> Nat] /\ results' \in [Ids -> Verdicts] /\ emulators' \subseteq Ids \X Nat
  BY <1>2, <1>5 DEF Sound, PortsSound
<1> QED
  BY <1>1, <1>2, <1>5, <1>7, <1>8, <1>9, <1>10 DEF PortsSound

LEMMA CollectSound == ASSUME Sound, NEW c \in Ids, Collect(c) PROVE PortsSound'
<1> DEFINE p == running[c]
<1>1. p \in Nat \ {0} /\ ~AtRest(p) /\ results[c] = "" /\ ~Waits(c)
  BY DEF Sound, PortsSound, CaseSound, Collect
<1>2. free \in Seq(Nat \ {0}) /\ free' = Append(free, p) /\ IsInjective(free)
  BY DEF Sound, PortsSound, Collect
<1>3. /\ job' = [d \in Ids |-> IF d = c THEN None ELSE job[d]] /\ running' = [d \in Ids |-> IF d = c THEN 0 ELSE running[d]]
      /\ results' = [d \in Ids |-> IF d = c THEN job[c].verdict ELSE results[d]]
      /\ UNCHANGED <<pending, emulators>> /\ job[c].pc = "ended" /\ job[c].verdict \in Verdicts
  BY DEF Collect, On, Sound, JobsInTime, PortsSound, JobRecord
<1> HIDE DEF p
<1>4. \A i \in DOMAIN free : free[i] # p
  BY <1>1 DEF AtRest
<1>5. free' \in Seq(Nat \ {0}) /\ IsInjective(free') /\ \A i \in DOMAIN free' : free'[i] = p \/ \E k \in DOMAIN free : free[k] = free'[i]
  <2> DEFINE S == Nat \ {0}
  <2>1. free \in Seq(S) /\ p \in S /\ IsInjective(free)
    BY <1>1, <1>2
  <2> HIDE DEF S
  <2>2. /\ Append(free, p) \in Seq(S) /\ IsInjective(Append(free, p))
        /\ \A i \in DOMAIN Append(free, p) : Append(free, p)[i] = p \/ \E k \in DOMAIN free : free[k] = Append(free, p)[i]
    BY <1>4, <2>1, AppendApart
  <2> QED
    BY <1>2, <2>2 DEF S
<1>6. \A q : AtRest(q)' => AtRest(q) \/ q = p
  BY <1>5 DEF AtRest
<1>7. \A d, x \in Ids : d # x /\ running[d] # 0 => running[d] # running[x]
  BY DEF Sound, PortsSound
<1>8. ASSUME NEW d \in Ids PROVE CaseSound(d)'
  <2>1. CaseSound(d)
    BY DEF Sound, PortsSound
  <2>2. Waits(d)' <=> Waits(d)
    BY <1>3 DEF Waits
  <2>3. CASE d = c
    BY <1>1, <1>3, <2>2, <2>3 DEF CaseSound, None
  <2>4. CASE d # c
    BY <1>3, <1>6, <1>7, <2>1, <2>2, <2>4 DEF CaseSound, p
  <2> QED
    BY <2>3, <2>4
<1>9. \A e \in emulators' : OnItsPort(e)'
  <2>1. \A e \in emulators : OnItsPort(e) /\ e[1] \in Ids
    BY DEF Sound, PortsSound
  <2>2. ASSUME NEW e \in emulators, e[1] = c PROVE OnItsPort(e)'
    <3>1. Died(c)
      BY <1>3, <2>1, <2>2 DEF OnItsPort, Live
    <3>2. job[c].verdict = "worker died"
      BY <1>1, <3>1 DEF Died
    <3> QED
      BY <1>3, <2>2, <3>2 DEF OnItsPort, Died
  <2>3. ASSUME NEW e \in emulators, e[1] # c PROVE OnItsPort(e)'
    BY <1>3, <2>1, <2>3 DEF OnItsPort, Died
  <2> QED
    BY <1>3, <2>2, <2>3
<1> QED
  BY <1>3, <1>5, <1>7, <1>8, <1>9 DEF Sound, PortsSound

----------------------------------------------------------------------------
LEMMA NextSound == ASSUME Sound, [Next]_vars PROVE Sound'
<1>1. JobsInTime'
  BY NextInTime DEF Sound
<1>2. PortsSound'
  <2>1. CASE Submit
    BY <2>1, SubmitSound
  <2>2. CASE Finished \/ UNCHANGED vars
    <3>1. UNCHANGED <<pending, free, running, results, job, emulators>>
      BY <2>2 DEF Finished, vars
    <3>2. \A c \in Ids : CaseSound(c)'
      BY <3>1 DEF Sound, PortsSound, CaseSound, Waits, AtRest
    <3>3. \A e \in emulators' : OnItsPort(e)'
      BY <3>1 DEF Sound, PortsSound, OnItsPort, Died
    <3> QED
      BY <3>1, <3>2, <3>3 DEF Sound, PortsSound
  <2>3. ASSUME NEW c \in Ids, Collect(c) \/ Step(c) \/ Goes(c) PROVE PortsSound'
    BY <2>3, CollectSound, StepSound, GoesSound
  <2> QED
    BY <2>1, <2>2, <2>3 DEF Next
<1> QED
  BY <1>1, <1>2 DEF Sound

\* tapetest's workers never share a port, and a worker whose case runs has its emulator's port to itself unless a worker died
\* there before it, for any number of cases and ports (tapetest.py: run_all, run_case).
THEOREM PortsStayApart == Spec => []PortsApart
<1>1. ASSUME Sound PROVE PortsApart
  <2>1. \A c, d \in Ids : c # d /\ running[c] # 0 => running[c] # running[d]
    BY <1>1 DEF Sound, PortsSound
  <2>2. \A e \in emulators : OnItsPort(e) /\ e \in Ids \X Nat
    BY <1>1 DEF Sound, PortsSound
  <2>3. ASSUME NEW e \in emulators, NEW x \in emulators, e[2] = x[2], ~Died(e[1]), ~Died(x[1]) PROVE e = x
    <3>1. e[2] = running[e[1]] /\ x[2] = running[x[1]] /\ e[2] # 0
      BY <2>2, <2>3 DEF OnItsPort
    <3>2. e[1] = x[1]
      BY <2>1, <2>2, <2>3, <3>1
    <3> QED
      BY <2>2, <2>3, <3>2
  <2> QED
    BY <2>1, <2>2, <2>3 DEF PortsApart, OnItsPort, Died, Live
<1> QED
  BY SoundInit, NextSound, <1>1, PTL DEF Spec
----------------------------------------------------------------------------
(* tapetol.  The answers on their way are true ones, of the last try: a case is spoken of only
   when its worker has done with it, so no later ENTER is lost or taken for it.  A case that was
   dealt is still to be done, or its answer is on its way or was read, or its worker was killed,
   or three attempts failed.                                                                *)

Answer == [name : 0..NCases, ok : BOOLEAN]
TolRecord == [pc : {"next", "typing", "enter", "watch", "ending", "dead"}, todo : Seq(1..NCases), attempt : 1..3,
                 emu : BOOLEAN, T : Nat, t_enter : Nat, box : Seq(Answer)]
TolTypes ==
    /\ crew \in [TolWorkers -> TolRecord] /\ mail \in Seq(Answer) /\ tolMain \in {"alive", "empty", "get", "done"}
    /\ verdict \in [1..NCases -> {"not run", "accept", "refuse"}] /\ tolFaults \in Nat /\ tolKilled \subseteq TolWorkers

\* An answer about a case is what the ROM does with its signal, and a refusal when its ENTER was dropped (d: the
\* cases it was dropped for); an empty one says that three attempts failed.
AnswerTrue(m, d) == m.name # 0 => (m.ok <=> Hears[m.name] /\ m.name \notin d)
AllTrue(s, d) == \A i \in 1..Len(s) : AnswerTrue(s[i], d)
ResultTrue(n) == verdict[n] # "not run" => verdict[n] = IF Hears[n] /\ n \notin deaf THEN "accept" ELSE "refuse"
\* A worker enters its command within the lead, has a case in hand while it runs one, and each attempt but the first
\* came after a fault.
TolSound(x, n, d) ==
    /\ x.pc = "enter" => x.T <= TolLead
    /\ x.pc = "watch" => x.t_enter <= TolLead
    /\ x.pc \in {"typing", "enter", "watch"} => x.todo # <<>>
    /\ x.pc = "ending" => x.todo = <<>>
    /\ x.attempt <= n + 1
    /\ AllTrue(x.box, d)
\* One that ended by itself has done its cases and sent its answers.
EndedSound(k) == crew[k].pc = "dead" /\ k \notin tolKilled => crew[k].todo = <<>> /\ crew[k].box = <<>>
Answered(s, n) == \E i \in 1..Len(s) : s[i].name = n
ToDo(s, n) == \E i \in 1..Len(s) : s[i] = n
Accounted(k, n) == \/ ToDo(crew[k].todo, n) \/ Answered(crew[k].box, n) \/ Answered(mail, n) \/ verdict[n] # "not run"
                   \/ tolFaults >= 3 \/ k \in tolKilled
\* The parent's second test is of a queue nobody adds to.
MainSound == /\ tolMain \in {"empty", "done"} => \A k \in TolWorkers : ~Living(k)
             /\ tolMain = "done" => mail = <<>>
\* No case is to be done twice, and none that is to be done has been spoken of.
Distinct(s) == \A i, j \in 1..Len(s) : s[i] = s[j] => i = j
Spoken(n) == Answered(mail, n) \/ (\E k \in TolWorkers : Answered(crew[k].box, n)) \/ verdict[n] # "not run"
EachOnce ==
    /\ \A k \in TolWorkers : Distinct(crew[k].todo)
    /\ \A j, k \in TolWorkers : \A n \in 1..NCases : ToDo(crew[j].todo, n) /\ ToDo(crew[k].todo, n) => j = k
    /\ \A n \in 1..NCases : Spoken(n) => \A k \in TolWorkers : ~ToDo(crew[k].todo, n)
ReportInv ==
    /\ TolTypes /\ MainSound /\ AllTrue(mail, deaf) /\ EachOnce
    /\ \A k \in TolWorkers : TolSound(crew[k], tolFaults, deaf) /\ EndedSound(k)
    /\ \A n \in 1..NCases : ResultTrue(n)
    /\ \A k \in TolWorkers : \A n \in Range(Deal(k)) : Accounted(k, n)
----------------------------------------------------------------------------
\* Sequences.
LEMMA HeadTail == ASSUME NEW X, NEW s \in Seq(X), s # <<>>
               PROVE  /\ Head(s) \in X /\ Head(s) = s[1] /\ 1 \in 1..Len(s) /\ Tail(s) \in Seq(X)
                      /\ \A i \in 1..Len(Tail(s)) : i + 1 \in 1..Len(s) /\ Tail(s)[i] = s[i + 1]
                      /\ \A i \in 1..Len(s) : s[i] = Head(s) \/ \E j \in 1..Len(Tail(s)) : Tail(s)[j] = s[i]
<1>1. /\ Head(s) \in X /\ Head(s) = s[1] /\ 1 \in 1..Len(s) /\ Tail(s) \in Seq(X) /\ Len(Tail(s)) = Len(s) - 1 /\ Len(s) \in Nat
      /\ \A i \in 1..Len(s) - 1 : Tail(s)[i] = s[i + 1]
  OBVIOUS
<1>2. \A i \in 1..Len(Tail(s)) : i + 1 \in 1..Len(s) /\ Tail(s)[i] = s[i + 1]
  BY <1>1
<1>3. ASSUME NEW i \in 1..Len(s), s[i] # Head(s) PROVE \E j \in 1..Len(Tail(s)) : Tail(s)[j] = s[i]
  <2>1. PICK j \in Nat : i = j + 1
    BY <1>1
  <2>2. j # 0
    BY <2>1, <1>1, <1>3
  <2>3. j \in 1..Len(s) - 1 /\ Tail(s)[j] = s[i]
    BY <2>1, <2>2, <1>1
  <2> QED BY <2>3, <1>1
<1> QED BY <1>1, <1>2, <1>3
LEMMA Added == ASSUME NEW X, NEW s \in Seq(X), NEW x \in X, NEW t, t = Append(s, x)
               PROVE  /\ t \in Seq(X) /\ Len(t) = Len(s) + 1 /\ Len(t) \in 1..Len(t) /\ t[Len(t)] = x
                      /\ \A i \in 1..Len(s) : i \in 1..Len(t) /\ t[i] = s[i]
                      /\ \A i \in 1..Len(t) : t[i] = x \/ (i \in 1..Len(s) /\ t[i] = s[i])
<1>1. PICK n \in Nat : n = Len(s)
  OBVIOUS
<1>2. t \in Seq(X) /\ Len(t) = n + 1 /\ t[n + 1] = x /\ \A i \in 1..n : t[i] = s[i]
  BY <1>1
<1>3. \A i \in 1..n + 1 : i = n + 1 \/ i \in 1..n
  OBVIOUS
<1>4. \A i \in 1..n : i \in 1..n + 1
  OBVIOUS
<1> QED BY <1>1, <1>2, <1>3, <1>4
LEMMA AllTaken == ASSUME NEW X, NEW s \in Seq(X), s # <<>>, NEW d, AllTrue(s, d) PROVE AnswerTrue(Head(s), d) /\ AllTrue(Tail(s), d)
BY HeadTail DEF AllTrue
LEMMA AllAdded == ASSUME NEW X, NEW s \in Seq(X), NEW x \in X, NEW d, AllTrue(s, d), AnswerTrue(x, d) PROVE AllTrue(Append(s, x), d)
<1>1. PICK t : t = Append(s, x)
  OBVIOUS
<1>2. \A i \in 1..Len(t) : t[i] = x \/ (i \in 1..Len(s) /\ t[i] = s[i])
  BY <1>1, Added
<1>3. AllTrue(t, d)
  BY <1>2 DEF AllTrue
<1> QED BY <1>1, <1>3
LEMMA ToldTaken == ASSUME NEW X, NEW s \in Seq(X), s # <<>>, NEW n, Answered(s, n) PROVE Head(s).name = n \/ Answered(Tail(s), n)
BY HeadTail DEF Answered
LEMMA ToldAdded == ASSUME NEW X, NEW s \in Seq(X), NEW x \in X
                   PROVE  /\ Answered(Append(s, x), x.name) /\ \A n : Answered(s, n) => Answered(Append(s, x), n)
                          /\ \A n : Answered(Append(s, x), n) => Answered(s, n) \/ n = x.name
<1>1. PICK t : t = Append(s, x)
  OBVIOUS
<1>2. Len(t) \in 1..Len(t) /\ t[Len(t)] = x /\ \A i \in 1..Len(s) : i \in 1..Len(t) /\ t[i] = s[i]
  BY <1>1, Added
<1>3. Answered(t, x.name)
  BY <1>2 DEF Answered
<1>4. ASSUME NEW n, Answered(s, n) PROVE Answered(t, n)
  BY <1>2, <1>4 DEF Answered
<1>5. \A i \in 1..Len(t) : t[i] = x \/ (i \in 1..Len(s) /\ t[i] = s[i])
  BY <1>1, Added
<1>6. ASSUME NEW n, Answered(t, n) PROVE Answered(s, n) \/ n = x.name
  <2>1. PICK i \in 1..Len(t) : t[i].name = n
    BY <1>6 DEF Answered
  <2> QED BY <2>1, <1>5 DEF Answered
<1> QED BY <1>1, <1>3, <1>4, <1>6
LEMMA ToldBefore == ASSUME NEW X, NEW s \in Seq(X), s # <<>>
                    PROVE  Answered(s, Head(s).name) /\ \A n : Answered(Tail(s), n) => Answered(s, n)
BY HeadTail DEF Answered
LEMMA OnceTaken == ASSUME NEW X, NEW s \in Seq(X), s # <<>>, Distinct(s)
                   PROVE  /\ Distinct(Tail(s)) /\ ToDo(s, Head(s)) /\ ~ToDo(Tail(s), Head(s))
                          /\ \A n : ToDo(Tail(s), n) => ToDo(s, n)
<1>1. /\ Head(s) = s[1] /\ 1 \in 1..Len(s)
      /\ \A i \in 1..Len(Tail(s)) : i + 1 \in 1..Len(s) /\ Tail(s)[i] = s[i + 1]
  BY HeadTail
<1>2. Distinct(Tail(s))
  <2>1. ASSUME NEW i \in 1..Len(Tail(s)), NEW j \in 1..Len(Tail(s)), Tail(s)[i] = Tail(s)[j] PROVE i = j
    <3>1. i + 1 = j + 1
      BY <1>1, <2>1 DEF Distinct
    <3> QED BY <3>1
  <2> QED BY <2>1 DEF Distinct
<1>3. ASSUME NEW i \in 1..Len(Tail(s)) PROVE Tail(s)[i] # Head(s)
  <2>1. i + 1 # 1
    OBVIOUS
  <2> QED BY <2>1, <1>1 DEF Distinct
<1> QED BY <1>1, <1>2, <1>3 DEF ToDo
LEMMA ToDoTaken == ASSUME NEW X, NEW s \in Seq(X), s # <<>>, NEW n, ToDo(s, n) PROVE Head(s) = n \/ ToDo(Tail(s), n)
BY HeadTail DEF ToDo
----------------------------------------------------------------------------
\* Division, and how the cases are dealt.
LEMMA Div == ASSUME NEW a \in Nat, NEW b \in Nat \ {0} PROVE a = b * (a \div b) + (a % b) /\ a % b \in 0..b - 1 /\ a \div b \in Nat
OBVIOUS
LEMMA Mono == ASSUME NEW x \in Nat, NEW y \in Nat, NEW b \in Nat, x <= y PROVE x * b <= y * b /\ x * b \in Nat
<1>1. PICK d \in Nat : y = x + d
  <2>1. y - x \in Nat /\ y = x + (y - x)
    OBVIOUS
  <2> QED BY <2>1
<1>2. y * b = x * b + d * b /\ d * b \in Nat /\ x * b \in Nat
  BY <1>1
<1> QED BY <1>2
LEMMA Unique == ASSUME NEW b \in Nat \ {0}, NEW i \in Nat, NEW j \in Nat, NEW r \in 0..b - 1, NEW s \in 0..b - 1, i * b + r = j * b + s PROVE i = j /\ r = s
<1>1. ASSUME NEW x \in Nat, NEW y \in Nat, x < y, NEW u \in 0..b - 1, NEW v \in 0..b - 1 PROVE x * b + u # y * b + v
  <2>1. (x + 1) * b <= y * b
    BY <1>1, Mono, x + 1 \in Nat, x + 1 <= y
  <2>2. (x + 1) * b = x * b + b /\ x * b \in Nat /\ y * b \in Nat
    OBVIOUS
  <2> QED BY <2>1, <2>2
<1>2. i = j
  <2>1. i < j \/ j < i \/ i = j
    OBVIOUS
  <2> QED BY <2>1, <1>1
<1> QED BY <1>2
LEMMA Mod == ASSUME NEW b \in Nat \ {0}, NEW i \in Nat, NEW k \in Nat PROVE (i * b + k) % b = k % b
<1>1. PICK n \in Nat : n = i * b + k
  OBVIOUS
<1>2. k = b * (k \div b) + (k % b) /\ k % b \in 0..b - 1 /\ k \div b \in Nat /\ n = b * (n \div b) + (n % b) /\ n % b \in 0..b - 1 /\ n \div b \in Nat
  BY Div
<1>3. PICK j \in Nat, x \in Nat, d \in Nat : j = n \div b /\ x = k \div b /\ d = i + x
  BY <1>2
<1>4. d * b + (k % b) = j * b + (n % b)
  <2>1. d * b = i * b + x * b
    BY <1>3
  <2>2. b * j = j * b /\ b * x = x * b
    OBVIOUS
  <2> QED BY <2>1, <2>2, <1>1, <1>2, <1>3
<1>5. n % b = k % b
  <2>1. PICK r \in 0..b - 1, s \in 0..b - 1 : r = k % b /\ s = n % b
    BY <1>2
  <2>2. d * b + r = j * b + s
    BY <2>1, <1>4
  <2>3. r = s
    BY ONLY <2>2, b \in Nat \ {0}, d \in Nat, j \in Nat, r \in 0..b - 1, s \in 0..b - 1, Unique
  <2> QED BY <2>1, <2>3
<1> QED BY <1>1, <1>5

\* How the cases are dealt: cases[k - 1 :: TolJobs].
LEMMA Counted == ASSUME TolRunParameters, NEW k \in TolWorkers, NEW n \in 1..NCases, n % TolJobs = k % TolJobs
                 PROVE  \E i \in Nat : n = i * TolJobs + k
<1>1. TolJobs \in Nat \ {0} /\ NCases \in Nat \ {0} /\ k \in 1..TolJobs /\ n \in Nat /\ k \in Nat
  BY DEF TolRunParameters, TolWorkers
<1>2. PICK x \in Nat, y \in Nat, r \in 0..TolJobs - 1 : x = n \div TolJobs /\ y = k \div TolJobs /\ r = n % TolJobs
  BY <1>1, Div
<1>3. n = x * TolJobs + r /\ k = y * TolJobs + r
  <2>1. n = TolJobs * x + r /\ k = TolJobs * y + r
    BY <1>1, <1>2, Div
  <2>2. TolJobs * x = x * TolJobs /\ TolJobs * y = y * TolJobs
    BY <1>1
  <2> QED BY <2>1, <2>2
<1>4. y <= x
  <2> SUFFICES ASSUME x < y PROVE FALSE
    BY <1>2
  <2>1. y * TolJobs + r <= TolJobs
    BY <1>1, <1>3
  <2>2. y = 1 /\ r = 0
    <3>1. ASSUME y >= 2 PROVE FALSE
      <4>1. 2 * TolJobs <= y * TolJobs
        BY <3>1, <1>1, Mono
      <4>2. y * TolJobs \in Nat
        BY <1>1
      <4> QED BY <4>1, <4>2, <2>1, <1>1
    <3>2. y = 1
      BY <3>1, x < y
    <3>3. y * TolJobs = TolJobs
      BY <3>2, <1>1
    <3> QED BY <3>2, <3>3, <2>1, <1>1
  <2>3. x = 0
    BY <2>2
  <2>4. n = 0
    BY <2>2, <2>3, <1>1, <1>3
  <2> QED BY <2>4
<1>5. PICK i \in Nat : x = y + i
  <2>1. x - y \in Nat /\ x = y + (x - y)
    BY <1>4
  <2> QED BY <2>1
<1>6. x * TolJobs = y * TolJobs + i * TolJobs /\ i * TolJobs \in Nat /\ y * TolJobs \in Nat
  BY <1>1, <1>5
<1>7. n = i * TolJobs + k
  BY <1>1, <1>3, <1>6
<1> QED BY <1>7
Place(k, i) == (i - 1) * TolJobs + k
LEMMA DealIs ==
    ASSUME TolRunParameters, NEW k \in TolWorkers
    PROVE  /\ Deal(k) \in Seq(1..NCases)
           /\ \A n \in 1..NCases : n % TolJobs = k % TolJobs => n \in Range(Deal(k))
           /\ Distinct(Deal(k)) /\ \A n : ToDo(Deal(k), n) => n % TolJobs = k % TolJobs
<1>1. TolJobs \in Nat \ {0} /\ NCases \in Nat \ {0} /\ k \in 1..TolJobs /\ k \in Nat /\ k <= NCases
  BY DEF TolRunParameters, TolWorkers
<1>2. PICK z \in Nat, m \in Nat : z = (NCases - k) \div TolJobs /\ m = z + 1
  <2>1. PICK d \in Nat : d = NCases - k
    BY <1>1
  <2>2. d \div TolJobs \in Nat
    BY <1>1, Div
  <2> QED BY <2>1, <2>2
<1>3. \A j \in Nat : j * TolJobs + k <= NCases <=> j <= z
  <2>1. PICK d \in Nat, r \in 0..TolJobs - 1 : d = NCases - k /\ d = TolJobs * z + r
    <3>1. PICK d \in Nat : d = NCases - k
      BY <1>1
    <3>2. d = TolJobs * (d \div TolJobs) + (d % TolJobs) /\ d % TolJobs \in 0..TolJobs - 1
      BY <1>1, Div
    <3> QED BY <3>1, <3>2, <1>2
  <2>2. TolJobs * z = z * TolJobs /\ z * TolJobs \in Nat
    BY <1>1
  <2> TAKE j \in Nat
  <2>3. ASSUME j <= z PROVE j * TolJobs + k <= NCases
    <3>1. j * TolJobs <= z * TolJobs /\ j * TolJobs \in Nat
      BY <2>3, <1>1, Mono
    <3> QED BY <3>1, <2>1, <2>2, <1>1
  <2>4. ASSUME z < j PROVE j * TolJobs + k > NCases
    <3>1. PICK y \in Nat : y = z + 1
      OBVIOUS
    <3>2. y * TolJobs <= j * TolJobs /\ j * TolJobs \in Nat
      BY <2>4, <3>1, <1>1, Mono
    <3>3. y * TolJobs = z * TolJobs + TolJobs
      BY <3>1, <1>1
    <3> QED BY <3>2, <3>3, <2>1, <2>2, <1>1
  <2>5. j * TolJobs \in Nat
    BY <1>1
  <2> QED BY <2>3, <2>4, <2>5, <1>1
<1> DEFINE S == {n \in 1..NCases : n % TolJobs = k % TolJobs}
<1> DEFINE B == [i \in 1..m |-> Place(k, i)]
<1>4. \A i \in 1..m : Place(k, i) \in S
  <2> TAKE i \in 1..m
  <2>1. PICK j \in Nat : j = i - 1
    OBVIOUS
  <2>2. j * TolJobs + k <= NCases /\ j * TolJobs \in Nat
    BY <2>1, <1>1, <1>2, <1>3
  <2>3. (j * TolJobs + k) % TolJobs = k % TolJobs
    BY <1>1, Mod
  <2>4. Place(k, i) = j * TolJobs + k
    BY <2>1 DEF Place
  <2> QED BY <2>2, <2>3, <2>4, <1>1
<1>5. \A n \in S : \E i \in 1..m : n = Place(k, i)
  <2> TAKE n \in S
  <2>1. PICK j \in Nat : n = j * TolJobs + k
    BY Counted
  <2>2. j <= z
    BY <2>1, <1>1, <1>3
  <2>3. PICK i \in Nat : i = j + 1
    OBVIOUS
  <2>4. i \in 1..m /\ i - 1 = j
    BY <2>2, <2>3, <1>2
  <2> QED BY <2>1, <2>4 DEF Place
<1>6. \A i \in 1..m, l \in 1..m : Place(k, i) = Place(k, l) => i = l
  <2> TAKE i \in 1..m, l \in 1..m
  <2> HAVE Place(k, i) = Place(k, l)
  <2>1. PICK a \in Nat, b \in Nat, o \in 0..TolJobs - 1 : a = i - 1 /\ b = l - 1 /\ o = 0
    BY <1>1
  <2>2. a * TolJobs \in Nat /\ b * TolJobs \in Nat /\ a * TolJobs + k = b * TolJobs + k
    BY <2>1, <1>1 DEF Place
  <2>3. a * TolJobs + o = b * TolJobs + o
    BY <2>1, <2>2, <1>1
  <2>4. a = b
    BY <2>3, <1>1, Unique
  <2> QED BY <2>1, <2>4
<1>7. B \in Bijection(1..m, S)
  <2>1. B \in [1..m -> S]
    BY <1>4
  <2>2. B \in Injection(1..m, S)
    BY <2>1, <1>6 DEF Injection, IsInjective
  <2>3. B \in Surjection(1..m, S)
    BY <2>1, <1>5 DEF Surjection
  <2> QED BY <2>2, <2>3 DEF Bijection
<1>8. Cardinality(S) = m
  <2>1. IsFiniteSet(1..m) /\ Cardinality(1..m) = IF 1 > m THEN 0 ELSE m - 1 + 1
    BY FS_Interval, 1 \in Int, m \in Int
  <2>2. Cardinality(1..m) = m
    BY <2>1
  <2>3. ExistsBijection(1..m, S)
    BY <1>7 DEF ExistsBijection
  <2> QED BY <2>1, <2>2, <2>3, FS_Bijection
<1>9. Deal(k) = B
  BY <1>8 DEF Deal, Place
<1>10. Deal(k) \in Seq(1..NCases)
  BY <1>4, <1>9
<1>11. ASSUME NEW n \in 1..NCases, n % TolJobs = k % TolJobs PROVE n \in Range(Deal(k))
  <2>1. PICK i \in 1..m : n = Place(k, i)
    BY <1>11, <1>5
  <2>2. i \in DOMAIN B /\ B[i] = n
    BY <2>1
  <2> QED BY <2>2, <1>9 DEF Range
<1>12. \A i \in 1..m : B[i] = Place(k, i)
  OBVIOUS
<1>13. PICK s : s = Deal(k)
  OBVIOUS
<1>14. s \in Seq(1..NCases) /\ Len(s) = m /\ \A i \in 1..m : s[i] = Place(k, i)
  <2>1. DOMAIN B = 1..m
    OBVIOUS
  <2>2. Len(s) \in Nat /\ DOMAIN s = 1..Len(s)
    BY <1>10, <1>13
  <2>3. DOMAIN s = 1..m
    BY <2>1, <1>9, <1>13
  <2> HIDE DEF B
  <2>4. Len(s) = m
    BY <2>2, <2>3, <1>2
  <2> QED BY <2>4, <1>9, <1>10, <1>12, <1>13
<1>15. Distinct(s)
  BY <1>6, <1>14 DEF Distinct
<1>16. ASSUME NEW n, ToDo(s, n) PROVE n % TolJobs = k % TolJobs
  <2>1. PICK i \in 1..m : s[i] = n
    BY <1>14, <1>16 DEF ToDo
  <2>2. n \in S
    BY <2>1, <1>4, <1>14
  <2> QED BY <2>2
<1> QED BY <1>10, <1>11, <1>13, <1>15, <1>16
LEMMA AllDealt == ASSUME TolRunParameters, NEW n \in 1..NCases PROVE \E k \in TolWorkers : n \in Range(Deal(k))
<1>1. TolJobs \in Nat \ {0} /\ NCases \in Nat \ {0}
  BY DEF TolRunParameters
<1>2. PICK r \in 0..TolJobs - 1 : r = n % TolJobs
  BY <1>1, Div
<1>3. n \div TolJobs \in Nat /\ n = TolJobs * (n \div TolJobs) + r
  BY <1>1, <1>2, n \in Nat, Div
<1>4. r <= n
  <2>1. PICK x \in Nat : x = n \div TolJobs
    BY <1>3
  <2>2. TolJobs * x \in Nat
    BY <1>1
  <2> QED BY <2>1, <2>2, <1>3
<1>5. PICK k \in Nat : k = IF r = 0 THEN TolJobs ELSE r
  BY <1>1
<1>6. k % TolJobs = r
  <2>1. CASE r = 0
    <3>1. PICK one \in Nat, nil \in Nat : one = 1 /\ nil = 0
      OBVIOUS
    <3>2. k = one * TolJobs + nil
      BY <2>1, <3>1, <1>1, <1>5
    <3>3. k % TolJobs = nil % TolJobs
      BY <3>2, <1>1, Mod
    <3>4. nil % TolJobs = 0
      BY <3>1, <1>1
    <3> QED BY <3>3, <3>4, <2>1
  <2>2. CASE r # 0
    BY <2>2, <1>1, <1>5
  <2> QED BY <2>1, <2>2
<1>7. k \in TolWorkers
  <2>1. CASE r = 0
    <3>1. n >= TolJobs
      <4>1. PICK x \in Nat : x = n \div TolJobs
        BY <1>3
      <4>2. n = TolJobs * x
        <5>1. TolJobs * x \in Nat /\ n = TolJobs * x + r
          BY <4>1, <1>1, <1>3
        <5> QED BY <5>1, <2>1
      <4>3. x # 0
        BY <4>2, <1>1
      <4>4. 1 * TolJobs <= x * TolJobs
        BY <4>3, <1>1, Mono
      <4> QED BY <4>2, <4>4, <1>1
    <3> QED BY <3>1, <2>1, <1>1, <1>5 DEF TolWorkers
  <2>2. CASE r # 0
    BY <2>2, <1>1, <1>4, <1>5 DEF TolWorkers
  <2> QED BY <2>1, <2>2
<1>8. n \in Range(Deal(k))
  BY <1>2, <1>6, <1>7, DealIs
<1> QED BY <1>7, <1>8
----------------------------------------------------------------------------
\* Worker k becomes x, which loses no case and tells no lie.
Holds(x, n) == ToDo(x.todo, n) \/ Answered(x.box, n)
\* It adds no case, and speaks of none but one it has done with; an ENTER is lost or taken for none that was spoken of.
DoneWith(k, x, n) == crew[k].todo # <<>> /\ x.todo = Tail(crew[k].todo) /\ n = Head(crew[k].todo)
Keeps(k, x) ==
    /\ x.todo = crew[k].todo \/ (crew[k].todo # <<>> /\ x.todo = Tail(crew[k].todo))
    /\ \A n \in 1..NCases : Answered(x.box, n) \/ Answered(mail', n) =>
           Answered(crew[k].box, n) \/ Answered(mail, n) \/ DoneWith(k, x, n)
Unsaid == \A n \in 1..NCases : Spoken(n) => (n \in deaf' <=> n \in deaf)
Moves(k, x) ==
    /\ x \in TolRecord /\ NowIs(k, x) /\ UNCHANGED <<tolMain, verdict>>
    /\ mail' \in Seq(Answer) /\ AllTrue(mail', deaf') /\ \A n : Answered(mail, n) => Answered(mail', n)
    /\ tolFaults' \in Nat /\ tolFaults <= tolFaults' /\ tolKilled \subseteq tolKilled' /\ tolKilled' \subseteq TolWorkers
    /\ TolSound(x, tolFaults', deaf') /\ (x.pc = "dead" /\ k \notin tolKilled' => x.todo = <<>> /\ x.box = <<>>)
    /\ Keeps(k, x) /\ Unsaid
    /\ \A n : Holds(crew[k], n) => Holds(x, n) \/ Answered(mail', n) \/ tolFaults' >= 3 \/ k \in tolKilled'
LEMMA StillTrue ==
    ASSUME NEW s \in Seq(Answer), AllTrue(s, deaf), Unsaid, \A n : Answered(s, n) => Spoken(n)
    PROVE  AllTrue(s, deaf')
<1>1. ASSUME NEW i \in 1..Len(s) PROVE AnswerTrue(s[i], deaf')
  <2>1. s[i] \in Answer /\ AnswerTrue(s[i], deaf) /\ Spoken(s[i].name)
    BY DEF AllTrue, Answered
  <2>2. s[i].name # 0 => s[i].name \in 1..NCases
    <3>1. s[i].name \in 0..NCases
      BY <2>1 DEF Answer
    <3> QED BY <3>1
  <2> QED BY <2>1, <2>2 DEF Unsaid, AnswerTrue
<1> QED BY <1>1 DEF AllTrue
LEMMA OnceStays ==
    ASSUME EachOnce, TolTypes, NEW k \in TolWorkers, NEW x \in TolRecord, NowIs(k, x), Keeps(k, x), verdict' = verdict
    PROVE  EachOnce'
<1>1. crew'[k] = x /\ \A j \in TolWorkers : j # k => crew'[j] = crew[j]
  BY DEF NowIs, TolTypes
<1>2. crew[k].todo \in Seq(1..NCases)
  BY DEF TolTypes, TolRecord
<1>3. Distinct(x.todo) /\ (\A n : ToDo(x.todo, n) => ToDo(crew[k].todo, n)) /\ \A n : DoneWith(k, x, n) => ToDo(crew[k].todo, n) /\ ~ToDo(x.todo, n)
  <2>1. Distinct(crew[k].todo)
    BY DEF EachOnce
  <2>2. CASE crew[k].todo # <<>> /\ x.todo = Tail(crew[k].todo)
    BY <2>1, <2>2, <1>2, OnceTaken DEF DoneWith
  <2>3. CASE ~(crew[k].todo # <<>> /\ x.todo = Tail(crew[k].todo))
    BY <2>1, <2>3 DEF DoneWith, Keeps
  <2> QED BY <2>2, <2>3
<1>4. ASSUME NEW j \in TolWorkers PROVE Distinct(crew'[j].todo) /\ \A n : ToDo(crew'[j].todo, n) => ToDo(crew[j].todo, n)
  BY <1>1, <1>3 DEF EachOnce
<1>5. ASSUME NEW i \in TolWorkers, NEW j \in TolWorkers, NEW n \in 1..NCases, ToDo(crew'[i].todo, n), ToDo(crew'[j].todo, n) PROVE i = j
  BY <1>4, <1>5 DEF EachOnce
<1>6. ASSUME NEW n \in 1..NCases, Answered(mail', n) \/ (\E j \in TolWorkers : Answered(crew'[j].box, n)) \/ verdict'[n] # "not run"
      PROVE  Spoken(n) \/ DoneWith(k, x, n)
  <2>1. CASE Answered(mail', n)
    BY <2>1 DEF Keeps, Spoken
  <2>2. ASSUME NEW j \in TolWorkers, Answered(crew'[j].box, n) PROVE Spoken(n) \/ DoneWith(k, x, n)
    BY <2>2, <1>1 DEF Keeps, Spoken
  <2> QED BY <2>1, <2>2, <1>6 DEF Spoken
<1>7. ASSUME NEW n \in 1..NCases, Spoken(n) \/ DoneWith(k, x, n), NEW j \in TolWorkers PROVE ~ToDo(crew'[j].todo, n)
  <2>1. CASE Spoken(n)
    BY <2>1, <1>4 DEF EachOnce
  <2>2. CASE DoneWith(k, x, n)
    <3>1. ToDo(crew[k].todo, n) /\ ~ToDo(crew'[k].todo, n)
      BY <2>2, <1>1, <1>3
    <3> QED BY <3>1, <1>4 DEF EachOnce
  <2> QED BY <2>1, <2>2, <1>7
<1>8. \A j \in TolWorkers : Distinct(crew'[j].todo)
  BY <1>4
<1>9. ASSUME NEW n \in 1..NCases, Spoken(n)' PROVE \A j \in TolWorkers : ~ToDo(crew'[j].todo, n)
  <2>1. Answered(mail', n) \/ (\E j \in TolWorkers : Answered(crew'[j].box, n)) \/ verdict'[n] # "not run"
    BY <1>9 DEF Spoken, Answered
  <2> QED BY <2>1, <1>6, <1>7
<1> QED
  <2>1. \A n \in 1..NCases : Spoken(n)' => \A j \in TolWorkers : ~ToDo(crew'[j].todo, n)
    BY <1>9
  <2>2. \A i, j \in TolWorkers : \A n \in 1..NCases : ToDo(crew'[i].todo, n) /\ ToDo(crew'[j].todo, n) => i = j
    BY <1>5
  <2> QED BY <2>1, <2>2, <1>8 DEF EachOnce, Distinct, ToDo
LEMMA WorkerMoves == ASSUME ReportInv, NEW k \in TolWorkers, Living(k), NEW x, Moves(k, x) PROVE ReportInv'
<1>1. /\ crew \in [TolWorkers -> TolRecord] /\ tolMain' = tolMain /\ verdict' = verdict /\ mail' \in Seq(Answer) /\ AllTrue(mail', deaf') /\ x \in TolRecord
      /\ crew' = [crew EXCEPT ![k] = x] /\ tolFaults \in Nat /\ tolFaults' \in Nat /\ tolFaults <= tolFaults' /\ tolKilled \subseteq tolKilled' /\ tolKilled' \subseteq TolWorkers
  BY DEF Moves, NowIs, ReportInv, TolTypes
<1>2. crew' \in [TolWorkers -> TolRecord] /\ crew'[k] = x /\ \A j \in TolWorkers : j # k => crew'[j] = crew[j]
  BY <1>1
<1>3. TolTypes'
  BY <1>1, <1>2 DEF ReportInv, TolTypes
<1>4. MainSound'
  <2>1. tolMain \notin {"empty", "done"}
    BY DEF ReportInv, MainSound
  <2> QED BY <2>1, <1>1 DEF MainSound
<1>5. ASSUME NEW j \in TolWorkers PROVE (TolSound(crew[j], tolFaults, deaf) /\ EndedSound(j))'
  <2>1. CASE j = k
    <3>1. TolSound(x, tolFaults', deaf') /\ (x.pc = "dead" /\ k \notin tolKilled' => x.todo = <<>> /\ x.box = <<>>)
      BY DEF Moves
    <3>2. TolSound(crew'[k], tolFaults', deaf')
      BY <3>1, <1>2
    <3>3. crew'[k].pc = "dead" /\ k \notin tolKilled' => crew'[k].todo = <<>> /\ crew'[k].box = <<>>
      BY <3>1, <1>2
    <3> QED BY <3>2, <3>3, <2>1 DEF EndedSound, TolSound, AllTrue, AnswerTrue
  <2>2. CASE j # k
    <3>1. TolSound(crew[j], tolFaults, deaf) /\ EndedSound(j) /\ crew'[j] = crew[j] /\ crew[j] \in TolRecord
      BY <2>2, <1>1, <1>2 DEF ReportInv
    <3>2. crew[j].attempt <= tolFaults' + 1
      <4>1. crew[j].attempt \in Int /\ crew[j].attempt <= tolFaults + 1
        BY <3>1 DEF TolSound, TolRecord
      <4> QED BY <4>1, <1>1
    <3>3. EndedSound(j)'
      BY <3>1, <1>1 DEF EndedSound
    <3>5. AllTrue(crew[j].box, deaf')
      <4>1. crew[j].box \in Seq(Answer) /\ AllTrue(crew[j].box, deaf) /\ Unsaid
        BY <3>1 DEF TolSound, TolRecord, Moves
      <4>2. \A n : Answered(crew[j].box, n) => Spoken(n)
        BY DEF Spoken
      <4> QED BY <4>1, <4>2, StillTrue
    <3>4. TolSound(crew'[j], tolFaults', deaf')
      BY <3>1, <3>2, <3>5 DEF TolSound
    <3> QED BY <3>3, <3>4 DEF TolSound, AllTrue, AnswerTrue
  <2> QED BY <2>1, <2>2
<1>6. ASSUME NEW n \in 1..NCases PROVE ResultTrue(n)'
  BY <1>1 DEF ReportInv, ResultTrue, Moves, Unsaid, Spoken
<1>7. ASSUME NEW j \in TolWorkers, NEW n \in Range(Deal(j)) PROVE Accounted(j, n)'
  <2>1. Accounted(j, n)
    BY DEF ReportInv
  <2>2. Answered(mail, n) => Answered(mail', n)
    BY DEF Moves
  <2>3. Holds(crew[j], n) => Holds(crew'[j], n) \/ Answered(mail', n) \/ tolFaults' >= 3 \/ j \in tolKilled'
    <3>1. CASE j = k
      <4>1. Holds(crew[k], n) => Holds(x, n) \/ Answered(mail', n) \/ tolFaults' >= 3 \/ k \in tolKilled'
        BY DEF Moves
      <4> QED BY <4>1, <3>1, <1>2
    <3>2. CASE j # k
      BY <3>2, <1>2
    <3> QED BY <3>1, <3>2
  <2>4. tolFaults >= 3 => tolFaults' >= 3
    BY <1>1
  <2>5. \/ ToDo(crew[j].todo, n) \/ Answered(crew[j].box, n) \/ Answered(mail, n) \/ verdict[n] # "not run" \/ tolFaults >= 3 \/ j \in tolKilled
    BY <2>1 DEF Accounted
  <2>6. \/ ToDo(crew'[j].todo, n) \/ Answered(crew'[j].box, n) \/ Answered(mail', n) \/ verdict'[n] # "not run" \/ tolFaults' >= 3 \/ j \in tolKilled'
    BY <2>2, <2>3, <2>4, <2>5, <1>1 DEF Holds
  <2> QED BY <2>6 DEF Accounted, ToDo, Answered
<1>8. AllTrue(mail, deaf)'
  BY <1>1 DEF AllTrue, AnswerTrue
<1>9. EachOnce'
  <2>1. EachOnce /\ TolTypes /\ NowIs(k, x) /\ Keeps(k, x)
    BY DEF ReportInv, Moves
  <2> QED BY <2>1, <1>1, OnceStays
<1> QED BY <1>3, <1>4, <1>5, <1>6, <1>7, <1>8, <1>9 DEF ReportInv

\* A step of a case in hand.
LEMMA CaseMoves ==
    ASSUME ReportInv, NEW k \in TolWorkers, NEW x \in TolRecord, NowIs(k, x), UNCHANGED <<mail, parentVars, tolFaults, tolKilled>>, Unsaid,
           x.todo = crew[k].todo, x.box = crew[k].box, x.attempt = crew[k].attempt, x.pc \in {"typing", "enter", "watch"}, x.todo # <<>>,
           x.pc = "enter" => x.T <= TolLead, x.pc = "watch" => x.t_enter <= TolLead
    PROVE  Moves(k, x)
<1>1. TolSound(crew[k], tolFaults, deaf) /\ tolFaults \in Nat /\ mail \in Seq(Answer) /\ AllTrue(mail, deaf) /\ tolKilled \subseteq TolWorkers
      /\ crew[k].box \in Seq(Answer)
  BY DEF ReportInv, TolTypes, TolRecord
<1>2. tolMain' = tolMain /\ verdict' = verdict /\ mail' = mail /\ tolFaults' = tolFaults /\ tolKilled' = tolKilled
  BY DEF parentVars
<1>5. AllTrue(mail, deaf') /\ AllTrue(crew[k].box, deaf')
  <2>1. \A n : Answered(mail, n) \/ Answered(crew[k].box, n) => Spoken(n)
    BY DEF Spoken
  <2> QED BY <2>1, <1>1, StillTrue DEF TolSound
<1>3. TolSound(x, tolFaults, deaf')
  BY <1>1, <1>5 DEF TolSound
<1>4. \A n : Holds(crew[k], n) => Holds(x, n)
  BY DEF Holds
<1>6. Keeps(k, x)
  BY <1>2 DEF Keeps
<1> QED BY <1>1, <1>2, <1>3, <1>4, <1>5, <1>6 DEF Moves
\* A step that leaves deaf as it is.
LEMMA NoneLost == ASSUME deaf' = deaf PROVE Unsaid
BY DEF Unsaid
LEMMA InHand == ASSUME ReportInv, NEW k \in TolWorkers
                PROVE  /\ crew[k] \in TolRecord /\ TolSound(crew[k], tolFaults, deaf) /\ crew[k].todo \in Seq(1..NCases) /\ crew[k].box \in Seq(Answer)
                       /\ crew[k].T \in Nat /\ crew[k].t_enter \in Nat /\ crew[k].attempt \in 1..3 /\ tolFaults \in Nat
                       /\ mail \in Seq(Answer) /\ AllTrue(mail, deaf) /\ AllTrue(crew[k].box, deaf) /\ tolKilled \subseteq TolWorkers
BY DEF ReportInv, TolTypes, TolRecord, TolSound
LEMMA CaseSteps ==
    ASSUME TolRunParameters, ReportInv, NEW k \in TolWorkers, Boot(k) \/ Typed(k) \/ Enter(k) \/ Slice(k)
    PROVE  Living(k) /\ \E x : Moves(k, x)
<1>1. crew[k] \in TolRecord /\ TolSound(crew[k], tolFaults, deaf) /\ crew[k].T \in Nat
  BY InHand
<1>2. CASE Boot(k)
  <2>1. PICK x : x = [crew[k] EXCEPT !.pc = "typing", !.emu = TRUE, !.T = 0]
    OBVIOUS
  <2>2. x \in TolRecord /\ x.todo = crew[k].todo /\ x.box = crew[k].box /\ x.attempt = crew[k].attempt /\ x.pc = "typing"
    BY <2>1, <1>1 DEF TolRecord
  <2>3. crew[k].pc = "next" /\ crew[k].todo # <<>> /\ NowIs(k, x) /\ UNCHANGED <<mail, parentVars, tolFaults, tolKilled>>
    BY <1>2, <2>1 DEF Boot
  <2>5. Unsaid
    BY <1>2, NoneLost DEF Boot
  <2>4. Moves(k, x)
    BY <2>2, <2>3, <2>5, CaseMoves
  <2> QED BY <2>3, <2>4 DEF Living
<1>3. CASE Typed(k)
  <2>1. PICK t \in 1..TolLead : NowIs(k, [crew[k] EXCEPT !.pc = "enter", !.T = t])
    BY <1>3 DEF Typed
  <2>2. PICK x : x = [crew[k] EXCEPT !.pc = "enter", !.T = t]
    OBVIOUS
  <2> t \in Nat /\ t <= TolLead
    BY DEF TolRunParameters
  <2>3. /\ x \in TolRecord /\ x.todo = crew[k].todo /\ x.box = crew[k].box /\ x.attempt = crew[k].attempt /\ x.pc = "enter" /\ x.T = t
    BY <2>2, <1>1 DEF TolRecord
  <2>4. crew[k].pc = "typing" /\ NowIs(k, x) /\ UNCHANGED <<mail, parentVars, tolFaults, tolKilled>> /\ x.T <= TolLead
    BY <1>3, <2>1, <2>2, <2>3 DEF Typed
  <2>5. x.todo # <<>>
    BY <2>3, <2>4, <1>1 DEF TolSound
  <2>7. Unsaid
    BY <1>3, NoneLost DEF Typed
  <2>6. Moves(k, x)
    BY <2>3, <2>4, <2>5, <2>7, CaseMoves
  <2> QED BY <2>4, <2>6 DEF Living
<1>4. CASE Enter(k)
  <2>1. PICK x : x = [crew[k] EXCEPT !.pc = "watch", !.t_enter = crew[k].T]
    OBVIOUS
  <2>2. /\ x \in TolRecord /\ x.todo = crew[k].todo /\ x.box = crew[k].box /\ x.attempt = crew[k].attempt /\ x.pc = "watch" /\ x.t_enter = crew[k].T
    BY <2>1, <1>1 DEF TolRecord
  <2>3. crew[k].pc = "enter" /\ NowIs(k, x) /\ UNCHANGED <<mail, parentVars, tolFaults, tolKilled>>
    BY <1>4, <2>1 DEF Enter
  <2>4. x.todo # <<>> /\ x.t_enter <= TolLead
    BY <2>2, <2>3, <1>1 DEF TolSound
  <2>6. Unsaid
    <3>1. deaf' = deaf \ {Case(k)} \/ deaf' = deaf \cup {Case(k)}
      BY <1>4 DEF Enter
    <3>2. crew[k].todo \in Seq(1..NCases) /\ crew[k].todo # <<>> /\ Distinct(crew[k].todo)
      BY <2>2, <2>4, InHand DEF ReportInv, EachOnce
    <3>3. ToDo(crew[k].todo, Case(k))
      BY <3>2, OnceTaken DEF Case
    <3>4. \A n \in 1..NCases : Spoken(n) => n # Case(k)
      BY <3>3 DEF ReportInv, EachOnce
    <3> QED BY <3>1, <3>4 DEF Unsaid
  <2>5. Moves(k, x)
    BY <2>2, <2>3, <2>4, <2>6, CaseMoves
  <2> QED BY <2>3, <2>5 DEF Living
<1>5. CASE Slice(k)
  <2>1. PICK x : x = [crew[k] EXCEPT !.T = @ + 1]
    OBVIOUS
  <2>2. /\ x \in TolRecord /\ x.todo = crew[k].todo /\ x.box = crew[k].box /\ x.attempt = crew[k].attempt /\ x.pc = crew[k].pc /\ x.t_enter = crew[k].t_enter
    BY <2>1, <1>1 DEF TolRecord
  <2>3. crew[k].pc = "watch" /\ NowIs(k, x) /\ UNCHANGED <<mail, parentVars, tolFaults, tolKilled>>
    BY <1>5, <2>1 DEF Slice
  <2>4. x.todo # <<>> /\ x.t_enter <= TolLead
    BY <2>2, <2>3, <1>1 DEF TolSound
  <2>6. Unsaid
    BY <1>5, NoneLost DEF Slice
  <2>5. Moves(k, x)
    BY <2>2, <2>3, <2>4, <2>6, CaseMoves
  <2> QED BY <2>3, <2>5 DEF Living
<1> QED BY <1>2, <1>3, <1>4, <1>5
----------------------------------------------------------------------------
LEMMA VerdictMoves == ASSUME TolRunParameters, ReportInv, NEW k \in TolWorkers, Verdict(k) PROVE Living(k) /\ \E x : Moves(k, x)
<1>1. /\ crew[k] \in TolRecord /\ TolSound(crew[k], tolFaults, deaf) /\ crew[k].todo \in Seq(1..NCases) /\ crew[k].box \in Seq(Answer)
      /\ crew[k].T \in Nat /\ tolFaults \in Nat /\ mail \in Seq(Answer) /\ AllTrue(mail, deaf) /\ AllTrue(crew[k].box, deaf) /\ tolKilled \subseteq TolWorkers
  BY InHand
<1>2. PICK m : m = [name |-> Case(k), ok |-> Idle(k)]
  OBVIOUS
<1>3. PICK x : x = Next1(Put(crew[k], m))
  OBVIOUS
<1>4. /\ crew[k].pc = "watch" /\ (Idle(k) \/ crew[k].T > TolLead + Long + 2) /\ NowIs(k, x) /\ mail' = mail /\ tolMain' = tolMain /\ verdict' = verdict
      /\ tolFaults' = tolFaults /\ tolKilled' = tolKilled /\ deaf' = deaf
  BY <1>2, <1>3 DEF Verdict, parentVars
<1>5. crew[k].todo # <<>> /\ crew[k].t_enter <= TolLead
  BY <1>1, <1>4 DEF TolSound
<1>6. Case(k) \in 1..NCases /\ Tail(crew[k].todo) \in Seq(1..NCases)
  BY <1>1, <1>5, HeadTail DEF Case
<1>7. Idle(k) <=> Hears[Case(k)] /\ Case(k) \notin deaf
  <2>1. TolLead \in Nat /\ Long \in Nat
    BY DEF TolRunParameters
  <2>2. Heard(k) <=> Hears[Case(k)] /\ Case(k) \notin deaf
    BY <1>5 DEF Heard
  <2>3. crew[k].T > TolLead + Long + 2 => crew[k].T >= TolLead + Long
    BY <2>1, <1>1
  <2>4. Idle(k) <=> Heard(k) /\ crew[k].T >= TolLead + Long
    BY DEF Idle
  <2>5. Idle(k) \/ crew[k].T > TolLead + Long + 2
    BY <1>4
  <2> QED BY ONLY <2>2, <2>3, <2>4, <2>5, Zenon
<1>8. m \in Answer /\ m.name = Case(k) /\ AnswerTrue(m, deaf)
  <2>1. Idle(k) \in BOOLEAN
    BY DEF Idle
  <2>2. m.name = Case(k) /\ m.ok = Idle(k)
    BY <1>2
  <2>3. Case(k) \in 0..NCases
    BY <1>6
  <2>4. m \in Answer
    BY <2>1, <2>3, <1>2 DEF Answer
  <2>5. m.ok <=> Hears[Case(k)] /\ Case(k) \notin deaf
    BY <2>2, <1>7, Zenon
  <2> QED BY <2>2, <2>4, <2>5 DEF AnswerTrue
<1>9. x.todo = Tail(crew[k].todo) /\ x.box = Append(crew[k].box, m) /\ x.attempt = 1 /\ x.pc = "next" /\ x \in TolRecord
  <2>1. Append(crew[k].box, m) \in Seq(Answer)
    BY <1>1, <1>8, Added
  <2>2. PICK b : b = Append(crew[k].box, m)
    OBVIOUS
  <2>3. PICK y : y = [crew[k] EXCEPT !.box = b]
    OBVIOUS
  <2>4. y \in TolRecord /\ y.todo = crew[k].todo /\ y.box = b
    BY <2>1, <2>2, <2>3, <1>1 DEF TolRecord
  <2>5. x = [y EXCEPT !.todo = Tail(y.todo), !.attempt = 1, !.pc = "next"]
    BY <2>2, <2>3, <1>3 DEF Next1, Put
  <2>6. PICK t : t = Tail(crew[k].todo)
    OBVIOUS
  <2>7. x = [y EXCEPT !.todo = t, !.attempt = 1, !.pc = "next"]
    BY <2>4, <2>5, <2>6
  <2>8. x.todo = t /\ x.box = b /\ x.attempt = 1 /\ x.pc = "next"
    BY <2>4, <2>7 DEF TolRecord
  <2>9. x \in TolRecord
    <3>1. t \in Seq(1..NCases) /\ 1 \in 1..3
      BY <2>6, <1>6
    <3> QED BY ONLY <3>1, <2>4, <2>7 DEF TolRecord
  <2> QED BY <2>2, <2>6, <2>8, <2>9
<1>10. TolSound(x, tolFaults, deaf)
  <2>1. AllTrue(Append(crew[k].box, m), deaf)
    BY <1>1, <1>8, AllAdded
  <2> QED BY <2>1, <1>1, <1>9 DEF TolSound
<1>11. ASSUME NEW n, Holds(crew[k], n) PROVE Holds(x, n)
  <2>1. CASE ToDo(crew[k].todo, n)
    <3>1. Case(k) = n \/ ToDo(Tail(crew[k].todo), n)
      BY <2>1, <1>1, <1>5, ToDoTaken DEF Case
    <3>2. Answered(Append(crew[k].box, m), m.name)
      BY <1>1, <1>8, ToldAdded
    <3> QED BY <3>1, <3>2, <1>8, <1>9 DEF Holds
  <2>2. CASE Answered(crew[k].box, n)
    <3>1. Answered(Append(crew[k].box, m), n)
      BY <2>2, <1>1, <1>8, ToldAdded
    <3> QED BY <3>1, <1>9 DEF Holds
  <2> QED BY <2>1, <2>2, <1>11 DEF Holds
<1>13. Keeps(k, x)
  <2>1. \A n : Answered(Append(crew[k].box, m), n) => Answered(crew[k].box, n) \/ n = m.name
    BY <1>1, <1>8, ToldAdded
  <2> QED BY <2>1, <1>4, <1>5, <1>8, <1>9 DEF Keeps, DoneWith, Case
<1>12. Moves(k, x)
  BY <1>1, <1>4, <1>9, <1>10, <1>11, <1>13, NoneLost DEF Moves
<1> QED BY <1>4, <1>12 DEF Living
LEMMA FailMoves == ASSUME TolRunParameters, ReportInv, NEW k \in TolWorkers, Fails(k) PROVE Living(k) /\ \E x : Moves(k, x)
<1>1. /\ crew[k] \in TolRecord /\ TolSound(crew[k], tolFaults, deaf) /\ crew[k].todo \in Seq(1..NCases) /\ crew[k].box \in Seq(Answer)
      /\ crew[k].attempt \in 1..3 /\ tolFaults \in Nat /\ mail \in Seq(Answer) /\ AllTrue(mail, deaf) /\ AllTrue(crew[k].box, deaf) /\ tolKilled \subseteq TolWorkers
  BY InHand
<1>2. PICK y : y = [crew[k] EXCEPT !.emu = FALSE]
  OBVIOUS
<1>3. y \in TolRecord /\ y.todo = crew[k].todo /\ y.box = crew[k].box /\ y.attempt = crew[k].attempt
  BY <1>1, <1>2 DEF TolRecord
<1>4. /\ crew[k].pc \in {"typing", "enter", "watch"} /\ mail' = mail /\ tolMain' = tolMain /\ verdict' = verdict /\ tolFaults' = tolFaults + 1 /\ tolKilled' = tolKilled /\ deaf' = deaf
      /\ NowIs(k, IF y.attempt = 3 THEN Next1(Put(y, [name |-> 0, ok |-> FALSE])) ELSE [y EXCEPT !.attempt = @ + 1, !.pc = "next"])
  BY <1>2 DEF Fails, TolFault, parentVars
<1>5. crew[k].todo # <<>> /\ crew[k].attempt <= tolFaults + 1
  BY <1>1, <1>4 DEF TolSound
<1>6. CASE crew[k].attempt = 3
  <2>1. PICK m : m = [name |-> 0, ok |-> FALSE]
    OBVIOUS
  <2>2. m \in Answer /\ AnswerTrue(m, deaf) /\ m.name = 0
    <3>1. 0 \in 0..NCases
      BY DEF TolRunParameters
    <3> QED BY <3>1, <2>1 DEF Answer, AnswerTrue
  <2>3. PICK x : x = Next1(Put(y, m))
    OBVIOUS
  <2>4. NowIs(k, x)
    BY <2>1, <2>3, <1>3, <1>4, <1>6
  <2>5. x.todo = Tail(crew[k].todo) /\ x.box = Append(crew[k].box, m) /\ x.attempt = 1 /\ x.pc = "next" /\ x \in TolRecord
    <3>1. Append(crew[k].box, m) \in Seq(Answer) /\ Tail(crew[k].todo) \in Seq(1..NCases)
      BY <1>1, <1>5, <2>2, Added, HeadTail
    <3>2. PICK b, t : b = Append(crew[k].box, m) /\ t = Tail(crew[k].todo)
      OBVIOUS
    <3>3. PICK z : z = [y EXCEPT !.box = b]
      OBVIOUS
    <3>4. z \in TolRecord /\ z.todo = crew[k].todo /\ z.box = b
      BY <3>1, <3>2, <3>3, <1>3 DEF TolRecord
    <3>5. x = [z EXCEPT !.todo = Tail(z.todo), !.attempt = 1, !.pc = "next"]
      BY <3>2, <3>3, <2>3, <1>3 DEF Next1, Put
    <3>7. x = [z EXCEPT !.todo = t, !.attempt = 1, !.pc = "next"]
      BY <3>4, <3>5, <3>2
    <3>8. x.todo = t /\ x.box = b /\ x.attempt = 1 /\ x.pc = "next"
      BY <3>4, <3>7 DEF TolRecord
    <3>9. x \in TolRecord
      <4>1. t \in Seq(1..NCases) /\ 1 \in 1..3
        BY <3>1, <3>2
      <4> QED BY ONLY <4>1, <3>4, <3>7 DEF TolRecord
    <3> QED BY <3>2, <3>8, <3>9
  <2>6. tolFaults' >= 3 /\ tolFaults' \in Nat /\ 1 <= tolFaults' + 1
    BY <1>1, <1>4, <1>5, <1>6
  <2>7. TolSound(x, tolFaults', deaf)
    <3>1. AllTrue(Append(crew[k].box, m), deaf)
      BY <1>1, <2>2, AllAdded
    <3>2. x.attempt <= tolFaults' + 1
      <4>1. x.attempt = 1
        BY <2>5
      <4>2. 1 <= tolFaults' + 1
        BY <2>6
      <4> QED BY ONLY <4>1, <4>2, Zenon
    <3> QED BY <3>1, <3>2, <2>5 DEF TolSound
  <2>9. Keeps(k, x)
    <3>1. \A n : Answered(Append(crew[k].box, m), n) => Answered(crew[k].box, n) \/ n = m.name
      BY <1>1, <2>2, ToldAdded
    <3>2. \A n \in 1..NCases : n # m.name
      BY <2>2
    <3> QED BY <3>1, <3>2, <1>4, <1>5, <2>5 DEF Keeps
  <2>8. Moves(k, x)
    BY <1>1, <1>4, <2>4, <2>5, <2>6, <2>7, <2>9, NoneLost DEF Moves
  <2> QED BY <2>8, <1>4 DEF Living
<1>7. CASE crew[k].attempt # 3
  <2>1. PICK x : x = [y EXCEPT !.attempt = @ + 1, !.pc = "next"]
    OBVIOUS
  <2>2. crew[k].attempt + 1 \in 1..3
    BY <1>1, <1>7
  <2>3. NowIs(k, x)
    BY <2>1, <1>3, <1>4, <1>7
  <2>4. x.todo = crew[k].todo /\ x.box = crew[k].box /\ x.attempt = crew[k].attempt + 1 /\ x.pc = "next" /\ x \in TolRecord
    BY <2>1, <2>2, <1>3 DEF TolRecord
  <2>5. TolSound(x, tolFaults', deaf)
    <3>1. x.attempt <= tolFaults' + 1
      BY <2>4, <1>1, <1>4, <1>5
    <3> QED BY <3>1, <2>4, <1>1 DEF TolSound
  <2>6. \A n : Holds(crew[k], n) => Holds(x, n)
    BY <2>4 DEF Holds
  <2>7. tolFaults' \in Nat /\ tolFaults <= tolFaults'
    BY <1>1, <1>4
  <2>9. Keeps(k, x)
    BY <1>4, <2>4 DEF Keeps
  <2>8. Moves(k, x)
    BY <1>1, <1>4, <2>3, <2>4, <2>5, <2>6, <2>7, <2>9, NoneLost DEF Moves
  <2> QED BY <2>8, <1>4 DEF Living
<1> QED BY <1>6, <1>7
LEMMA EndMoves == ASSUME ReportInv, NEW k \in TolWorkers, TolStops(k) \/ TolExit(k) PROVE Living(k) /\ \E x : Moves(k, x)
<1>1. /\ crew[k] \in TolRecord /\ TolSound(crew[k], tolFaults, deaf) /\ crew[k].box \in Seq(Answer)
      /\ tolFaults \in Nat /\ mail \in Seq(Answer) /\ AllTrue(mail, deaf) /\ AllTrue(crew[k].box, deaf) /\ tolKilled \subseteq TolWorkers
  BY InHand
<1>2. CASE TolStops(k)
  <2>1. PICK x : x = [crew[k] EXCEPT !.pc = "ending", !.emu = FALSE]
    OBVIOUS
  <2>2. /\ crew[k].pc = "next" /\ crew[k].todo = <<>> /\ NowIs(k, x) /\ mail' = mail /\ tolMain' = tolMain /\ verdict' = verdict /\ tolFaults' = tolFaults /\ tolKilled' = tolKilled /\ deaf' = deaf
    BY <1>2, <2>1 DEF TolStops, parentVars
  <2>3. x.todo = crew[k].todo /\ x.box = crew[k].box /\ x.attempt = crew[k].attempt /\ x.pc = "ending" /\ x \in TolRecord
    BY <2>1, <1>1 DEF TolRecord
  <2>4. TolSound(x, tolFaults, deaf) /\ \A n : Holds(crew[k], n) => Holds(x, n)
    BY <2>2, <2>3, <1>1 DEF TolSound, Holds
  <2>6. Keeps(k, x)
    BY <2>2, <2>3 DEF Keeps
  <2>5. Moves(k, x)
    BY <2>2, <2>3, <2>4, <2>6, <1>1, NoneLost DEF Moves
  <2> QED BY <2>2, <2>5 DEF Living
<1>3. CASE TolExit(k)
  <2>1. PICK x : x = [crew[k] EXCEPT !.pc = "dead"]
    OBVIOUS
  <2>2. /\ crew[k].pc = "ending" /\ crew[k].box = <<>> /\ NowIs(k, x) /\ mail' = mail /\ tolMain' = tolMain /\ verdict' = verdict /\ tolFaults' = tolFaults /\ tolKilled' = tolKilled /\ deaf' = deaf
    BY <1>3, <2>1 DEF TolExit, parentVars
  <2>3. x.todo = crew[k].todo /\ x.box = crew[k].box /\ x.attempt = crew[k].attempt /\ x.pc = "dead" /\ x \in TolRecord
    BY <2>1, <1>1 DEF TolRecord
  <2>4. TolSound(x, tolFaults, deaf) /\ (\A n : Holds(crew[k], n) => Holds(x, n)) /\ x.todo = <<>> /\ x.box = <<>>
    BY <2>2, <2>3, <1>1 DEF TolSound, Holds
  <2>6. Keeps(k, x)
    BY <2>2, <2>3 DEF Keeps
  <2>5. Moves(k, x)
    BY <2>2, <2>3, <2>4, <2>6, <1>1, NoneLost DEF Moves
  <2> QED BY <2>2, <2>5 DEF Living
<1> QED BY <1>2, <1>3
LEMMA FeedMoves == ASSUME ReportInv, NEW k \in TolWorkers, Feed(k) PROVE Living(k) /\ \E x : Moves(k, x)
<1>1. /\ crew[k] \in TolRecord /\ TolSound(crew[k], tolFaults, deaf) /\ crew[k].box \in Seq(Answer)
      /\ tolFaults \in Nat /\ mail \in Seq(Answer) /\ AllTrue(mail, deaf) /\ AllTrue(crew[k].box, deaf) /\ tolKilled \subseteq TolWorkers
  BY InHand
<1>2. PICK x : x = [crew[k] EXCEPT !.box = Tail(@)]
  OBVIOUS
<1>3. /\ Living(k) /\ crew[k].box # <<>> /\ mail' = Append(mail, Head(crew[k].box)) /\ NowIs(k, x) /\ tolMain' = tolMain /\ verdict' = verdict
      /\ tolFaults' = tolFaults /\ tolKilled' = tolKilled /\ deaf' = deaf
  BY <1>2 DEF Feed, parentVars
<1>4. PICK m : m = Head(crew[k].box)
  OBVIOUS
<1>5. m \in Answer /\ AnswerTrue(m, deaf) /\ Tail(crew[k].box) \in Seq(Answer) /\ AllTrue(Tail(crew[k].box), deaf)
  BY <1>1, <1>3, <1>4, HeadTail, AllTaken
<1>6. x.todo = crew[k].todo /\ x.box = Tail(crew[k].box) /\ x.attempt = crew[k].attempt /\ x.pc = crew[k].pc /\ x \in TolRecord
      /\ x.T = crew[k].T /\ x.t_enter = crew[k].t_enter
  BY <1>1, <1>2, <1>5 DEF TolRecord
<1>7. mail' \in Seq(Answer) /\ AllTrue(mail', deaf) /\ Answered(mail', m.name) /\ \A n : Answered(mail, n) => Answered(mail', n)
  <2>1. Append(mail, m) \in Seq(Answer) /\ AllTrue(Append(mail, m), deaf)
    BY <1>1, <1>5, AllAdded
  <2>2. Answered(Append(mail, m), m.name) /\ \A n : Answered(mail, n) => Answered(Append(mail, m), n)
    BY <1>1, <1>5, ToldAdded
  <2> QED BY <2>1, <2>2, <1>3, <1>4
<1>8. TolSound(x, tolFaults, deaf)
  BY <1>1, <1>5, <1>6 DEF TolSound
<1>9. ASSUME NEW n, Holds(crew[k], n) PROVE Holds(x, n) \/ Answered(mail', n)
  <2>1. CASE ToDo(crew[k].todo, n)
    BY <2>1, <1>6 DEF Holds
  <2>2. CASE Answered(crew[k].box, n)
    <3>1. m.name = n \/ Answered(Tail(crew[k].box), n)
      BY <2>2, <1>1, <1>3, <1>4, ToldTaken
    <3> QED BY <3>1, <1>6, <1>7 DEF Holds
  <2> QED BY <2>1, <2>2, <1>9 DEF Holds
<1>10. x.pc # "dead"
  BY <1>3, <1>6 DEF Living
<1>12. Keeps(k, x)
  <2>1. Answered(crew[k].box, m.name) /\ \A n : Answered(Tail(crew[k].box), n) => Answered(crew[k].box, n)
    BY <1>1, <1>3, <1>4, ToldBefore
  <2>2. \A n : Answered(mail', n) => Answered(mail, n) \/ n = m.name
    BY <1>1, <1>3, <1>4, <1>5, ToldAdded
  <2> QED BY <2>1, <2>2, <1>6 DEF Keeps
<1>11. Moves(k, x)
  BY <1>1, <1>3, <1>6, <1>7, <1>8, <1>9, <1>10, <1>12, NoneLost DEF Moves
<1> QED BY <1>3, <1>11
LEMMA KillMoves == ASSUME ReportInv, NEW k \in TolWorkers, Killed(k) PROVE Living(k) /\ \E x : Moves(k, x)
<1>1. /\ crew[k] \in TolRecord /\ TolSound(crew[k], tolFaults, deaf) /\ crew[k].attempt \in 1..3
      /\ tolFaults \in Nat /\ mail \in Seq(Answer) /\ AllTrue(mail, deaf) /\ tolKilled \subseteq TolWorkers
  BY InHand
<1>2. PICK x : x = [crew[k] EXCEPT !.pc = "dead", !.box = <<>>]
  OBVIOUS
<1>3. /\ Living(k) /\ mail' = mail /\ NowIs(k, x) /\ tolMain' = tolMain /\ verdict' = verdict /\ tolFaults' = tolFaults + 1 /\ tolKilled' = tolKilled \cup {k} /\ deaf' = deaf
  BY <1>2 DEF Killed, TolFault, parentVars
<1>4. x.todo = crew[k].todo /\ x.box = <<>> /\ x.attempt = crew[k].attempt /\ x.pc = "dead" /\ x \in TolRecord
  <2>1. PICK b \in Seq(Answer) : b = <<>>
    <3>1. <<>> \in Seq(Answer)
      OBVIOUS
    <3> QED BY <3>1, Zenon
  <2>2. x = [crew[k] EXCEPT !.pc = "dead", !.box = b]
    BY <2>1, <1>2, Zenon
  <2>3. x.todo = crew[k].todo /\ x.box = b /\ x.attempt = crew[k].attempt /\ x.pc = "dead" /\ x \in TolRecord
    BY <2>2, <1>1 DEF TolRecord
  <2> QED BY <2>1, <2>3, Zenon
<1>5. tolFaults' \in Nat /\ tolFaults <= tolFaults' /\ tolKilled' \subseteq TolWorkers /\ tolKilled \subseteq tolKilled' /\ k \in tolKilled'
  BY <1>1, <1>3
<1>6. TolSound(x, tolFaults', deaf)
  <2>1. crew[k].attempt <= tolFaults + 1
    BY <1>1 DEF TolSound
  <2>2. x.attempt <= tolFaults' + 1
    BY <2>1, <1>1, <1>3, <1>4
  <2>3. AllTrue(<<>>, deaf)
    BY DEF AllTrue
  <2> QED BY <2>2, <2>3, <1>4 DEF TolSound
<1>8. Keeps(k, x)
  <2>1. \A n : ~Answered(<<>>, n)
    BY DEF Answered
  <2> QED BY <2>1, <1>3, <1>4 DEF Keeps
<1>7. Moves(k, x)
  BY <1>1, <1>3, <1>4, <1>5, <1>6, <1>8, NoneLost DEF Moves
<1> QED BY <1>3, <1>7
----------------------------------------------------------------------------
LEMMA ElementOf == ASSUME NEW X, NEW s \in Seq(X), NEW i \in 1..Len(s) PROVE s[i] \in X
OBVIOUS
LEMMA DealtCase == ASSUME TolRunParameters, NEW k \in TolWorkers, NEW n \in Range(Deal(k)) PROVE n \in 1..NCases /\ ToDo(Deal(k), n)
<1>1. PICK s \in Seq(1..NCases) : s = Deal(k)
  BY DealIs
<1>2. PICK i \in DOMAIN s : s[i] = n
  BY <1>1 DEF Range
<1>3. DOMAIN s = 1..Len(s)
  OBVIOUS
<1>4. i \in 1..Len(s) /\ s[i] \in 1..NCases
  <2>1. i \in 1..Len(s)
    BY ONLY i \in DOMAIN s, <1>3, Zenon
  <2> QED BY ONLY <2>1, s \in Seq(1..NCases), ElementOf
<1> QED BY <1>1, <1>2, <1>4 DEF ToDo
\* No case is dealt twice.
LEMMA DealtOnce ==
    ASSUME TolRunParameters
    PROVE  /\ \A k \in TolWorkers : Distinct(Deal(k))
           /\ \A j, k \in TolWorkers : \A n \in 1..NCases : ToDo(Deal(j), n) /\ ToDo(Deal(k), n) => j = k
<1>1. \A k \in TolWorkers : Distinct(Deal(k)) /\ \A n : ToDo(Deal(k), n) => n % TolJobs = k % TolJobs
  BY DealIs
<1>2. ASSUME NEW j \in TolWorkers, NEW k \in TolWorkers, j % TolJobs = k % TolJobs PROVE j = k
  <2>1. j \in 1..NCases /\ k \in 1..NCases /\ TolJobs \in Nat
    BY DEF TolWorkers, TolRunParameters
  <2>2. PICK x \in Nat : j = x * TolJobs + k
    BY <1>2, <2>1, Counted
  <2>3. PICK y \in Nat : k = y * TolJobs + j
    BY <1>2, <2>1, Counted
  <2>4. x * TolJobs \in Nat /\ y * TolJobs \in Nat
    BY <2>1
  <2> QED BY <2>1, <2>2, <2>3, <2>4
<1>3. ASSUME NEW j \in TolWorkers, NEW k \in TolWorkers, NEW n, ToDo(Deal(j), n), ToDo(Deal(k), n) PROVE j = k
  <2>1. n % TolJobs = j % TolJobs /\ n % TolJobs = k % TolJobs
    BY <1>1, <1>3
  <2> QED BY <2>1, <1>2
<1> QED BY <1>1, <1>3
\* The parent's steps.
LEMMA ParentKeeps ==
    ASSUME TolRunParameters, ReportInv, UNCHANGED <<crew, tolFaults, tolKilled, deaf>>, mail' \in Seq(Answer), AllTrue(mail', deaf), tolMain' \in {"alive", "empty", "get", "done"},
           verdict' \in [1..NCases -> {"not run", "accept", "refuse"}], MainSound', \A n \in 1..NCases : ResultTrue(n)',
           \A n \in 1..NCases : (Answered(mail, n) \/ verdict[n] # "not run") <=> (Answered(mail', n) \/ verdict'[n] # "not run")
    PROVE  ReportInv'
<1>1. crew' = crew /\ tolFaults' = tolFaults /\ tolKilled' = tolKilled /\ deaf' = deaf
  OBVIOUS
<1>2. TolTypes'
  BY <1>1 DEF ReportInv, TolTypes
<1>3. AllTrue(mail, deaf)'
  BY <1>1 DEF AllTrue, AnswerTrue
<1>4. ASSUME NEW k \in TolWorkers PROVE (TolSound(crew[k], tolFaults, deaf) /\ EndedSound(k))'
  <2>1. TolSound(crew[k], tolFaults, deaf) /\ EndedSound(k)
    BY DEF ReportInv
  <2>2. EndedSound(k)'
    BY <2>1, <1>1 DEF EndedSound
  <2>3. TolSound(crew'[k], tolFaults', deaf')
    BY <2>1, <1>1
  <2> QED BY <2>2, <2>3 DEF TolSound, AllTrue, AnswerTrue
<1>5. ASSUME NEW k \in TolWorkers, NEW n \in Range(Deal(k)) PROVE Accounted(k, n)'
  <2>0. n \in 1..NCases
    BY DealtCase
  <2>1. \/ ToDo(crew[k].todo, n) \/ Answered(crew[k].box, n) \/ Answered(mail, n) \/ verdict[n] # "not run" \/ tolFaults >= 3 \/ k \in tolKilled
    BY DEF ReportInv, Accounted
  <2>2. \/ ToDo(crew'[k].todo, n) \/ Answered(crew'[k].box, n) \/ Answered(mail', n) \/ verdict'[n] # "not run" \/ tolFaults' >= 3 \/ k \in tolKilled'
    BY <2>0, <2>1, <1>1
  <2> QED BY <2>2 DEF Accounted, ToDo, Answered
<1>6. EachOnce'
  <2>1. ASSUME NEW n \in 1..NCases PROVE Spoken(n)' <=> Spoken(n)
    BY <1>1 DEF Spoken, Answered
  <2>2. (\A k \in TolWorkers : Distinct(crew'[k].todo))
        /\ \A j, k \in TolWorkers : \A n \in 1..NCases : ToDo(crew'[j].todo, n) /\ ToDo(crew'[k].todo, n) => j = k
    BY <1>1 DEF ReportInv, EachOnce
  <2>3. \A n \in 1..NCases : Spoken(n)' => \A k \in TolWorkers : ~ToDo(crew'[k].todo, n)
    BY <2>1, <1>1 DEF ReportInv, EachOnce
  <2> QED BY <2>2, <2>3 DEF EachOnce, Distinct, ToDo
<1> QED BY <1>2, <1>3, <1>4, <1>5, <1>6 DEF ReportInv
LEMMA LoopSteps == ASSUME TolRunParameters, ReportInv, AnyAlive \/ NotEmpty \/ GetTimesOut PROVE ReportInv'
<1>1. crew' = crew /\ verdict' = verdict /\ tolFaults' = tolFaults /\ tolKilled' = tolKilled /\ deaf' = deaf /\ mail' = mail
  BY DEF AnyAlive, NotEmpty, GetTimesOut, To
<1>2. mail \in Seq(Answer) /\ AllTrue(mail, deaf) /\ verdict \in [1..NCases -> {"not run", "accept", "refuse"}] /\ MainSound /\ tolMain \in {"alive", "empty", "get", "done"}
  BY DEF ReportInv, TolTypes
<1>3. tolMain' \in {"alive", "empty", "get", "done"}
  BY DEF AnyAlive, NotEmpty, GetTimesOut, To
<1>4. MainSound'
  <2>1. CASE AnyAlive
    <3>1. tolMain' = "get" \/ (tolMain' = "empty" /\ \A k \in TolWorkers : ~Living(k))
      BY <2>1 DEF AnyAlive, To
    <3> QED BY <3>1, <1>1 DEF MainSound, Living
  <2>2. CASE NotEmpty
    <3>1. tolMain = "empty" /\ (tolMain' = "get" \/ (tolMain' = "done" /\ mail = <<>>))
      BY <2>2 DEF NotEmpty, To
    <3> QED BY <3>1, <1>1, <1>2 DEF MainSound, Living
  <2>3. CASE GetTimesOut
    BY <2>3 DEF GetTimesOut, To, MainSound
  <2> QED BY <2>1, <2>2, <2>3
<1>5. ASSUME NEW n \in 1..NCases PROVE ResultTrue(n)'
  BY <1>1 DEF ReportInv, ResultTrue
<1>6. AllTrue(mail', deaf)
  BY <1>1, <1>2
<1>7. \A n \in 1..NCases : (Answered(mail, n) \/ verdict[n] # "not run") <=> (Answered(mail', n) \/ verdict'[n] # "not run")
  BY <1>1
<1> QED BY <1>1, <1>2, <1>3, <1>4, <1>5, <1>6, <1>7, ParentKeeps
LEMMA GetSteps == ASSUME TolRunParameters, ReportInv, TolGet PROVE ReportInv'
<1>1. /\ mail # <<>> /\ mail' = Tail(mail) /\ tolMain' = "alive" /\ crew' = crew /\ tolFaults' = tolFaults /\ tolKilled' = tolKilled /\ deaf' = deaf
      /\ verdict' = IF Head(mail).name = 0 THEN verdict ELSE [verdict EXCEPT ![Head(mail).name] = IF Head(mail).ok THEN "accept" ELSE "refuse"]
  BY DEF TolGet
<1>2. mail \in Seq(Answer) /\ AllTrue(mail, deaf) /\ verdict \in [1..NCases -> {"not run", "accept", "refuse"}]
  BY DEF ReportInv, TolTypes
<1>3. PICK m \in Answer : m = Head(mail)
  BY <1>1, <1>2, HeadTail
<1>4. AnswerTrue(m, deaf) /\ AllTrue(mail', deaf) /\ mail' \in Seq(Answer)
  BY <1>1, <1>2, <1>3, HeadTail, AllTaken
<1>5. m.name \in 0..NCases
  BY DEF Answer
<1>6. /\ verdict' \in [1..NCases -> {"not run", "accept", "refuse"}]
      /\ \A n \in 1..NCases : m.name # n => verdict'[n] = verdict[n]
      /\ m.name \in 1..NCases => verdict'[m.name] = IF m.ok THEN "accept" ELSE "refuse"
  <2>1. CASE m.name = 0
    <3>1. verdict' = verdict
      BY <2>1, <1>1, <1>3
    <3>2. m.name \notin 1..NCases
      BY <2>1
    <3> QED BY <3>1, <3>2, <1>2
  <2>2. CASE m.name # 0
    <3>1. m.name \in 1..NCases
      BY <2>2, <1>5 DEF TolRunParameters
    <3>2. PICK v \in {"accept", "refuse"} : v = IF m.ok THEN "accept" ELSE "refuse"
      OBVIOUS
    <3>3. verdict' = [verdict EXCEPT ![m.name] = v]
      BY <2>2, <3>2, <1>1, <1>3
    <3> QED BY <3>1, <3>2, <3>3, <1>2
  <2> QED BY <2>1, <2>2
<1>7. ASSUME NEW n \in 1..NCases PROVE ResultTrue(n)'
  <2>1. CASE m.name = n
    <3>1. m.ok <=> Hears[n] /\ n \notin deaf
      BY <2>1, <1>4 DEF AnswerTrue
    <3>2. verdict'[n] = IF Hears[n] /\ n \notin deaf THEN "accept" ELSE "refuse"
      BY <2>1, <3>1, <1>6
    <3> QED BY <3>2, <1>1 DEF ResultTrue
  <2>2. CASE m.name # n
    BY <2>2, <1>1, <1>6 DEF ResultTrue, ReportInv
  <2> QED BY <2>1, <2>2
<1>8. ASSUME NEW n \in 1..NCases, Answered(mail, n) \/ verdict[n] # "not run" PROVE Answered(mail', n) \/ verdict'[n] # "not run"
  <2>1. CASE m.name = n
    BY <2>1, <1>6
  <2>2. CASE m.name # n
    <3>1. Answered(mail, n) => Answered(Tail(mail), n)
      BY <2>2, <1>1, <1>2, <1>3, ToldTaken
    <3> QED BY <3>1, <2>2, <1>1, <1>6, <1>8
  <2> QED BY <2>1, <2>2
<1>11. ASSUME NEW n \in 1..NCases, Answered(mail', n) \/ verdict'[n] # "not run" PROVE Answered(mail, n) \/ verdict[n] # "not run"
  <2>1. Answered(mail, m.name) /\ (Answered(mail', n) => Answered(mail, n))
    BY <1>1, <1>2, <1>3, ToldBefore
  <2> QED BY <2>1, <1>6, <1>11
<1>9. MainSound'
  BY <1>1 DEF MainSound
<1>10. tolMain' \in {"alive", "empty", "get", "done"} /\ UNCHANGED <<crew, tolFaults, tolKilled, deaf>>
  BY <1>1
<1> QED BY <1>10, <1>4, <1>6, <1>7, <1>8, <1>9, <1>11, ParentKeeps
LEMMA ReportStarts == ASSUME TolRunParameters, TolInit PROVE ReportInv
<1>1. /\ mail = <<>> /\ tolMain = "alive" /\ verdict = [n \in 1..NCases |-> "not run"] /\ tolFaults = 0 /\ tolKilled = {}
  BY DEF TolInit
<1> DEFINE R(s) == [pc |-> "next", todo |-> s, attempt |-> 1, emu |-> FALSE, T |-> 0, t_enter |-> 0, box |-> <<>>]
<1>2. crew = [k \in TolWorkers |-> R(Deal(k))]
  BY DEF TolInit
<1>3. <<>> \in Seq(Answer)
  OBVIOUS
<1>4. AllTrue(<<>>, deaf)
  BY DEF AllTrue
<1>5. ASSUME NEW s \in Seq(1..NCases)
      PROVE R(s) \in TolRecord /\ R(s).todo = s /\ R(s).pc = "next" /\ R(s).attempt = 1 /\ R(s).box = <<>>
  <2>1. R(s).todo = s /\ R(s).pc = "next" /\ R(s).attempt = 1 /\ R(s).box = <<>>
    OBVIOUS
  <2>2. PICK b \in Seq(Answer) : b = <<>>
    BY <1>3, Zenon
  <2>3. R(s) = [pc |-> "next", todo |-> s, attempt |-> 1, emu |-> FALSE, T |-> 0, t_enter |-> 0, box |-> b]
    BY <2>2, Zenon
  <2>4. R(s) \in TolRecord
    BY <2>3, 1 \in 1..3 DEF TolRecord
  <2> QED BY <2>1, <2>4
<1> HIDE DEF R
<1>6. ASSUME NEW k \in TolWorkers
      PROVE  crew[k] \in TolRecord /\ crew[k].todo = Deal(k) /\ crew[k].pc = "next" /\ crew[k].attempt = 1 /\ crew[k].box = <<>>
  <2>1. crew[k] = R(Deal(k)) /\ Deal(k) \in Seq(1..NCases)
    BY <1>2, DealIs
  <2> QED BY <2>1, <1>5
<1>7. crew \in [TolWorkers -> TolRecord]
  BY <1>2, <1>6
<1>8. TolTypes
  <2>1. mail \in Seq(Answer)
    BY <1>1, <1>3, Zenon
  <2> QED BY <2>1, <1>1, <1>7 DEF TolTypes
<1>9. MainSound /\ AllTrue(mail, deaf)
  BY <1>1, <1>4 DEF MainSound
<1>10. ASSUME NEW k \in TolWorkers PROVE TolSound(crew[k], tolFaults, deaf) /\ EndedSound(k)
  <2>1. crew[k].pc = "next" /\ crew[k].attempt = 1 /\ crew[k].box = <<>> /\ tolFaults = 0
    BY <1>1, <1>6
  <2>2. crew[k].attempt <= tolFaults + 1
    BY <2>1
  <2>3. AllTrue(crew[k].box, deaf)
    BY <2>1, <1>4
  <2> QED BY ONLY <2>1, <2>2, <2>3 DEF TolSound, EndedSound
<1>11. ASSUME NEW n \in 1..NCases PROVE ResultTrue(n)
  BY <1>1 DEF ResultTrue
<1>12. ASSUME NEW k \in TolWorkers, NEW n \in Range(Deal(k)) PROVE Accounted(k, n)
  BY <1>6, DealtCase DEF Accounted
<1>13. EachOnce
  <2>1. \A n \in 1..NCases : ~Spoken(n)
    <3>1. \A n : ~Answered(<<>>, n)
      BY DEF Answered
    <3>2. \A n \in 1..NCases : verdict[n] = "not run"
      BY <1>1
    <3> QED BY <3>1, <3>2, <1>1, <1>6 DEF Spoken
  <2> QED BY <2>1, <1>6, DealtOnce DEF EachOnce
<1> QED BY <1>8, <1>9, <1>10, <1>11, <1>12, <1>13 DEF ReportInv
LEMMA ReportStays == ASSUME TolRunParameters, ReportInv, [TolNext]_tolVars PROVE ReportInv'
<1>1. CASE ParentStep
  BY <1>1, LoopSteps, GetSteps DEF ParentStep
<1>2. CASE UNCHANGED tolVars
  <2>1. crew' = crew /\ mail' = mail /\ tolMain' = tolMain /\ verdict' = verdict /\ tolFaults' = tolFaults /\ tolKilled' = tolKilled /\ deaf' = deaf
    BY <1>2 DEF tolVars
  <2>2. TolTypes'
    BY <2>1 DEF ReportInv, TolTypes
  <2>3. MainSound'
    BY <2>1 DEF ReportInv, MainSound, Living
  <2>4. \A n \in 1..NCases : ResultTrue(n)'
    BY <2>1 DEF ReportInv, ResultTrue
  <2>5. UNCHANGED <<crew, tolFaults, tolKilled, deaf>> /\ mail' \in Seq(Answer) /\ AllTrue(mail', deaf) /\ tolMain' \in {"alive", "empty", "get", "done"}
        /\ verdict' \in [1..NCases -> {"not run", "accept", "refuse"}]
    BY <2>1 DEF ReportInv, TolTypes
  <2>6. \A n \in 1..NCases : (Answered(mail, n) \/ verdict[n] # "not run") <=> (Answered(mail', n) \/ verdict'[n] # "not run")
    BY <2>1
  <2> QED BY <2>3, <2>4, <2>5, <2>6, ParentKeeps
<1>3. CASE TolFinished
  BY <1>2, <1>3 DEF TolFinished
<1>4. ASSUME NEW k \in TolWorkers, TolStep(k) \/ Feed(k) \/ Fails(k) \/ Killed(k) PROVE ReportInv'
  <2>1. Living(k) /\ \E x : Moves(k, x)
    <3>1. CASE Boot(k) \/ Typed(k) \/ Enter(k) \/ Slice(k)
      BY <3>1, CaseSteps
    <3>2. CASE Verdict(k)
      BY <3>2, VerdictMoves
    <3>3. CASE TolStops(k) \/ TolExit(k)
      BY <3>3, EndMoves
    <3>4. CASE Feed(k)
      BY <3>4, FeedMoves
    <3>5. CASE Fails(k)
      BY <3>5, FailMoves
    <3>6. CASE Killed(k)
      BY <3>6, KillMoves
    <3> QED BY <3>1, <3>2, <3>3, <3>4, <3>5, <3>6, <1>4 DEF TolStep
  <2> QED BY <2>1, WorkerMoves
<1> QED BY <1>1, <1>2, <1>3, <1>4 DEF TolNext
LEMMA ReportFollows == ASSUME TolRunParameters, ReportInv PROVE ReportIsTrue
<1>1. ASSUME NEW n \in 1..NCases, verdict[n] # "not run" PROVE verdict[n] = IF Hears[n] /\ n \notin deaf THEN "accept" ELSE "refuse"
  BY <1>1 DEF ReportInv, ResultTrue
<1>2. ASSUME tolMain = "done", NEW n \in 1..NCases, verdict[n] = "not run"
      PROVE  tolFaults >= 3 \/ \E k \in tolKilled : n \in Range(Deal(k))
  <2>1. PICK k \in TolWorkers : n \in Range(Deal(k))
    BY AllDealt
  <2>2. Accounted(k, n) /\ EndedSound(k) /\ ~Living(k) /\ mail = <<>>
    BY <2>1, <1>2 DEF ReportInv, MainSound
  <2>3. k \in tolKilled \/ (crew[k].todo = <<>> /\ crew[k].box = <<>>)
    BY <2>2 DEF EndedSound, Living
  <2>4. ~ToDo(<<>>, n) /\ ~Answered(<<>>, n)
    BY DEF ToDo, Answered
  <2> QED BY <2>1, <2>2, <2>3, <2>4, <1>2 DEF Accounted
<1> QED BY <1>1, <1>2 DEF ReportIsTrue

\* The report is true: a signal the ROM loads is accepted when its last ENTER was taken, one it does
\* not load or whose last ENTER was dropped is refused, and no case is left out when the run ends, but
\* where an attempt failed three times or a worker was killed (src/tools/tapetol.py worker and run), for
\* any cases, workers and lengths of the tape.
THEOREM TheReportIsTrue == ASSUME TolRunParameters PROVE TolSpec => []ReportIsTrue
<1>1. TolInit => ReportInv
  BY ReportStarts
<1>2. ReportInv /\ [TolNext]_tolVars => ReportInv'
  BY ReportStays
<1>3. ReportInv => ReportIsTrue
  BY ReportFollows
<1> QED BY <1>1, <1>2, <1>3, PTL DEF TolSpec
=============================================================================
