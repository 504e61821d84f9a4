-------------------------------- MODULE Pool --------------------------------
(* run_pool of src/tools/fharness.py: worker processes, each driving an emulator of its
   own, take task numbers from a queue and report over another, which the main process
   reads with a timeout.  A message a process puts goes first to a buffer in that process
   (box); its feeder moves it to the pipe (rq) later, and a process that is killed takes
   its buffer with it.  What multiprocessing and the operating system do is modelled
   from this use.                                                                      *)
EXTENDS Integers, Sequences, FiniteSets, Functions

CONSTANTS N,              \* workers 1 .. N, worker k on port k
          Tasks,          \* tasks 1 .. Tasks
          PoolFaults,     \* how many faults may come: workers killed hard, a SIGTERM
          Backlog,        \* bound: unread messages beyond which no worker takes a task
          GapExit         \* a worker may end between the main process's timeout and its look
PoolParameters ==
    /\ Tasks \in Nat /\ PoolFaults \in Nat /\ Backlog \in Nat /\ GapExit \in BOOLEAN /\ N \in Nat \ {0}

VARIABLES tq,             \* the task queue: numbers, then one End a worker
          worker,         \* [pc, task, emu, box, sig, cut] of each worker process; an emulator is named
                          \* by the task it was started for, 0 is none
          rq,             \* the messages in the pipe
          main,           \* [pc, live, running, pids, check, killed] of the main process; pids: of each
                          \* worker's emulators, the one whose process number was read last
          poolResults,    \* run_pool's results, by task
          holder,         \* history: who took each task
          outcome         \* history: what became of it there
poolVars == <<tq, worker, rq, main, poolResults, holder, outcome>>

Workers == 1..N
End == 0
NoEmulator == 0
NoResult == ""           \* no result yet, no word in a message
Working == {"idle", "took", "starting", "running"}
Alive(w) == worker[w].pc \notin {"new", "dead"}
Started == {w \in Workers : worker[w].pc # "new"}
Set(w, pc) == worker' = [worker EXCEPT ![w].pc = pc]
FaultsSoFar == Cardinality(main.killed) + IF main.aborted THEN 1 ELSE 0
Becomes(w, pc, emu, msgs) ==
    worker' = [worker EXCEPT ![w].pc = pc, ![w].emu = emu, ![w].box = @ \o msgs]
\* (once SIGTERM came nobody reads the messages any more)
Msg(kind, w, i, how) ==
    IF main.aborted THEN <<>> ELSE <<[kind |-> kind, from |-> w, task |-> i, how |-> how]>>

----------------------------------------------------------------------------
\* _worker
Get(w) ==
    /\ worker[w].pc = "idle" /\ tq # <<>> /\ tq' = Tail(tq)
    /\ Len(rq) + Len(worker[w].box) <= Backlog
    /\ IF Head(tq) = End
       THEN Set(w, "stopping") /\ UNCHANGED holder
       ELSE /\ worker' = [worker EXCEPT ![w].pc = "took", ![w].task = Head(tq),
                                        ![w].box = @ \o Msg("take", w, Head(tq), NoResult)]
            /\ holder' = [holder EXCEPT ![Head(tq)] = w]
    /\ UNCHANGED <<rq, main, poolResults, outcome>>

\* The machine at hand is restored; without one an emulator is started.
Prepare(w) ==
    /\ worker[w].pc = "took"
    /\ IF worker[w].emu # NoEmulator THEN Set(w, "running")
       ELSE Becomes(w, "starting", worker[w].task, <<>>)
    /\ UNCHANGED <<tq, rq, main, poolResults, holder, outcome>>
Booted(w) ==
    /\ worker[w].pc = "starting"
    /\ Becomes(w, "running", worker[w].emu, Msg("pid", w, worker[w].emu, NoResult))
    /\ UNCHANGED <<tq, rq, main, poolResults, holder, outcome>>
Report(w, how, emu) ==
    /\ Becomes(w, "idle", emu, Msg("done", w, worker[w].task, how))
    /\ outcome' = [outcome EXCEPT ![worker[w].task] = how]
    /\ UNCHANGED <<tq, rq, main, poolResults, holder>>
Finish(w) == worker[w].pc = "running" /\ Report(w, "ok", worker[w].emu)
\* The start, the restore or the task raises: the emulator is stopped, and the task has failed.
Raise(w) ==
    /\ worker[w].pc \in {"took", "starting", "running"} /\ worker[w].emu # NoEmulator
    /\ Report(w, "raised", NoEmulator)

Stop(w) ==
    /\ worker[w].pc = "stopping" /\ Becomes(w, "flushing", NoEmulator, Msg("exit", w, 0, NoResult))
    /\ UNCHANGED <<tq, rq, main, poolResults, holder, outcome>>
\* (a mutant of Terminated) SystemExit does not come through the finally.
TerminatedAtOnce(w) ==
    /\ worker[w].sig /\ worker[w].pc \in Working \cup {"stopping"}
    /\ worker' = [worker EXCEPT ![w].sig = FALSE, ![w].pc = "flushing"]
    /\ UNCHANGED <<tq, rq, main, poolResults, holder, outcome>>
\* SIGTERM: the handler raises SystemExit where the worker stands.  The first one brings it
\* to its finally; one in the finally can skip the rest of Machine.stop.
Terminated(w) ==
    /\ worker[w].sig /\ worker[w].pc \in Working \cup {"stopping"}
    /\ worker' = [worker EXCEPT ![w].sig = FALSE,
                                ![w].cut = worker[w].pc = "stopping",
                                ![w].pc = IF @ = "stopping" THEN "flushing" ELSE "stopping"]
    /\ UNCHANGED <<tq, rq, main, poolResults, holder, outcome>>
\* The feeder (what it moves at once it could have moved one by one, as soon as it was
\* put), and the end of the process, which waits for the feeder.
Flush(w) ==
    /\ Alive(w) /\ worker[w].box # <<>>
    /\ rq' = rq \o worker[w].box /\ worker' = [worker EXCEPT ![w].box = <<>>]
    /\ UNCHANGED <<tq, main, poolResults, holder, outcome>>
\* (a mutant of Exit) The process does not wait for its feeder.
ExitUnflushed(w) ==
    /\ worker[w].pc = "flushing" /\ main.pc # "sweep" /\ worker' = [worker EXCEPT ![w].pc = "dead", ![w].box = <<>>]
    /\ UNCHANGED <<tq, rq, main, poolResults, holder, outcome>>
Exit(w) ==
    /\ worker[w].pc = "flushing" /\ worker[w].box = <<>>
    /\ GapExit \/ main.pc # "sweep"
    /\ Set(w, "dead") /\ UNCHANGED <<tq, rq, main, poolResults, holder, outcome>>
\* Killed hard (out of memory, a crash of Python): no finally runs, the emulator stays.
Kill(w) ==
    /\ Alive(w) /\ FaultsSoFar < PoolFaults
    /\ worker' = [worker EXCEPT ![w].pc = "dead", ![w].box = <<>>]
    /\ main' = [main EXCEPT !.killed = @ \cup {w}]
    /\ UNCHANGED <<tq, rq, poolResults, holder, outcome>>

----------------------------------------------------------------------------
\* run_pool
Spawn(w) ==
    /\ main.pc = "spawn" /\ Started = 1..w-1 /\ Set(w, "idle")
    /\ main' = IF w = N THEN [main EXCEPT !.pc = "collect", !.live = Workers] ELSE main
    /\ UNCHANGED <<tq, rq, poolResults, holder, outcome>>

Taken(m) == main' = [main EXCEPT !.running[m.from] = m.task] /\ UNCHANGED poolResults
PidSeen(m) == main' = [main EXCEPT !.pids[m.from] = m.task] /\ UNCHANGED poolResults
Done(m) == /\ poolResults' = [poolResults EXCEPT ![m.task] = m.how]
           /\ main' = [main EXCEPT !.running[m.from] = 0]
Exited(m) == main' = [main EXCEPT !.live = @ \ {m.from}] /\ UNCHANGED poolResults
Receive ==
    /\ main.pc = "collect" /\ main.live # {} /\ rq # <<>> /\ rq' = Tail(rq)
    /\ LET m == Head(rq)
       IN  \/ m.kind = "take" /\ Taken(m)
           \/ m.kind = "pid" /\ PidSeen(m)
           \/ m.kind = "done" /\ Done(m)
           \/ m.kind = "exit" /\ Exited(m)
    /\ UNCHANGED <<tq, worker, holder, outcome>>
\* rq.get times out; then each worker still live is looked at.
Timeout ==
    /\ main.pc = "collect" /\ main.live # {} /\ rq = <<>>
    /\ main' = [main EXCEPT !.pc = "sweep", !.check = main.live]
    /\ UNCHANGED <<tq, worker, rq, poolResults, holder, outcome>>
Look(w) ==
    /\ main.pc = "sweep" /\ w \in main.check
    /\ LET next == [main EXCEPT !.check = @ \ {w}, !.pc = IF main.check = {w} THEN "collect" ELSE "sweep"]
       IN  IF Alive(w) THEN main' = next /\ UNCHANGED poolResults
           ELSE /\ main' = [next EXCEPT !.live = @ \ {w}, !.running[w] = 0]
                /\ poolResults' = IF main.running[w] = 0 THEN poolResults
                                  ELSE [poolResults EXCEPT ![main.running[w]] = "died"]
    /\ UNCHANGED <<tq, worker, rq, holder, outcome>>
Joined ==
    /\ main.pc = "collect" /\ main.live = {} /\ \A w \in Started : ~Alive(w)
    /\ main' = [main EXCEPT !.pc = "finally"]
    /\ UNCHANGED <<tq, worker, rq, poolResults, holder, outcome>>
\* SIGTERM to the main process, alone or with its process group.
SigTerm(group) ==
    /\ main.pc \in {"spawn", "collect", "sweep"} /\ FaultsSoFar < PoolFaults
    /\ main' = [main EXCEPT !.pc = "finally", !.aborted = TRUE]
    /\ worker' = [w \in Workers |-> [worker[w] EXCEPT !.sig = group /\ Alive(w), !.box = <<>>]]
    /\ rq' = <<>> /\ poolResults' = [i \in 1..Tasks |-> NoResult] /\ UNCHANGED <<tq, holder, outcome>>
TerminateAll ==
    /\ main.pc = "finally" /\ main' = [main EXCEPT !.pc = "reap"]
    /\ worker' = [w \in Workers |-> [worker[w] EXCEPT !.sig = @ \/ Alive(w)]]
    /\ UNCHANGED <<tq, rq, poolResults, holder, outcome>>
\* The workers have ended: the emulator whose process number was read last for each port is stopped.
Reap ==
    /\ main.pc = "reap" /\ \A w \in Started : ~Alive(w)
    /\ worker' = [w \in Workers |-> [worker[w] EXCEPT !.emu = IF @ = main.pids[w] THEN NoEmulator ELSE @]]
    /\ main' = [main EXCEPT !.pc = IF main.aborted THEN "aborted" ELSE "returned"]
    /\ poolResults' = [i \in 1..Tasks |-> IF poolResults[i] = NoResult THEN "never ran" ELSE poolResults[i]]
    /\ UNCHANGED <<tq, rq, holder, outcome>>

PoolInit ==
    /\ tq = [i \in 1..Tasks + N |-> IF i <= Tasks THEN i ELSE End]
    /\ worker = [w \in Workers |-> [pc |-> "new", task |-> 0, emu |-> NoEmulator, box |-> <<>>, sig |-> FALSE,
                                cut |-> FALSE]]
    /\ rq = <<>> /\ poolResults = [i \in 1..Tasks |-> NoResult]
    /\ main = [pc |-> "spawn", live |-> {}, running |-> [w \in Workers |-> 0],
               pids |-> [w \in Workers |-> NoEmulator], check |-> {}, killed |-> {}, aborted |-> FALSE]
    /\ holder = [i \in 1..Tasks |-> 0] /\ outcome = [i \in 1..Tasks |-> NoResult]

\* A signal is handled before the next step of the program it interrupts.
WorkerStep(w) == \/ ~worker[w].sig /\ (Get(w) \/ Prepare(w) \/ Booted(w) \/ Finish(w) \/ Raise(w) \/ Stop(w))
                 \/ Terminated(w) \/ Exit(w)
MainStep == Receive \/ Timeout \/ Joined \/ TerminateAll \/ Reap
            \/ \E w \in Workers : Spawn(w) \/ Look(w)
PoolFinished == main.pc \in {"returned", "aborted"} /\ UNCHANGED poolVars
PoolNext == \/ MainStep \/ PoolFinished \/ \E group \in BOOLEAN : SigTerm(group)
            \/ \E w \in Workers : WorkerStep(w) \/ Flush(w) \/ Kill(w)
\* Every process and feeder is scheduled; nothing makes a kill or a signal come.
PoolSpec == /\ PoolInit /\ [][PoolNext]_poolVars /\ WF_poolVars(MainStep)
            /\ \A w \in Workers : WF_poolVars(WorkerStep(w)) /\ WF_poolVars(Flush(w))

----------------------------------------------------------------------------
\* Results come back in task order and are the tasks' own: run_pool never calls a task
\* dead that its worker finished, nor unrun while a worker could still run it, unless a
\* worker was killed while it held it.
ResultsAreTheirs ==
    main.pc = "returned" => \A i \in 1..Tasks :
        \/ poolResults[i] = outcome[i]
        \/ poolResults[i] \in {"died", "never ran"} /\ holder[i] \in main.killed
        \/ poolResults[i] = "never ran" /\ main.killed = Workers

\* An emulator outlives run_pool only if its worker was killed hard, or signalled while it
\* stopped it, before that emulator's own process number was read: not an earlier one's that
\* the worker had on the same port, and stopped after a task raised.
NoEmulatorLeft ==
    main.pc \in {"returned", "aborted"} => \A w \in Workers : worker[w].emu # NoEmulator =>
        main.pids[w] # worker[w].emu /\ (w \in main.killed \/ worker[w].cut)


\* run_pool has returned, with every result or with the signal's exit.
Ended == main.pc \in {"returned", "aborted"}
=============================================================================
