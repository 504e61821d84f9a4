------------------------------- MODULE TapeRun -------------------------------
(* tapetest's runs: run_all gives each case a worker process and a port; the worker plays a
   tape that opens with a silence (the lead) into an emulator of its own, types the case's
   setup lines and command during the lead and presses ENTER just before it ends.  Typing
   is slower than planned, slips, or its ENTER is dropped; a run whose lead was too short is
   repeated with a longer one.  Time is the tape's, in ticks of half a second.           *)
EXTENDS Integers, Sequences, FiniteSets, SequencesExt

CONSTANTS Cases,          \* the cases asked for, in order
          Jobs,           \* cases run at once, on ports 1 .. Jobs
          Setup,          \* Setup[c]: setup lines of case c
          Lead,           \* Lead[c]: ticks of lead_for, a multiple of 4
          Slow,           \* typing a line takes 1 .. Slow ticks
          Faults          \* bound: slips, lines that fail and worker deaths, together
ASSUME TapeRunAssumption ==
    /\ Cases \in Seq(Range(Cases)) /\ IsInjective(Cases) /\ Jobs \in Nat \ {0} /\ Faults \in Nat /\ Slow \in Nat \ {0}
    /\ \A c \in Range(Cases) : Setup[c] \in Nat /\ Lead[c] \in Nat

VARIABLES pending, free,  \* run_all's cases to start and ports at rest
          running,        \* its futures: case -> port
          results,        \* case -> verdict
          job,            \* job[c]: the worker of case c
          faults,         \* faults so far
          emulators       \* the emulators that run: <<case, port>>
vars == <<pending, free, running, results, job, faults, emulators>>
pool == <<pending, free, running, results>>

Ids == Range(Cases)
Tries == 6
Attempts == 3
None == [pc |-> "none", attempt |-> 1, T |-> 0, lead |-> 0, lines |-> 0, tries |-> 0, verdict |-> ""]
On(c, new) == job' = [job EXCEPT ![c] = new]
Fault == faults < Faults /\ faults' = faults + 1

----------------------------------------------------------------------------
\* run_all
Submit ==
    /\ pending # <<>> /\ free # <<>>
    /\ running' = [running EXCEPT ![Head(pending)] = Head(free)]
    /\ pending' = Tail(pending) /\ free' = Tail(free)
    /\ On(Head(pending), [None EXCEPT !.pc = "play", !.lead = Lead[Head(pending)]])
    /\ UNCHANGED <<results, faults, emulators>>
\* (spawn: a worker that printed no RESULT line died)
Collect(c) ==
    /\ running[c] # 0 /\ job[c].pc = "ended"
    /\ results' = [results EXCEPT ![c] = job[c].verdict]
    /\ free' = Append(free, running[c]) /\ running' = [running EXCEPT ![c] = 0]
    /\ On(c, None) /\ UNCHANGED <<pending, faults, emulators>>
Reported == pending = <<>> /\ \A c \in Ids : running[c] = 0

----------------------------------------------------------------------------
\* run_case and play, in the worker
Play(c) ==
    /\ job[c].pc = "play" /\ emulators' = emulators \cup {<<c, running[c]>>}
    /\ On(c, [job[c] EXCEPT !.pc = "setup", !.T = 0, !.lines = Setup[c]])
    /\ UNCHANGED <<pool, faults>>
Ends(c, verdict) ==
    /\ On(c, [job[c] EXCEPT !.pc = "ended", !.verdict = verdict])
    /\ emulators' = {e \in emulators : e[1] # c}
\* HarnessRetry: the session is stopped, and the case begins again while it has attempts left.
\* (a mutant of Retry) The session is left running.
RetryLeaves(c, lead) ==
    IF job[c].attempt = Attempts THEN Ends(c, "FAIL")
    ELSE /\ On(c, [None EXCEPT !.pc = "play", !.attempt = job[c].attempt + 1, !.lead = lead])
         /\ emulators' = emulators
Retry(c, lead) ==
    IF job[c].attempt = Attempts THEN Ends(c, "FAIL")
    ELSE /\ On(c, [None EXCEPT !.pc = "play", !.attempt = job[c].attempt + 1, !.lead = lead])
         /\ emulators' = {e \in emulators : e[1] # c}
Longer(c) == (job[c].lead * 3) \div 2
\* type_text: the edit line is read back
TypingSlips(c) ==
    /\ job[c].pc \in {"setup", "command"} /\ Fault /\ Retry(c, job[c].lead) /\ UNCHANGED pool
SetupLine(c) ==
    /\ job[c].pc = "setup" /\ job[c].lines > 0
    /\ \E d \in 1..Slow :
         IF job[c].T + d > job[c].lead - 8 THEN Retry(c, Longer(c))
         ELSE On(c, [job[c] EXCEPT !.T = @ + d, !.lines = @ - 1]) /\ UNCHANGED emulators
    /\ UNCHANGED <<pool, faults>>
SetupFails(c) ==
    /\ job[c].pc = "setup" /\ job[c].lines > 0 /\ Fault /\ Ends(c, "FAIL") /\ UNCHANGED pool
\* (a mutant of Command) Nothing is looked at between the typing and ENTER.
CommandUnchecked(c) ==
    /\ job[c].pc = "setup" /\ job[c].lines = 0
    /\ \E d \in 1..Slow :
         On(c, [job[c] EXCEPT !.T = @ + d, !.pc = "run_to"]) /\ UNCHANGED emulators
    /\ UNCHANGED <<pool, faults>>
Command(c) ==
    /\ job[c].pc = "setup" /\ job[c].lines = 0
    /\ \E d \in 1..Slow :
         IF job[c].T + d > job[c].lead - 12 THEN Retry(c, Longer(c))
         ELSE On(c, [job[c] EXCEPT !.T = @ + d, !.pc = "run_to"]) /\ UNCHANGED emulators
    /\ UNCHANGED <<pool, faults>>
RunTo(c) ==
    /\ job[c].pc = "run_to"
    /\ On(c, IF job[c].T >= job[c].lead - 10 THEN [job[c] EXCEPT !.pc = "enter"] ELSE [job[c] EXCEPT !.T = @ + 1])
    /\ UNCHANGED <<pool, faults, emulators>>
\* press_enter: a try takes one tick
PressEnter(c) ==
    /\ job[c].pc = "enter" /\ job[c].tries < Tries
    /\ On(c, [job[c] EXCEPT !.T = @ + 1, !.pc = "poll"]) /\ UNCHANGED <<pool, faults, emulators>>
EnterDropped(c) ==
    /\ job[c].pc = "enter" /\ job[c].tries < Tries
    /\ On(c, [job[c] EXCEPT !.T = @ + 1, !.tries = @ + 1]) /\ UNCHANGED <<pool, faults, emulators>>
NeverTaken(c) ==
    /\ job[c].pc = "enter" /\ job[c].tries = Tries /\ Ends(c, "FAIL") /\ UNCHANGED <<pool, faults>>
\* poll_idle and the checks
Judged(c) ==
    /\ job[c].pc = "poll" /\ \E verdict \in {"PASS", "FAIL"} : Ends(c, verdict)
    /\ UNCHANGED <<pool, faults>>
\* The worker process ends at once; its emulator stays on the port.
WorkerDies(c) ==
    /\ job[c].pc \notin {"none", "ended"} /\ Fault
    /\ On(c, [job[c] EXCEPT !.pc = "ended", !.verdict = "worker died"])
    /\ UNCHANGED <<pool, emulators>>

----------------------------------------------------------------------------
Init ==
    /\ pending = Cases /\ free = [p \in 1..(IF Jobs < Len(Cases) THEN Jobs ELSE Len(Cases)) |-> p]
    /\ running = [c \in Ids |-> 0] /\ results = [c \in Ids |-> ""]
    /\ job = [c \in Ids |-> None] /\ faults = 0 /\ emulators = {}
Step(c) == \/ Play(c) \/ SetupLine(c) \/ Command(c) \/ RunTo(c) \/ PressEnter(c)
           \/ NeverTaken(c) \/ Judged(c)
Goes(c) == TypingSlips(c) \/ SetupFails(c) \/ EnterDropped(c) \/ WorkerDies(c)
Finished == Reported /\ UNCHANGED vars
Next == Submit \/ Finished \/ \E c \in Ids : Collect(c) \/ Step(c) \/ Goes(c)
\* Every process and the emulated time go on; nothing makes a fault come.
Spec == /\ Init /\ [][Next]_vars /\ WF_vars(Submit)
        /\ \A c \in Ids : WF_vars(Collect(c)) /\ WF_vars(Step(c))

----------------------------------------------------------------------------
\* A command is entered before the tape's first block begins, however slow the typing was,
\* how many runs it took and however many of the six ENTERs were dropped: a case is never
\* judged on a tape it heard only the end of.
HeardFromTheStart == \A c \in Ids : job[c].pc = "poll" => job[c].T < job[c].lead

\* No two workers share a port, and a worker whose case runs has its port to itself, but for
\* an emulator whose worker died there.
PortsApart ==
    /\ \A c, d \in Ids : c # d /\ running[c] # 0 => running[c] # running[d]
    /\ \A e, x \in emulators : e[2] = x[2] =>
         e = x \/ "worker died" \in {results[e[1]], results[x[1]], job[e[1]].verdict, job[x[1]].verdict}
    /\ \A e \in emulators : job[e[1]].pc \in {"none", "play", "ended"} =>
         "worker died" \in {results[e[1]], job[e[1]].verdict}

\* Every case asked for is reported, whatever went wrong in its runs and in the others'.
EveryCaseReported == Reported /\ \A c \in Ids : results[c] # ""
=============================================================================
