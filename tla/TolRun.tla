------------------------------- MODULE TolRun --------------------------------
(* tapetol's run: the cases are dealt to worker processes in turn; a worker synthesises each
   case's tape, plays it into its emulator, types LOAD-TEXT during the lead and watches for
   the prompt or the tape's end; what fails is tried again on a new emulator.  The parent
   reads the answers while a worker lives or the queue holds one.  Time is the tape's.   *)
EXTENDS Integers, Sequences, FiniteSets, Functions

CONSTANTS NCases,         \* cases 1 .. NCases
          TolJobs,
          Hears,          \* Hears[n]: the ROM loads case n's signal
          TolLead,        \* the tape's silence, and Long the signal after it, in ticks
          Long,
          TolFaults       \* bound: harness failures and workers killed, together
TolRunParameters ==
    /\ NCases \in Nat \ {0} /\ TolJobs \in Nat \ {0} /\ TolLead \in Nat /\ Long \in Nat /\ TolFaults \in Nat
    /\ Hears \in [1..NCases -> BOOLEAN]

VARIABLES crew,           \* crew[k]: a worker, [pc, todo, attempt, emu, T, t_enter, box]
          mail,           \* the messages in the queue's pipe
          tolMain,        \* the parent: at the loop's first test, its second, its get, or done
          verdict,        \* the answer read for each case
          tolFaults,
          deaf,           \* the cases whose ENTER the emulator dropped, in the last try
          tolKilled       \* history: the workers killed
tolVars == <<crew, mail, tolMain, verdict, tolFaults, deaf, tolKilled>>

Deal(k) == [i \in 1..Cardinality({n \in 1..NCases : n % TolJobs = k % TolJobs}) |-> (i - 1) * TolJobs + k]
TolWorkers == 1..(IF TolJobs < NCases THEN TolJobs ELSE NCases)
Living(k) == crew[k].pc # "dead"
Case(k) == Head(crew[k].todo)
NowIs(k, new) == crew' = [crew EXCEPT ![k] = new]
Put(x, msg) == [x EXCEPT !.box = Append(@, msg)]
TolFault == tolFaults < TolFaults /\ tolFaults' = tolFaults + 1
parentVars == <<tolMain, verdict>>

----------------------------------------------------------------------------
\* worker
Boot(k) ==
    /\ crew[k].pc = "next" /\ crew[k].todo # <<>>
    /\ NowIs(k, [crew[k] EXCEPT !.pc = "typing", !.emu = TRUE, !.T = 0])
    /\ UNCHANGED <<mail, parentVars, tolFaults, deaf, tolKilled>>
Next1(x) == [x EXCEPT !.todo = Tail(@), !.attempt = 1, !.pc = "next"]
\* run_case: the command typed in the lead (its time is looked at), ENTER, then slices of the tape
\* (a mutant of Typed) Typing may run over the lead.
TypedAnyTime(k) ==
    /\ crew[k].pc = "typing" /\ \E t \in 1..TolLead + 1 : NowIs(k, [crew[k] EXCEPT !.pc = "enter", !.T = t])
    /\ UNCHANGED <<mail, parentVars, tolFaults, deaf, tolKilled>>
Typed(k) ==
    /\ crew[k].pc = "typing"
    /\ \E t \in 1..TolLead : 10 * t <= 9 * TolLead /\ NowIs(k, [crew[k] EXCEPT !.pc = "enter", !.T = t])
    /\ UNCHANGED <<mail, parentVars, tolFaults, deaf, tolKilled>>
\* ENTER is pressed once, just after the machine was resumed, when the emulator may drop a key;
\* nothing looks whether the line was taken.
Enter(k) ==
    /\ crew[k].pc = "enter" /\ NowIs(k, [crew[k] EXCEPT !.pc = "watch", !.t_enter = crew[k].T])
    /\ deaf' = deaf \ {Case(k)} \/ deaf' = deaf \cup {Case(k)}
    /\ UNCHANGED <<mail, parentVars, tolFaults, tolKilled>>
\* The line ends when the text has loaded; the ROM waits on for one it did not hear, and in
\* the line editor when it had no ENTER.
Heard(k) == Hears[Case(k)] /\ Case(k) \notin deaf /\ crew[k].t_enter <= TolLead
Idle(k) == Heard(k) /\ crew[k].T >= TolLead + Long
Slice(k) ==
    /\ crew[k].pc = "watch" /\ ~(Idle(k) /\ crew[k].T > crew[k].t_enter) /\ crew[k].T <= TolLead + Long + 2
    /\ NowIs(k, [crew[k] EXCEPT !.T = @ + 1]) /\ UNCHANGED <<mail, parentVars, tolFaults, deaf, tolKilled>>
Verdict(k) ==
    /\ crew[k].pc = "watch" /\ ((Idle(k) /\ crew[k].T > crew[k].t_enter) \/ crew[k].T > TolLead + Long + 2)
    /\ NowIs(k, Next1(Put(crew[k], [name |-> Case(k), ok |-> Idle(k)])))
    /\ UNCHANGED <<mail, parentVars, tolFaults, deaf, tolKilled>>
\* HarnessError and the like: a lost key, typing over the lead, no prompt, the wall clock
Fails(k) ==
    /\ crew[k].pc \in {"typing", "enter", "watch"} /\ TolFault
    /\ NowIs(k, LET x == [crew[k] EXCEPT !.emu = FALSE]
                IN  IF x.attempt = 3 THEN Next1(Put(x, [name |-> 0, ok |-> FALSE]))
                    ELSE [x EXCEPT !.attempt = @ + 1, !.pc = "next"])
    /\ UNCHANGED <<mail, parentVars, deaf, tolKilled>>
\* No cases left: the emulator is stopped and the process waits for its feeder.
TolStops(k) ==
    /\ crew[k].pc = "next" /\ crew[k].todo = <<>> /\ NowIs(k, [crew[k] EXCEPT !.pc = "ending", !.emu = FALSE])
    /\ UNCHANGED <<mail, parentVars, tolFaults, deaf, tolKilled>>
TolExit(k) ==
    /\ crew[k].pc = "ending" /\ crew[k].box = <<>> /\ NowIs(k, [crew[k] EXCEPT !.pc = "dead"])
    /\ UNCHANGED <<mail, parentVars, tolFaults, deaf, tolKilled>>
Feed(k) ==
    /\ Living(k) /\ crew[k].box # <<>> /\ mail' = Append(mail, Head(crew[k].box))
    /\ NowIs(k, [crew[k] EXCEPT !.box = Tail(@)]) /\ UNCHANGED <<parentVars, tolFaults, deaf, tolKilled>>
Killed(k) ==
    /\ Living(k) /\ TolFault /\ tolKilled' = tolKilled \cup {k}
    /\ NowIs(k, [crew[k] EXCEPT !.pc = "dead", !.box = <<>>]) /\ UNCHANGED <<mail, parentVars, deaf>>

----------------------------------------------------------------------------
\* run: while any worker lives or the queue is not empty, a get that waits a second
To(pc) == tolMain' = pc /\ UNCHANGED <<crew, verdict, tolFaults, deaf, tolKilled>>
AnyAlive == tolMain = "alive" /\ To(IF \E k \in TolWorkers : Living(k) THEN "get" ELSE "empty") /\ UNCHANGED mail
NotEmpty == tolMain = "empty" /\ To(IF mail = <<>> THEN "done" ELSE "get") /\ UNCHANGED mail
TolGet ==
    /\ tolMain = "get" /\ mail # <<>> /\ mail' = Tail(mail) /\ tolMain' = "alive"
    /\ verdict' = IF Head(mail).name = 0 THEN verdict
                  ELSE [verdict EXCEPT ![Head(mail).name] = IF Head(mail).ok THEN "accept" ELSE "refuse"]
    /\ UNCHANGED <<crew, tolFaults, deaf, tolKilled>>
\* (a mutant of GetTimesOut) The get waits for an answer without a limit.
GetWaits == tolMain = "get" /\ mail = <<>> /\ To("get") /\ UNCHANGED mail
GetTimesOut == tolMain = "get" /\ mail = <<>> /\ To("alive") /\ UNCHANGED mail

TolInit ==
    /\ crew = [k \in TolWorkers |-> [pc |-> "next", todo |-> Deal(k), attempt |-> 1, emu |-> FALSE, T |-> 0,
                               t_enter |-> 0, box |-> <<>>]]
    /\ mail = <<>> /\ tolMain = "alive" /\ verdict = [n \in 1..NCases |-> "not run"] /\ tolFaults = 0
    /\ deaf = {} /\ tolKilled = {}
ParentStep == AnyAlive \/ NotEmpty \/ TolGet \/ GetTimesOut
TolStep(k) == Boot(k) \/ Typed(k) \/ Enter(k) \/ Slice(k) \/ Verdict(k) \/ TolStops(k) \/ TolExit(k)
TolFinished == tolMain = "done" /\ UNCHANGED tolVars
TolNext == ParentStep \/ TolFinished \/ \E k \in TolWorkers : TolStep(k) \/ Feed(k) \/ Fails(k) \/ Killed(k)
TolSpec == TolInit /\ [][TolNext]_tolVars /\ WF_tolVars(ParentStep)
           /\ \A k \in TolWorkers : WF_tolVars(TolStep(k)) /\ WF_tolVars(Feed(k))

----------------------------------------------------------------------------
\* The report: a signal the ROM loads is accepted and one it does not is refused, never the
\* other way and never left out, but for a case whose ENTER was dropped, which is refused whatever
\* its signal is, and for one whose worker failed three times or was killed, which is not run.
ReportIsTrue ==
    /\ \A n \in 1..NCases :
         verdict[n] # "not run" => verdict[n] = IF Hears[n] /\ n \notin deaf THEN "accept" ELSE "refuse"
    /\ tolMain = "done" => \A n \in 1..NCases :
         verdict[n] = "not run" => tolFaults >= 3 \/ \E k \in tolKilled : n \in Range(Deal(k))

\* The comment in worker: a lost key is a harness failure, tried again on a new emulator; a
\* signal the ROM loads is not reported as refused for it.
LostKeysAreRetried == \A n \in 1..NCases : Hears[n] => verdict[n] # "refuse"

\* The run ends, and no emulator is left but a killed worker's.
TolEnded == tolMain = "done" /\ \A k \in TolWorkers : crew[k].emu => k \in tolKilled
=============================================================================
