------------------------------- MODULE Process -------------------------------
(***************************************************************************)
(* The SMT solver as a child process: run() (rumur/src/process.cc), which  *)
(* feeds a query to the child, collects what it prints and waits for it,   *)
(* and Solver::solve() (rumur/src/smt/solver.cc), which turns what was     *)
(* printed into a verdict and keeps to a budget of time.                   *)
(*                                                                         *)
(* Each system call is a step.  The child is any program that reads,       *)
(* writes and exits as it likes, a call of its own at a time; a read or a  *)
(* write blocks it as a pipe does.  When run() gives up early it neither   *)
(* kills its child nor waits for it: the child goes on by itself, finds    *)
(* its pipes closed, and outlives the call.  What it prints is one of      *)
(* Answers, in units smaller than a line.                                  *)
(*                                                                         *)
(*    pc          the parent is about to ...                               *)
(*    "idle"      be asked another query                                   *)
(*    "init"      set up the pipe and the handler for SIGCHLD              *)
(*    "actions"   initialise the file actions                              *)
(*    "pipes"     create the pipes         "spawn"   start the child       *)
(*    "select"    wait for an event        "clear"   clear notifications   *)
(*    "read"      read output              "write"   write input           *)
(*    "reap"      call waitpid             "close"   clean up ("done:")    *)
(*    "return"    go on with solve         "exhausted", "killed"   nothing *)
(***************************************************************************)
EXTENDS Naturals, Sequences

CONSTANTS
    InputSize,    \* bytes of a query
    PipeSize,     \* capacity of a pipe
    Answers,      \* what the solver may print, in units of Units
    MaxCalls,     \* bound: queries asked
    Budget,       \* options.smt.budget
    MaxTime       \* bound: the longest run of the solver

Units == {"un", "sat", "other", "newline"}

\* A query is never empty: solve writes "(set-option ...)" first.
ASSUME ProcessAssumption ==
    /\ InputSize \in Nat \ {0} /\ PipeSize \in Nat \ {0}
    /\ MaxCalls \in Nat /\ Budget \in Nat /\ MaxTime \in Nat
    /\ \A a \in Answers : a \in Seq(Units)

VARIABLES
    pc,
    inited,           \* the pipe and handler for SIGCHLD are set up
    notified,         \* there is a byte in sigchld_pipe
    pending,          \* a SIGCHLD has been sent and not been handled
    fds,              \* the ends of in and out the parent has open
    actions,          \* fa is initialised
    ready,            \* the descriptors select left in its sets
    input_offset, inpipe,          \* bytes written, bytes in the pipe
    outpipe, buffered_output,      \* units in the pipe, units read
    child,            \* the child of this call, until the next one starts
    orphans,          \* how many children of earlier calls are still running
    ret, result,      \* run's and solve's return values
    calls, time_used

vars == <<pc, inited, notified, pending, fds, actions, ready, input_offset, inpipe,
          outpipe, buffered_output, child, orphans, ret, result, calls, time_used>>
pipeVars == <<input_offset, inpipe, outpipe, buffered_output>>
solveVars == <<ret, result, calls, time_used>>

\* op is the call the child is in, heir: a process it started has its stdout too.
NoChild == [state |-> "none", op |-> "none", read |-> 0, eof |-> FALSE,
            answer |-> <<>>, written |-> 0, heir |-> FALSE]
Running == child.state = "running"

Init ==
    /\ pc = "idle"
    /\ inited = FALSE /\ notified = FALSE /\ pending = FALSE
    /\ fds = {} /\ actions = FALSE /\ ready = {}
    /\ input_offset = 0 /\ inpipe = 0 /\ outpipe = <<>> /\ buffered_output = <<>>
    /\ child = NoChild /\ orphans = 0
    /\ ret = 0 /\ result = "none" /\ calls = 0 /\ time_used = 0

-----------------------------------------------------------------------------
(***************************************************************************)
(* solve: before the run                                                   *)
(***************************************************************************)

Ask ==
    /\ pc = "idle" /\ calls < MaxCalls
    /\ IF time_used >= Budget
         THEN pc' = "exhausted" /\ calls' = calls
         ELSE pc' = (IF inited THEN "actions" ELSE "init") /\ calls' = calls + 1
    /\ result' = "none"
    /\ UNCHANGED <<inited, notified, pending, fds, actions, ready, pipeVars, child,
                   orphans, ret, time_used>>

-----------------------------------------------------------------------------
(***************************************************************************)
(* run: setting up                                                         *)
(***************************************************************************)

\* A call failed: run returns at once, or cleans up first.  The mistake: as if it
\* had succeeded.
BugFails(to) == pc' = to /\ ret' = 0
Fails(to) == pc' = to /\ ret' = 1

SetUpSignals ==
    /\ pc = "init"
    /\ \/ Fails("return") /\ inited' = FALSE
       \/ pc' = "actions" /\ inited' = TRUE /\ ret' = ret
    /\ UNCHANGED <<notified, pending, fds, actions, ready, pipeVars, child, orphans,
                   result, calls, time_used>>

\* A child that an earlier run left behind is not looked at from here on, but for
\* the signal its end will raise.
InitActions ==
    /\ pc = "actions"
    /\ \/ Fails("return") /\ actions' = FALSE
       \/ pc' = "pipes" /\ actions' = TRUE /\ ret' = ret
    /\ input_offset' = 0 /\ inpipe' = 0 /\ outpipe' = <<>> /\ buffered_output' = <<>>
    /\ child' = NoChild
    /\ orphans' = IF Running THEN orphans + 1 ELSE orphans
    /\ UNCHANGED <<inited, notified, pending, fds, ready, result, calls, time_used>>

\* One pipe, both or neither can be created; making them non-blocking and adding
\* them to the file actions can fail too.
MakePipes ==
    /\ pc = "pipes"
    /\ \/ /\ Fails("close")
          /\ fds' \in {{}, {"inR", "inW"}, {"inR", "inW", "outR", "outW"}}
       \/ pc' = "spawn" /\ fds' = {"inR", "inW", "outR", "outW"} /\ ret' = ret
    /\ UNCHANGED <<inited, notified, pending, actions, ready, pipeVars, child,
                   orphans, result, calls, time_used>>

Spawn ==
    /\ pc = "spawn"
    /\ \/ Fails("close") /\ UNCHANGED <<fds, child>>
       \/ /\ pc' = "select" /\ ret' = ret
          /\ fds' = fds \ {"inR", "outW"}
          /\ \E a \in Answers, heir \in BOOLEAN :
                child' = [NoChild EXCEPT !.state = "running", !.answer = a, !.heir = heir]
    /\ UNCHANGED <<inited, notified, pending, actions, ready, pipeVars, orphans,
                   result, calls, time_used>>

-----------------------------------------------------------------------------
(***************************************************************************)
(* run: the event loop                                                     *)
(***************************************************************************)

NoWriter == ~Running /\ ~child.heir
\* The room in the child's stdin.
Room == PipeSize - inpipe

\* The descriptors that are watched, and those that are ready.  The mistake:
\* SIGCHLD is not watched for.
Watched == {"outR", "chld"} \cup (fds \cap {"inW"})
BugReady == {d \in Watched : \/ d = "outR" /\ (outpipe # <<>> \/ NoWriter)
                             \/ d = "inW" /\ (Room > 0 \/ ~Running)}
Ready == {d \in Watched : \/ d = "outR" /\ (outpipe # <<>> \/ NoWriter)
                          \/ d = "chld" /\ notified
                          \/ d = "inW" /\ (Room > 0 \/ ~Running)}

Select ==
    /\ pc = "select"
    /\ Ready # {}
    /\ ready' = Ready
    /\ pc' = "clear"
    /\ UNCHANGED <<inited, notified, pending, fds, actions, pipeVars, child, orphans,
                   solveVars>>

\* The handler writes to sigchld_pipe.  If it interrupts select, that leaves its
\* sets as they were, with everything in them that was watched; it may run just
\* before select is entered, too.
HandleSignal ==
    /\ pending
    /\ pending' = FALSE /\ notified' = TRUE
    /\ \/ pc = "select" /\ pc' = "clear" /\ ready' = Watched
       \/ UNCHANGED <<pc, ready>>
    /\ UNCHANGED <<inited, fds, actions, pipeVars, child, orphans, solveVars>>

Clear ==
    /\ pc = "clear"
    /\ notified' = IF "chld" \in ready THEN FALSE ELSE notified
    /\ pc' = "read"
    /\ UNCHANGED <<inited, pending, fds, actions, ready, pipeVars, child, orphans,
                   solveVars>>

\* read is repeated until it finds nothing (EAGAIN) or the end of the output.
Read ==
    /\ pc = "read"
    /\ \/ /\ "outR" \in ready /\ outpipe # <<>>
          /\ buffered_output' = buffered_output \o outpipe
          /\ outpipe' = <<>>
          /\ UNCHANGED <<pc, ret>>
       \/ /\ "outR" \in ready
          /\ Fails("close")
          /\ UNCHANGED <<outpipe, buffered_output>>
       \/ /\ "outR" \in ready => outpipe = <<>>
          /\ pc' = "write"
          /\ UNCHANGED <<ret, outpipe, buffered_output>>
    /\ UNCHANGED <<inited, notified, pending, fds, actions, ready, input_offset,
                   inpipe, child, orphans, result, calls, time_used>>

\* The whole input has been written.  The mistake: all but a byte.
BugExhausted(offset) == offset + 1 >= InputSize
Exhausted(offset) == offset = InputSize

\* A part of the rest of the input, a full pipe, another error.  Writing when
\* nobody can read any more raises SIGPIPE, which is not caught.
Write ==
    /\ pc = "write"
    /\ LET due == {"inW"} \subseteq fds \cap ready /\ input_offset < InputSize
       IN  \/ /\ due /\ Running
              /\ \E w \in 1..Room :
                    /\ input_offset + w <= InputSize
                    /\ input_offset' = input_offset + w
                    /\ inpipe' = inpipe + w
                    /\ fds' = IF Exhausted(input_offset + w) THEN fds \ {"inW"} ELSE fds
              /\ pc' = "reap" /\ ret' = ret
           \/ /\ due /\ ~Running
              /\ pc' = "killed"
              /\ UNCHANGED <<input_offset, inpipe, fds, ret>>
           \/ /\ due /\ Fails("close")
              /\ UNCHANGED <<input_offset, inpipe, fds>>
           \/ /\ ~due \/ (Running /\ Room = 0)
              /\ pc' = "reap"
              /\ UNCHANGED <<input_offset, inpipe, fds, ret>>
    /\ UNCHANGED <<inited, notified, pending, actions, ready, outpipe, buffered_output,
                   child, orphans, result, calls, time_used>>

Reap ==
    /\ pc = "reap"
    /\ IF child.state = "zombie"
         THEN child' = [child EXCEPT !.state = "reaped"] /\ ret' = 0 /\ pc' = "close"
         ELSE pc' = "select" /\ UNCHANGED <<child, ret>>
    /\ UNCHANGED <<inited, notified, pending, fds, actions, ready, pipeVars, orphans,
                   result, calls, time_used>>

\* done: close what is open.  The mistake: only the ends used for the events.
BugClosed == {"inW", "outR"}
Closed == {"inR", "inW", "outR", "outW"}
Close ==
    /\ pc = "close"
    /\ fds' = fds \ Closed
    /\ actions' = FALSE
    /\ pc' = "return"
    /\ UNCHANGED <<inited, notified, pending, ready, pipeVars, child, orphans, solveVars>>

-----------------------------------------------------------------------------
(***************************************************************************)
(* solve: after the run                                                    *)
(***************************************************************************)

\* The first line that is "sat" or "unsat".  The mistake: a line that ends so.
Line(out, i, line) ==
    LET first == i - Len(line) + 1
    IN  /\ first >= 1 /\ SubSeq(out, first, i) = line
        /\ first = 1 \/ out[first - 1] = "newline"
        /\ i = Len(out) \/ out[i + 1] = "newline"
BugVerdict(out) ==
    IF \E i \in 1..Len(out) : out[i] = "sat" THEN "SAT" ELSE "INCONCLUSIVE"
Verdict(out) ==
    LET ends(line) == {i \in 1..Len(out) : Line(out, i, line)}
        unsat == ends(<<"un", "sat">>)
    IN  CASE \E i \in ends(<<"sat">>) : \A j \in unsat : i < j -> "SAT"
          [] \E j \in unsat : \A i \in ends(<<"sat">>) : j < i -> "UNSAT"
          [] OTHER -> "INCONCLUSIVE"

Return ==
    /\ pc = "return"
    /\ \E t \in 0..MaxTime : time_used' = time_used + t
    /\ result' = IF ret # 0 THEN "INCONCLUSIVE" ELSE Verdict(buffered_output)
    /\ ret' = 0
    /\ pc' = "idle"
    /\ UNCHANGED <<inited, notified, pending, fds, actions, ready, pipeVars, child,
                   orphans, calls>>

-----------------------------------------------------------------------------
(***************************************************************************)
(* The child, which runs from its start to its end whatever the parent     *)
(* does in the meantime.                                                   *)
(***************************************************************************)

parentVars == <<pc, inited, notified, fds, actions, ready, input_offset,
                buffered_output, orphans, solveVars>>

\* It makes up its mind what to do next.
ChildCalls ==
    /\ Running /\ child.op = "none"
    /\ \/ ~child.eof /\ child' = [child EXCEPT !.op = "read"]
       \/ child.written < Len(child.answer) /\ child' = [child EXCEPT !.op = "write"]
    /\ UNCHANGED <<parentVars, pending, inpipe, outpipe>>

\* What is in the pipe, or its end: nobody can write to it any more.
ChildReads ==
    /\ Running /\ child.op = "read"
    /\ \/ /\ inpipe > 0
          /\ child' = [child EXCEPT !.op = "none", !.read = @ + inpipe]
       \/ /\ inpipe = 0 /\ "inW" \notin fds
          /\ child' = [child EXCEPT !.op = "none", !.eof = TRUE]
    /\ inpipe' = 0
    /\ UNCHANGED <<parentVars, pending, outpipe>>

ChildWrites ==
    /\ Running /\ child.op = "write"
    /\ "outR" \in fds /\ Len(outpipe) < PipeSize
    /\ outpipe' = Append(outpipe, child.answer[child.written + 1])
    /\ child' = [child EXCEPT !.op = "none", !.written = @ + 1]
    /\ UNCHANGED <<parentVars, pending, inpipe>>

\* A write when the parent has closed its end fails: it raises SIGPIPE, which
\* ends the child unless the child ignores it.
ChildWriteFails ==
    /\ Running /\ child.op = "write"
    /\ "outR" \notin fds
    /\ \/ child' = [child EXCEPT !.op = "none"] /\ pending' = pending
       \/ child' = [child EXCEPT !.op = "none", !.state = "zombie"] /\ pending' = TRUE
    /\ UNCHANGED <<parentVars, inpipe, outpipe>>

ChildExits ==
    /\ Running /\ child.op = "none"
    /\ child' = [child EXCEPT !.state = "zombie"]
    /\ pending' = TRUE
    /\ UNCHANGED <<parentVars, inpipe, outpipe>>

\* A child of an earlier call, which failed, exits.
OrphanExits ==
    /\ orphans > 0
    /\ orphans' = orphans - 1 /\ pending' = TRUE
    /\ UNCHANGED <<pc, inited, notified, fds, actions, ready, pipeVars, child, solveVars>>

-----------------------------------------------------------------------------
Parent ==
    \/ Ask \/ SetUpSignals \/ InitActions \/ MakePipes \/ Spawn
    \/ Select \/ Clear \/ Read \/ Write \/ Reap \/ Close \/ Return
ChildStep == ChildCalls \/ ChildReads \/ ChildWrites \/ ChildWriteFails \/ ChildExits

\* The end of everything: a step that keeps a finished run from being a deadlock.
Finished ==
    /\ pc \in {"exhausted", "killed"} \/ (pc = "idle" /\ calls = MaxCalls)
    /\ UNCHANGED vars

Next == Parent \/ HandleSignal \/ ChildStep \/ OrphanExits \/ Finished

Spec == Init /\ [][Next]_vars
\* The scheduler runs both processes and delivers signals.
FairSpec == Spec /\ WF_vars(Parent) /\ WF_vars(HandleSignal) /\ WF_vars(ChildStep)

-----------------------------------------------------------------------------
(***************************************************************************)
(* Properties                                                              *)
(***************************************************************************)

InLoop == pc \in {"select", "clear", "read", "write", "reap"}

\* The child has seen the end of its input and not the end of the query.
CutShort == child.eof /\ child.read < InputSize

\* A solver is given the end of its input before the end of the query only when its
\* run has failed and is over ("done:" closes the pipe of a child that lives on):
\* never in the event loop, however the writes are cut up, and never in a run that
\* returns success; and what it makes of its part of the query is no verdict.
WholeOrFailed ==
    CutShort => /\ ~InLoop
                /\ pc \in {"close", "return"} => ret = 1
                /\ result \notin {"SAT", "UNSAT"}

\* Whatever fails, and whenever, run leaves no descriptor open and no file actions
\* behind: a long simplification makes many runs.
NothingLeaks ==
    pc \in {"idle", "return", "exhausted"} => fds = {} /\ ~actions

\* The lines solve looks for.  No answer, cut short, ends in one of them that is not
\* in the whole answer.
Says(answer, line) == \E i \in 1..Len(answer) : Line(answer, i, line)
Lines == {<<"sat">>, <<"un", "sat">>}
CutsHarmless ==
    \A answer \in Answers, line \in Lines :
        \A n \in 0..Len(answer) : Says(SubSeq(answer, 1, n), line) => Says(answer, line)

\* A verdict is what the solver said, though the output may have been cut short: a
\* query is never taken for refuted unless the solver said so.
VerdictSound ==
    pc = "idle" => /\ result = "SAT" => Says(child.answer, <<"sat">>)
                   /\ result = "UNSAT" => Says(child.answer, <<"un", "sat">>)

\* A run comes to an end when the solver does, even if the solver leaves a process
\* behind that keeps the pipe open: no event is missed and nobody waits for the other.
RunReturns == (pc = "select") ~> (pc \in {"idle", "exhausted", "killed"})

\* What the solver wrote to its stdout before it exited is in output (the comment
\* on run() in process.h).
OutputComplete ==
    (pc = "close" /\ ret = 0) => buffered_output = SubSeq(child.answer, 1, child.written)

\* The solver may fail or crash as it wants to (the comment in run()).
SurvivesSolver == pc # "killed"
=============================================================================
