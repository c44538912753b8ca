---------------------------- MODULE ProcessProofs ----------------------------
(***************************************************************************)
(* What run() owes the solver and its caller, for queries, pipes and       *)
(* answers of any size and any number of calls: the solver is given the    *)
(* whole query before its input ends unless its run has failed, in which   *)
(* case nothing is made of what it says, and nothing stays open.           *)
(***************************************************************************)
EXTENDS Process, TLAPS

Ends == {"inR", "inW", "outR", "outW"}
Labels ==
    {"idle", "init", "actions", "pipes", "spawn", "select", "clear", "read", "write",
     "reap", "close", "return", "exhausted", "killed"}
Children ==
    [state : {"none", "running", "zombie", "reaped"}, op : {"none", "read", "write"},
     read : Nat, eof : BOOLEAN, answer : Seq(Units), written : Nat, heir : BOOLEAN]

\* The types of what the properties depend on.
ProcessTypeOK ==
    /\ pc \in Labels
    /\ fds \in SUBSET Ends
    /\ actions \in BOOLEAN
    /\ input_offset \in Nat /\ inpipe \in Nat
    /\ child \in Children
    /\ ret \in {0, 1}

\* Every byte written is in the pipe or has been read.
BytesAccounted == input_offset = child.read + inpipe /\ input_offset <= InputSize

\* The end of the pipe is closed only when there is nothing left to write, or
\* when the child is not looked after any more.
OpenWhileDue == (pc = "spawn" \/ InLoop) /\ "inW" \notin fds => Exhausted(input_offset)

\* Nothing is open before it is needed or after the clean-up.
OpenInRun ==
    pc \in {"idle", "init", "actions", "return", "exhausted"} => fds = {} /\ ~actions

\* A run starts with nothing written: the counters of the last one are reset, and
\* its child is not looked at any more.
FreshBeforeSpawn ==
    pc \in {"pipes", "spawn"} => input_offset = 0 /\ inpipe = 0 /\ child.state = "none"

\* A run that succeeds has waited for its child, and only such a run is followed
\* by a verdict.
WaitedFor ==
    /\ pc \in {"close", "return"} /\ ret = 0 => ~Running
    /\ result \in {"SAT", "UNSAT"} => pc = "idle" /\ ~Running

\* WholeOrFailed is not inductive: what a child has read by the end of its input
\* in the loop is the whole query because what is in the pipe and what was closed
\* account for the rest, and once the loop is over only a child that was not waited
\* for can still come to that end.
ProcessInv ==
    /\ ProcessTypeOK
    /\ BytesAccounted /\ OpenWhileDue /\ FreshBeforeSpawn /\ OpenInRun
    /\ WaitedFor /\ WholeOrFailed

-----------------------------------------------------------------------------

LEMMA NoChildFresh ==
    /\ NoChild \in Children /\ NoChild.state = "none"
    /\ NoChild.read = 0 /\ NoChild.eof = FALSE
<1>1. <<>> \in Seq(Units)
  OBVIOUS
<1>. QED
  BY <1>1 DEF NoChild, Children

LEMMA ProcessInvInit == Init => ProcessInv
<1>. SUFFICES ASSUME Init PROVE ProcessInv
  OBVIOUS
<1>. USE ProcessAssumption, NoChildFresh DEF Init
<1>1. ProcessTypeOK
  BY DEF ProcessTypeOK, Labels, Ends
<1>2. BytesAccounted
  BY DEF BytesAccounted
<1>3. OpenWhileDue /\ FreshBeforeSpawn
  BY DEF OpenWhileDue, FreshBeforeSpawn, InLoop
<1>4. OpenInRun
  BY DEF OpenInRun
<1>5. WaitedFor /\ WholeOrFailed
  BY DEF WaitedFor, Running, WholeOrFailed, CutShort
<1>. QED
  BY <1>1, <1>2, <1>3, <1>4, <1>5 DEF ProcessInv

LEMMA InitActionsKeepsInv == ProcessInv /\ InitActions => ProcessInv'
<1>. SUFFICES ASSUME ProcessInv, InitActions PROVE ProcessInv'
  OBVIOUS
<1>. USE ProcessAssumption, NoChildFresh DEF InitActions, Fails, ProcessInv
<1>1. ProcessTypeOK'
  BY DEF ProcessTypeOK, Labels
<1>2. BytesAccounted'
  BY DEF BytesAccounted
<1>3. OpenWhileDue' /\ FreshBeforeSpawn'
  BY DEF OpenWhileDue, FreshBeforeSpawn, InLoop
<1>4. OpenInRun'
  BY DEF OpenInRun
<1>5. WaitedFor' /\ WholeOrFailed'
  BY DEF WaitedFor, Running, WholeOrFailed, CutShort
<1>. QED
  BY <1>1, <1>2, <1>3, <1>4, <1>5

LEMMA SetUpKeepsInv ==
    ProcessInv /\ (Ask \/ SetUpSignals \/ MakePipes) => ProcessInv'
<1>. USE ProcessAssumption
     DEF ProcessInv, ProcessTypeOK, Labels, Ends, pipeVars, InLoop, BytesAccounted,
         OpenWhileDue, FreshBeforeSpawn, OpenInRun, WaitedFor, Running, WholeOrFailed, CutShort
<1>1. ProcessInv /\ Ask => ProcessInv'
  BY DEF Ask
<1>2. ProcessInv /\ SetUpSignals => ProcessInv'
  BY DEF SetUpSignals, Fails
<1>3. ProcessInv /\ MakePipes => ProcessInv'
  BY DEF MakePipes, Fails
<1>. QED
  BY <1>1, <1>2, <1>3

LEMMA SpawnKeepsInv == ProcessInv /\ Spawn => ProcessInv'
<1>. SUFFICES ASSUME ProcessInv, Spawn PROVE ProcessInv'
  OBVIOUS
<1>. USE ProcessAssumption DEF ProcessInv, ProcessTypeOK, Labels, pipeVars, InLoop
<1>1. /\ pc = "spawn" /\ input_offset' = input_offset /\ inpipe' = inpipe
      /\ actions' = actions /\ result' = result
  BY DEF Spawn
<1>2. CASE Fails("close") /\ UNCHANGED <<fds, child>>
  BY <1>1, <1>2
  DEF Fails, BytesAccounted, OpenWhileDue, FreshBeforeSpawn, OpenInRun, WaitedFor, Running,
      WholeOrFailed, CutShort
<1>3. CASE pc' = "select"
  <2>1. PICK a \in Answers, heir \in BOOLEAN :
            child' = [NoChild EXCEPT !.state = "running", !.answer = a, !.heir = heir]
    BY <1>3 DEF Spawn, Fails
  <2>2. child' \in Children /\ child'.read = 0 /\ ~child'.eof
    BY <2>1, NoChildFresh DEF Children
  <2>3. fds' = fds \ {"inR", "outW"} /\ ret' = ret
    BY <1>3 DEF Spawn, Fails
  <2>. QED
    BY <1>1, <1>3, <2>2, <2>3
    DEF Ends, BytesAccounted, OpenWhileDue, FreshBeforeSpawn, OpenInRun, WaitedFor, Running,
        WholeOrFailed, CutShort
<1>. QED
  BY <1>2, <1>3 DEF Spawn

-----------------------------------------------------------------------------

\* The loop does not look at the child's answer, and leaves the child alone but
\* for waiting for it: that is how it ends in success.
LEMMA LoopKeepsInv ==
    ProcessInv /\ (Select \/ Clear \/ Read \/ Reap \/ Close \/ Return) => ProcessInv'
<1>. USE ProcessAssumption
     DEF ProcessInv, ProcessTypeOK, Labels, Ends, pipeVars, solveVars, InLoop, BytesAccounted,
         OpenWhileDue, FreshBeforeSpawn, OpenInRun, WaitedFor, Running, WholeOrFailed, CutShort
<1>1. ProcessInv /\ Select => ProcessInv'
  BY DEF Select
<1>2. ProcessInv /\ Clear => ProcessInv'
  BY DEF Clear
<1>3. ProcessInv /\ Read => ProcessInv'
  BY DEF Read, Fails
<1>4. ProcessInv /\ Reap => ProcessInv'
  <2>. SUFFICES ASSUME ProcessInv, Reap PROVE ProcessInv'
    OBVIOUS
  <2>1. /\ child' \in Children /\ child'.read = child.read /\ child'.eof = child.eof
        /\ child' = child \/ child'.state = "reaped"
    BY DEF Reap, Children
  <2>. QED
    BY <2>1 DEF Reap
<1>5. ProcessInv /\ Close => ProcessInv'
  BY DEF Close, Closed
<1>6. ProcessInv /\ Return => ProcessInv'
  BY DEF Return
<1>. QED
  BY <1>1, <1>2, <1>3, <1>4, <1>5, <1>6

LEMMA WriteKeepsInv == ProcessInv /\ Write => ProcessInv'
<1>. SUFFICES ASSUME ProcessInv, Write PROVE ProcessInv'
  OBVIOUS
<1>. USE ProcessAssumption
     DEF ProcessInv, ProcessTypeOK, Labels, Ends, InLoop, BytesAccounted, OpenWhileDue,
         FreshBeforeSpawn, OpenInRun, WaitedFor, Running, WholeOrFailed, CutShort
<1>1. pc = "write" /\ actions' = actions /\ child' = child /\ result' = result
  BY DEF Write
<1>2. ASSUME \/ pc' \in {"reap", "killed"} /\ ret' = ret
             \/ pc' = "close" /\ ret' = 1,
             UNCHANGED <<input_offset, inpipe, fds>>
      PROVE  ProcessInv'
  BY <1>1, <1>2
<1>3. ASSUME pc' = "reap", ret' = ret, NEW w \in 1..Room, input_offset + w <= InputSize,
             input_offset < InputSize, input_offset' = input_offset + w,
             inpipe' = inpipe + w,
             fds' = IF Exhausted(input_offset + w) THEN fds \ {"inW"} ELSE fds
      PROVE  ProcessInv'
  <2>1. w \in Nat /\ child.read \in Nat
    BY DEF Room, Children
  <2>2. ~CutShort /\ child.eof' = child.eof /\ child.read' = child.read
    BY <1>1
  <2>3. input_offset' \in Nat /\ inpipe' \in Nat
    BY <1>3, <2>1
  <2>4. BytesAccounted'
    BY <1>1, <1>3, <2>1
  <2>5. OpenWhileDue'
    BY <1>1, <1>3 DEF Exhausted
  <2>. QED
    BY <1>1, <1>3, <2>2, <2>3, <2>4, <2>5
<1>. QED
  BY <1>2, <1>3 DEF Write, Fails

\* The child runs in the loop, and after a run that has failed.
LEMMA ChildRunsWhen ==
    ASSUME ProcessInv, Running
    PROVE  /\ pc \notin {"pipes", "spawn"}
           /\ pc \in {"close", "return"} => ret = 1
           /\ result \notin {"SAT", "UNSAT"}
BY DEF ProcessInv, ProcessTypeOK, FreshBeforeSpawn, WaitedFor, Running

LEMMA ChildKeepsInv == ProcessInv /\ ChildStep => ProcessInv'
<1>. SUFFICES ASSUME ProcessInv, ChildStep PROVE ProcessInv'
  OBVIOUS
<1>. USE ProcessAssumption DEF ProcessInv
<1>1. UNCHANGED <<pc, fds, actions, input_offset, ret, result>> /\ Running
  BY DEF ChildStep, ChildCalls, ChildReads, ChildWrites, ChildWriteFails, ChildExits,
         parentVars, solveVars
<1>2. child.read \in Nat /\ inpipe \in Nat
  BY DEF ProcessTypeOK, Children
\* It is enough that the bytes are accounted for and that no query is cut short in
\* the loop.
<1>3. ASSUME child' \in Children, inpipe' \in Nat, BytesAccounted', CutShort' => ~InLoop
      PROVE  ProcessInv'
  <2>1. ProcessTypeOK' /\ OpenWhileDue' /\ OpenInRun'
    BY <1>1, <1>3 DEF ProcessTypeOK, OpenWhileDue, InLoop, OpenInRun
  <2>2. FreshBeforeSpawn' /\ WaitedFor' /\ WholeOrFailed'
    BY <1>1, <1>3, ChildRunsWhen
    DEF ProcessTypeOK, FreshBeforeSpawn, WaitedFor, WholeOrFailed, InLoop
  <2>. QED
    BY <1>3, <2>1, <2>2
<1>4. ASSUME inpipe' = inpipe, child' \in Children, child'.read = child.read, child'.eof = child.eof
      PROVE  ProcessInv'
  BY <1>1, <1>2, <1>3, <1>4 DEF BytesAccounted, WholeOrFailed, CutShort
<1>5. CASE ChildCalls
  <2>1. PICK o \in {"read", "write"} : child' = [child EXCEPT !.op = o]
    BY <1>5 DEF ChildCalls
  <2>2. child' \in Children /\ child'.read = child.read /\ child'.eof = child.eof
    BY <2>1 DEF ProcessTypeOK, Children
  <2>. QED
    BY <1>4, <1>5, <2>2 DEF ChildCalls
<1>6. CASE ChildReads
  <2>0. inpipe' = 0
    BY <1>6 DEF ChildReads
  <2>1. CASE inpipe > 0 /\ child' = [child EXCEPT !.op = "none", !.read = @ + inpipe]
    <3>0. child.read + inpipe \in Nat
      BY <1>2
    <3>1. child' \in Children /\ child'.read = child.read + inpipe /\ child'.eof = child.eof
      BY <2>1, <3>0 DEF ProcessTypeOK, Children
    \* In the loop a child that has seen the end has been given everything.
    <3>2. CutShort' => ~InLoop
      BY <1>2, <2>1, <3>1 DEF WholeOrFailed, CutShort, BytesAccounted
    <3>. QED
      BY <1>1, <1>2, <1>3, <2>0, <3>1, <3>2 DEF BytesAccounted
  <2>2. CASE /\ inpipe = 0 /\ "inW" \notin fds
             /\ child' = [child EXCEPT !.op = "none", !.eof = TRUE]
    <3>1. child' \in Children /\ child'.read = child.read
      BY <2>2 DEF ProcessTypeOK, Children
    <3>2. InLoop => child.read = InputSize
      BY <1>2, <2>2 DEF BytesAccounted, OpenWhileDue, Exhausted
    <3>3. CutShort' => ~InLoop
      BY <3>1, <3>2 DEF CutShort
    <3>. QED
      BY <1>1, <1>2, <1>3, <2>0, <2>2, <3>1, <3>3 DEF BytesAccounted
  <2>. QED
    BY <1>6, <2>1, <2>2 DEF ChildReads
<1>7. CASE ChildWrites
  <2>1. child \in Children /\ child.written + 1 \in Nat
    BY DEF ProcessTypeOK, Children
  <2>2. child' = [child EXCEPT !.op = "none", !.written = child.written + 1]
    BY <1>7 DEF ChildWrites
  <2>3. child' \in Children /\ child'.read = child.read /\ child'.eof = child.eof
    BY <2>1, <2>2 DEF Children
  <2>. QED
    BY <1>4, <1>7, <2>3 DEF ChildWrites
<1>8. CASE ChildWriteFails
  <2>1. child' \in Children /\ child'.read = child.read /\ child'.eof = child.eof
    BY <1>8 DEF ChildWriteFails, ProcessTypeOK, Children
  <2>. QED
    BY <1>4, <1>8, <2>1 DEF ChildWriteFails
<1>9. CASE ChildExits
  <2>1. child' \in Children /\ child'.read = child.read /\ child'.eof = child.eof
    BY <1>9 DEF ChildExits, ProcessTypeOK, Children
  <2>. QED
    BY <1>4, <1>9, <2>1 DEF ChildExits
<1>. QED
  BY <1>5, <1>6, <1>7, <1>8, <1>9 DEF ChildStep

LEMMA ProcessInvStep == ProcessInv /\ [Next]_vars => ProcessInv'
<1>. SUFFICES ASSUME ProcessInv, [Next]_vars PROVE ProcessInv'
  OBVIOUS
<1>1. CASE Parent
  BY <1>1, SetUpKeepsInv, InitActionsKeepsInv, SpawnKeepsInv, LoopKeepsInv, WriteKeepsInv
  DEF Parent
<1>2. CASE HandleSignal
  BY <1>2
  DEF HandleSignal, pipeVars, solveVars, ProcessInv, ProcessTypeOK, Labels, BytesAccounted,
      OpenWhileDue, InLoop, FreshBeforeSpawn, OpenInRun, WaitedFor, Running, WholeOrFailed, CutShort
<1>3. CASE ChildStep
  BY <1>3, ChildKeepsInv
<1>4. CASE OrphanExits \/ UNCHANGED vars
  BY <1>4
  DEF OrphanExits, vars, pipeVars, solveVars, ProcessInv, ProcessTypeOK, BytesAccounted,
      OpenWhileDue, InLoop, FreshBeforeSpawn, OpenInRun, WaitedFor, Running, WholeOrFailed, CutShort
<1>. QED
  BY <1>1, <1>2, <1>3, <1>4 DEF Next, Finished

LEMMA ProcessInvariant == Spec => []ProcessInv
  BY ProcessInvInit, ProcessInvStep, PTL DEF Spec

-----------------------------------------------------------------------------

\* run() closes the child's input when the whole query is written and not before,
\* however many bytes each write takes, until a call fails; then a solver that lives
\* on may come to the end of a part of the query, run() has failed, and solve()
\* makes no verdict of it: of any length, through a pipe of any size.
THEOREM ProcessWholeOrFailed == Spec => []WholeOrFailed
<1>1. ProcessInv => WholeOrFailed
  BY DEF ProcessInv
<1>. QED
  BY <1>1, ProcessInvariant, PTL

\* Whichever call fails ("done:" is reached from all of them), run() returns with
\* no descriptor open and no file actions left, in each of any number of calls.
THEOREM ProcessClosesAll == Spec => []NothingLeaks
<1>1. ProcessInv => NothingLeaks
  BY DEF ProcessInv, OpenInRun, NothingLeaks
<1>. QED
  BY <1>1, ProcessInvariant, PTL

-----------------------------------------------------------------------------
(***************************************************************************)
(* The verdict.                                                            *)
(***************************************************************************)

\* What was read and what is still in the pipe is what the child has written.
OutputAccounted ==
    /\ buffered_output \in Seq(Units) /\ outpipe \in Seq(Units)
    /\ child.written \in 0..Len(child.answer)
    /\ child.op = "write" => child.written < Len(child.answer)
    /\ buffered_output \o outpipe = SubSeq(child.answer, 1, child.written)
    /\ child.answer \in Answers \cup {<<>>}

\* A run starts with no output of the last one.
SilentBeforeSpawn == pc \in {"pipes", "spawn"} => buffered_output = <<>> /\ outpipe = <<>>

\* A verdict is what the child said by some point.
Heard(line) == \E n \in 0..Len(child.answer) : Says(SubSeq(child.answer, 1, n), line)
VerdictHeard ==
    pc = "idle" => /\ result = "SAT" => Heard(<<"sat">>)
                   /\ result = "UNSAT" => Heard(<<"un", "sat">>)

OutputInv == ProcessInv /\ OutputAccounted /\ SilentBeforeSpawn /\ VerdictHeard

LEMMA PrefixOfWhole ==
    ASSUME NEW a \in Seq(Units), NEW b \in Seq(Units), NEW c \in Seq(Units),
           NEW w \in 0..Len(c), a \o b = SubSeq(c, 1, w)
    PROVE  Len(a) \in 0..Len(c) /\ a = SubSeq(c, 1, Len(a))
<1>1. Len(c) \in Nat /\ Len(a) \in Nat /\ Len(b) \in Nat
  OBVIOUS
<1>2. Len(SubSeq(c, 1, w)) = w /\ \A i \in 1..w : SubSeq(c, 1, w)[i] = c[i]
  BY <1>1
<1>3. Len(a) + Len(b) = w
  BY <1>2
<1>4. Len(a) \in 0..Len(c)
  BY <1>1, <1>3
<1>5. ASSUME NEW i \in 1..Len(a) PROVE a[i] = c[i]
  <2>1. (a \o b)[i] = a[i]
    BY <1>1, <1>5
  <2>2. i \in 1..w
    BY <1>1, <1>3
  <2>. QED
    BY <1>2, <2>1, <2>2
<1>6. /\ SubSeq(c, 1, Len(a)) \in Seq(Units) /\ Len(SubSeq(c, 1, Len(a))) = Len(a)
      /\ \A i \in 1..Len(a) : SubSeq(c, 1, Len(a))[i] = c[i]
  BY <1>1, <1>4
<1>7. a = SubSeq(c, 1, Len(a))
  BY <1>5, <1>6
<1>. QED
  BY <1>4, <1>7

LEMMA ConcatAppend ==
    ASSUME NEW a \in Seq(Units), NEW b \in Seq(Units), NEW x \in Units
    PROVE  a \o Append(b, x) = Append(a \o b, x)
<1>1. PICK l, r : l = a \o Append(b, x) /\ r = Append(a \o b, x)
  OBVIOUS
<1>2. l \in Seq(Units) /\ r \in Seq(Units) /\ Len(l) = Len(a) + Len(b) + 1 /\ Len(r) = Len(l)
  BY <1>1
<1>3. ASSUME NEW i \in 1..Len(l) PROVE l[i] = r[i]
  <2>1. CASE i <= Len(a)
    BY <1>1, <1>2, <2>1
  <2>2. CASE i > Len(a) /\ i <= Len(a) + Len(b)
    BY <1>1, <1>2, <2>2
  <2>3. CASE i = Len(a) + Len(b) + 1
    BY <1>1, <1>2, <2>3
  <2>. QED
    BY <1>2, <2>1, <2>2, <2>3
<1>4. l = r
  BY <1>2, <1>3
<1>. QED
  BY <1>1, <1>4

LEMMA OutputInvInit == Init => OutputInv
<1>. SUFFICES ASSUME Init PROVE OutputInv
  OBVIOUS
<1>1. child = NoChild /\ child.answer = <<>> /\ child.written = 0 /\ result = "none"
  BY DEF Init, NoChild
<1>2. <<>> \in Seq(Units) /\ SubSeq(<<>>, 1, 0) = <<>> /\ <<>> \o <<>> = <<>> /\ Len(<<>>) = 0
  OBVIOUS
<1>3. child.op = "none"
  BY DEF Init, NoChild
<1>4. OutputAccounted
  BY <1>1, <1>2, <1>3 DEF Init, OutputAccounted
<1>. QED
  BY <1>1, <1>4, ProcessInvInit DEF Init, OutputInv, SilentBeforeSpawn, VerdictHeard

\* Steps that leave output and child alone.
LEMMA OutputKept ==
    ASSUME OutputInv, ProcessInv', UNCHANGED <<outpipe, buffered_output>>,
           child'.answer = child.answer, child'.written = child.written,
           child'.op = "write" => child.written < Len(child.answer),
           pc' \in {"pipes", "spawn"} => pc \in {"pipes", "spawn"},
           pc' = "idle" => pc = "idle" /\ result' = result
    PROVE  OutputInv'
BY DEF OutputInv, OutputAccounted, SilentBeforeSpawn, VerdictHeard, Heard, Says

LEMMA ReadKeepsOutput == OutputInv /\ ProcessInv' /\ Read => OutputInv'
<1>. SUFFICES ASSUME OutputInv, ProcessInv', Read PROVE OutputInv'
  OBVIOUS
<1>1. /\ pc = "read" /\ pc' \in {"read", "close", "write"} /\ child' = child
  BY DEF Read, Fails
<1>2. CASE UNCHANGED <<outpipe, buffered_output>>
  BY <1>1, <1>2, OutputKept DEF OutputInv, OutputAccounted
<1>3. CASE buffered_output' = buffered_output \o outpipe /\ outpipe' = <<>>
  <2>1. buffered_output \in Seq(Units) /\ outpipe \in Seq(Units)
    BY DEF OutputInv, OutputAccounted
  <2>2. (buffered_output \o outpipe) \o <<>> = buffered_output \o outpipe
    BY <2>1
  <2>3. buffered_output' \in Seq(Units) /\ outpipe' \in Seq(Units)
    BY <1>3, <2>1
  <2>4. OutputAccounted'
    BY <1>1, <1>3, <2>2, <2>3 DEF OutputInv, OutputAccounted
  <2>. QED
    BY <1>1, <2>4 DEF OutputInv, SilentBeforeSpawn, VerdictHeard
<1>. QED
  BY <1>2, <1>3 DEF Read

LEMMA ChildKeepsOutput == OutputInv /\ ProcessInv' /\ ChildStep => OutputInv'
<1>. SUFFICES ASSUME OutputInv, ProcessInv', ChildStep PROVE OutputInv'
  OBVIOUS
<1>0. /\ pc' = pc /\ result' = result /\ buffered_output' = buffered_output
      /\ Running
  BY DEF ChildStep, ChildCalls, ChildReads, ChildWrites, ChildWriteFails, ChildExits,
         parentVars, solveVars
<1>1. /\ pc' = pc /\ result' = result /\ buffered_output' = buffered_output
      /\ pc \notin {"pipes", "spawn"} /\ result \notin {"SAT", "UNSAT"}
  BY <1>0, ChildRunsWhen DEF OutputInv
<1>2. child \in Children
  BY DEF OutputInv, ProcessInv, ProcessTypeOK
<1>3. CASE /\ outpipe' = outpipe
           /\ child'.answer = child.answer /\ child'.written = child.written
           /\ child'.op = "write" => child.written < Len(child.answer)
  BY <1>1, <1>3, OutputKept
<1>4. CASE ChildWrites
  <2>1. PICK a : a = child.answer
    OBVIOUS
  <2>2. PICK w : w = child.written
    OBVIOUS
  <2>3. /\ a \in Seq(Units) /\ w \in 0..Len(a) /\ a \in Answers \cup {<<>>}
        /\ outpipe \in Seq(Units) /\ buffered_output \in Seq(Units)
        /\ buffered_output \o outpipe = SubSeq(a, 1, w)
    BY <1>2, <2>1, <2>2 DEF Children, OutputInv, OutputAccounted
  <2>4. child.op = "write" /\ outpipe' = Append(outpipe, a[w + 1])
    BY <1>4, <2>1, <2>2 DEF ChildWrites
  <2>5. child' = [child EXCEPT !.op = "none", !.written = w + 1]
    BY <1>4, <2>2 DEF ChildWrites
  <2>6. child'.answer = a /\ child'.written = w + 1 /\ child'.op = "none"
    BY <1>2, <2>1, <2>5 DEF Children
  <2>7. w < Len(a)
    BY <2>1, <2>2, <2>4 DEF OutputInv, OutputAccounted
  <2>8. w + 1 \in 1..Len(a) /\ a[w + 1] \in Units
    BY <2>3, <2>7
  <2>9. outpipe' \in Seq(Units)
    BY <2>3, <2>4, <2>8
  <2>10. buffered_output \o Append(outpipe, a[w+1]) = Append(buffered_output \o outpipe, a[w+1])
    BY <2>3, <2>8, ConcatAppend
  <2>11. Append(SubSeq(a, 1, w), a[w+1]) = SubSeq(a, 1, w + 1)
    BY <2>3, <2>8
  <2>12. OutputAccounted'
    BY <1>1, <2>3, <2>4, <2>6, <2>8, <2>9, <2>10, <2>11 DEF OutputAccounted
  <2>. QED
    BY <1>1, <2>12 DEF OutputInv, SilentBeforeSpawn, VerdictHeard
<1>5. CASE ChildCalls
  <2>1. CASE child' = [child EXCEPT !.op = "read"]
    BY <1>2, <1>3, <1>5, <2>1 DEF ChildCalls, Children
  <2>2. CASE child.written < Len(child.answer) /\ child' = [child EXCEPT !.op = "write"]
    BY <1>2, <1>3, <1>5, <2>2 DEF ChildCalls, Children
  <2>. QED
    BY <1>5, <2>1, <2>2 DEF ChildCalls
<1>6. CASE ChildReads
  <2>1. /\ outpipe' = outpipe /\ child'.op = "none"
        /\ child'.answer = child.answer /\ child'.written = child.written
    BY <1>2, <1>6 DEF ChildReads, Children
  <2>. QED
    BY <1>3, <2>1
<1>7. CASE ChildExits \/ ChildWriteFails
  <2>1. /\ outpipe' = outpipe /\ child'.op = "none"
        /\ child'.answer = child.answer /\ child'.written = child.written
    BY <1>2, <1>7 DEF ChildExits, ChildWriteFails, Children
  <2>. QED
    BY <1>3, <2>1
<1>. QED
  BY <1>4, <1>5, <1>6, <1>7 DEF ChildStep

LEMMA ParentKeepsOutput == OutputInv /\ ProcessInv' /\ Parent => OutputInv'
<1>. SUFFICES ASSUME OutputInv, ProcessInv', Parent PROVE OutputInv'
  OBVIOUS
<1>. USE DEF pipeVars, solveVars
<1>0. child \in Children /\ (child.op = "write" => child.written < Len(child.answer))
  BY DEF OutputInv, ProcessInv, ProcessTypeOK, OutputAccounted
<1>1. CASE Ask
  <2>1. CASE pc' = "exhausted" \/ pc' = "actions" \/ pc' = "init"
    BY <1>0, <1>1, <2>1, OutputKept DEF Ask
  <2>. QED
    BY <1>1, <2>1 DEF Ask
<1>2. CASE SetUpSignals
  BY <1>0, <1>2, OutputKept DEF SetUpSignals, Fails
<1>3. CASE InitActions
  <2>1. /\ buffered_output' = <<>> /\ outpipe' = <<>> /\ child' = NoChild
        /\ pc' # "idle"
    BY <1>3 DEF InitActions, Fails
  <2>2. child'.answer = <<>> /\ child'.written = 0 /\ child'.op = "none"
    BY <2>1 DEF NoChild
  <2>3. OutputAccounted'
    BY <2>1, <2>2 DEF OutputAccounted
  <2>. QED
    BY <2>1, <2>3 DEF OutputInv, SilentBeforeSpawn, VerdictHeard
<1>4. CASE MakePipes
  BY <1>0, <1>4, OutputKept DEF MakePipes, Fails
<1>5. CASE Spawn
  <2>1. CASE child' = child
    BY <1>0, <1>5, <2>1, OutputKept DEF Spawn, Fails
  <2>2. CASE pc' = "select"
    <3>1. PICK a \in Answers, heir \in BOOLEAN :
              child' = [NoChild EXCEPT !.state = "running", !.answer = a, !.heir = heir]
      BY <1>5, <2>2 DEF Spawn, Fails
    <3>2. child'.answer = a /\ child'.written = 0 /\ child'.op = "none" /\ a \in Seq(Units)
      BY <3>1, ProcessAssumption DEF NoChild
    <3>3. buffered_output' = <<>> /\ outpipe' = <<>>
      BY <1>5 DEF Spawn, OutputInv, SilentBeforeSpawn
    <3>4. OutputAccounted'
      BY <3>2, <3>3 DEF OutputAccounted
    <3>. QED
      BY <2>2, <3>4 DEF OutputInv, SilentBeforeSpawn, VerdictHeard
  <2>. QED
    BY <1>5, <2>1, <2>2 DEF Spawn
<1>6. CASE Select \/ Clear
  BY <1>0, <1>6, OutputKept DEF Select, Clear
<1>7. CASE Read
  BY <1>7, ReadKeepsOutput
<1>8. CASE Write
  BY <1>0, <1>8, OutputKept DEF Write, Fails
<1>9. CASE Reap
  <2>1. /\ child'.answer = child.answer /\ child'.written = child.written
        /\ child'.op = child.op
    BY <1>0, <1>9 DEF Reap, Children
  <2>. QED
    BY <1>0, <1>9, <2>1, OutputKept DEF Reap
<1>10. CASE Close
  BY <1>0, <1>10, OutputKept DEF Close
<1>11. CASE Return
  <2>1. /\ UNCHANGED <<outpipe, buffered_output, child>> /\ pc' = "idle"
        /\ result' \in {"INCONCLUSIVE", Verdict(buffered_output)}
    BY <1>11 DEF Return
  <2>2. PICK a : a = child.answer
    OBVIOUS
  <2>3. PICK n : n = Len(buffered_output)
    OBVIOUS
  <2>4. n \in 0..Len(a) /\ buffered_output = SubSeq(a, 1, n)
    <3>1. /\ buffered_output \in Seq(Units) /\ outpipe \in Seq(Units)
          /\ child.written \in 0..Len(a) /\ a \in Seq(Units)
          /\ buffered_output \o outpipe = SubSeq(a, 1, child.written)
      BY <1>0, <2>2 DEF OutputInv, OutputAccounted, Children
    <3>. QED
      BY <2>3, <3>1, PrefixOfWhole
  <2>5. /\ Verdict(buffered_output) = "SAT" => Says(buffered_output, <<"sat">>)
        /\ Verdict(buffered_output) = "UNSAT" => Says(buffered_output, <<"un", "sat">>)
    BY DEF Verdict, Says
  <2>6. VerdictHeard'
    BY <2>1, <2>2, <2>4, <2>5 DEF VerdictHeard, Heard
  <2>. QED
    BY <2>1, <2>6 DEF OutputInv, OutputAccounted, SilentBeforeSpawn
<1>. QED
  BY <1>1, <1>2, <1>3, <1>4, <1>5, <1>6, <1>7, <1>8, <1>9, <1>10, <1>11 DEF Parent

LEMMA OutputInvStep == OutputInv /\ [Next]_vars => OutputInv'
<1>. SUFFICES ASSUME OutputInv, [Next]_vars PROVE OutputInv'
  OBVIOUS
<1>1. ProcessInv'
  BY ProcessInvStep DEF OutputInv
<1>2. CASE Parent
  BY <1>1, <1>2, ParentKeepsOutput
<1>3. CASE ChildStep
  BY <1>1, <1>3, ChildKeepsOutput
<1>4. CASE HandleSignal \/ OrphanExits \/ UNCHANGED vars
  BY <1>1, <1>4, OutputKept
  DEF HandleSignal, OrphanExits, vars, pipeVars, solveVars, OutputInv, OutputAccounted
<1>. QED
  BY <1>2, <1>3, <1>4 DEF Next, Finished

LEMMA OutputInvariant == Spec => []OutputInv
  BY OutputInvInit, OutputInvStep, PTL DEF Spec

\* run() may return before it has read all the solver wrote; still solve() answers
\* "sat" or "unsat" only if the solver has written such a line, of any answer and
\* through a pipe of any size, and never what an earlier run left in the buffer.
\* The hypothesis is about the solver: without it the beginning of a longer line
\* may be taken for one of these.
THEOREM ProcessVerdictSound ==
    ASSUME CutsHarmless
    PROVE  Spec => []VerdictSound
<1>1. ASSUME OutputInv, NEW line \in Lines, Heard(line) PROVE Says(child.answer, line)
  <2>1. PICK n \in 0..Len(child.answer) : Says(SubSeq(child.answer, 1, n), line)
    BY <1>1 DEF Heard
  <2>2. CASE child.answer \in Answers
    BY <2>1, <2>2 DEF CutsHarmless
  <2>3. CASE child.answer = <<>>
    <3>1. n = 0 /\ Len(SubSeq(child.answer, 1, n)) = 0
      BY <2>3
    <3>. QED
      BY <2>1, <3>1 DEF Says
  <2>. QED
    BY <1>1, <2>2, <2>3 DEF OutputInv, OutputAccounted
<1>2. OutputInv => VerdictSound
  BY <1>1 DEF OutputInv, VerdictHeard, VerdictSound, Lines
<1>. QED
  BY <1>2, OutputInvariant, PTL

=============================================================================
