------------------------- MODULE BackendProtocolProofs -------------------------
(***************************************************************************)
(* Calls, answers and the replayed machine of one backend process, for any *)
(* number of sessions, steps, injections, deaths and installations.        *)
(***************************************************************************)
EXTENDS BackendProtocol, SequenceTheorems, WellFoundedInduction, TLAPS

------------------------------------------------------------------------------
(* Sequences.                                                                *)

\* What Append makes of a sequence, by its elements.
LEMMA Appended ==
  ASSUME NEW S, NEW s \in Seq(S), NEW e \in S
  PROVE  /\ Append(s, e) \in Seq(S)
         /\ Len(Append(s, e)) = Len(s) + 1
         /\ \A i \in 1..Len(s) : Append(s, e)[i] = s[i]
         /\ Append(s, e)[Len(s) + 1] = e
         /\ Append(s, e) # <<>>
         /\ Head(Append(s, e)) = IF s = <<>> THEN e ELSE Head(s)
<1>1. /\ Append(s, e) \in Seq(S)
      /\ Len(Append(s, e)) = Len(s) + 1
      /\ \A i \in 1..Len(s) : Append(s, e)[i] = s[i]
      /\ Append(s, e)[Len(s) + 1] = e
  OBVIOUS
<1>2. Append(s, e) # <<>>
  BY <1>1, EmptySeq
<1>3. Head(Append(s, e)) = Append(s, e)[1]
  BY <1>1, <1>2
<1>4. s # <<>> => Head(s) = s[1] /\ 1 \in 1..Len(s)
  BY EmptySeq
<1>5. s = <<>> => Len(s) = 0
  OBVIOUS
<1> QED
  BY <1>1, <1>2, <1>3, <1>4, <1>5

\* The first element, and what is left without it.
LEMMA Headed ==
  ASSUME NEW S, NEW s \in Seq(S), s # <<>>
  PROVE  /\ Head(s) \in S /\ Tail(s) \in Seq(S)
         /\ Len(s) \in Nat \ {0} /\ Head(s) = s[1]
         /\ Len(Tail(s)) = Len(s) - 1
         /\ \A i \in 1..(Len(s) - 1) : Tail(s)[i] = s[i + 1]
<1>1. Len(s) \in Nat \ {0}
  BY EmptySeq
<1> QED
  BY <1>1, HeadTailProperties

------------------------------------------------------------------------------
(* The lines between the adapter and the worker.                             *)

\* What the adapter will read, oldest first.
Out == reader \o stdout

InTool == IF serving = NoCall THEN 0 ELSE 1

InCall == IF call = NoCall THEN 0 ELSE 1

\* The lines under way, and the id before theirs.
Traffic == Len(Out) + InTool + Len(stdin)

Before == issued - Traffic

\* Lines keep their order: the last one under way is the one written last.
InOrder ==
  /\ Before \in Nat
  /\ \A i \in 1..Len(Out) : Out[i].id = Before + i
  /\ serving # NoCall => serving.id = Before + Len(Out) + 1
  /\ \A i \in 1..Len(stdin) : stdin[i].id = Before + Len(Out) + InTool + i

\* A call that timed out leaves a line behind it; otherwise only the call itself has
\* one, or the process ended without answering.
Counted ==
  /\ call # NoCall => call.id = issued
  /\ Traffic >= InCall /\ (late => Traffic > InCall)
  /\ ~late => Traffic = InCall \/ (process # "up" /\ Out = <<>>)
  /\ session \in {"probe", "prepare", "run"} => ~late /\ Traffic = InCall
  /\ session = "idle" => call = NoCall

\* The only line under way belongs to the call that waits for it.
Matched ==
  call # NoCall /\ Traffic = 1 =>
    /\ stdin # <<>> => Head(stdin) = call
    /\ serving # NoCall => serving = call /\ worker.available
    /\ Out # <<>> /\ Head(Out).ok => call.op = "probe" \/ worker.available

------------------------------------------------------------------------------
(* The worker.                                                               *)

Workers ==
  [available : BOOLEAN, prepared : BOOLEAN, input : Values, time : Times,
   snapshot : [taken : BOOLEAN, at : Times, history : Histories], served : BOOLEAN]

\* A worker stands where the next step begins, and its snapshot is not ahead of it.
WorkerPlaced ==
  /\ worker.snapshot.at <= worker.time
  /\ Len(worker.snapshot.history) = worker.snapshot.at
  /\ \A i \in 1..Len(stdin) : stdin[i].op = "step" =>
       i = 1 /\ serving = NoCall /\ worker.time = stdin[i].at /\ worker.time < MaxSteps
  /\ serving.op = "step" => worker.time = serving.at /\ worker.time < MaxSteps

Typed ==
  /\ BackendTypeOK
  /\ stdin \in Seq(Requests) /\ stdout \in Seq(Responses) /\ reader \in Seq(Responses)
  /\ worker \in Workers

------------------------------------------------------------------------------
(* The run.                                                                  *)

\* The inputs changed at clean checkpoints alone.
Replayable(checkpoints, inputs) ==
  /\ \A m \in checkpoints : m.clean
  /\ \A i \in 2..Len(inputs) :
       inputs[i] # inputs[i - 1] => [at |-> i - 1, clean |-> TRUE] \in checkpoints

\* The worker has done what the call asked for, and the adapter has yet to read it.
Done(operation) == call.op = operation /\ Out # <<>> /\ Head(Out).ok

CallInRun ==
  /\ session = "prepare" =>
       /\ call # NoCall => call.op = "prepare"
       /\ told = <<>> /\ marks = {} /\ seen = <<>>
  /\ session = "run" /\ call # NoCall =>
       /\ call.at = Now /\ call.op \in {"inject", "step", "checkpoint"}
       /\ call.op = "step" => Now < MaxSteps
       /\ call.op = "inject" => injections < MaxInjections
       /\ call.op = "checkpoint" => Now > 0

\* The worker stands where the adapter believes it does, apart from what it has not read.
InStep ==
  /\ worker.time = IF Done("step") THEN Now + 1 ELSE Now
  /\ worker.input = IF Done("inject") THEN call.value ELSE held

\* The snapshot is that of the last mark, or of the one that is being taken, and the
\* input has not changed since.
SnapshotKept ==
  /\ worker.snapshot.at <= Now
  /\ \A m \in marks : m.at <= worker.snapshot.at
  /\ Done("checkpoint") => worker.snapshot.at = Now
  /\ Replayable(marks, told) /\ (call.op = "checkpoint" => held = Last(told)) =>
       worker.snapshot.history = SubSeq(told, 1, worker.snapshot.at)
  /\ Replayable(marks, told) =>
       \A i \in (worker.snapshot.at + 1)..Now : told[i] = Last(told)

\* What a step answers is the machine all its inputs give.
StepAnswer ==
  Done("step") /\ Replayable(marks, Append(told, held)) =>
    Head(Out).history = Append(told, held)

RunKept ==
  session \in {"prepare", "run"} =>
    CallInRun /\ InStep /\ SnapshotKept /\ StepAnswer

LinesInv == InOrder /\ Counted /\ Matched

BackendInv ==
  /\ Typed /\ LinesInv /\ WorkerPlaced /\ RunKept
  /\ StepsSeeTheirHistory

\* The sequences of lines, and the response the adapter reads next.
LEMMA OutTyped ==
  ASSUME Typed
  PROVE  /\ Out \in Seq(Responses) /\ Len(Out) = Len(reader) + Len(stdout)
         /\ Len(Out) \in Nat /\ Len(stdin) \in Nat
         /\ InTool \in 0..1 /\ InCall \in 0..1 /\ Traffic \in Nat
         /\ Out = <<>> <=> Len(Out) = 0
         /\ stdin = <<>> <=> Len(stdin) = 0
<1>1. reader \in Seq(Responses) /\ stdout \in Seq(Responses) /\ stdin \in Seq(Requests)
  BY DEF Typed
<1>2. Out \in Seq(Responses) /\ Len(Out) = Len(reader) + Len(stdout)
  BY <1>1, ConcatProperties DEF Out
<1>3. Len(Out) \in Nat /\ Len(stdin) \in Nat
  BY <1>1, <1>2, LenProperties
<1>4. InTool \in 0..1 /\ InCall \in 0..1
  BY DEF InTool, InCall
<1>5. (Out = <<>> <=> Len(Out) = 0) /\ (stdin = <<>> <=> Len(stdin) = 0)
  BY <1>1, <1>2, EmptySeq
<1> QED
  BY <1>2, <1>3, <1>4, <1>5 DEF Traffic

\* readline() takes the oldest line.
LEMMA ReadsOldest ==
  ASSUME Typed, ReadLine
  PROVE  /\ Out # <<>> /\ Head(Lines) = Head(Out) /\ Out' = Tail(Out)
         /\ reader' \in Seq(Responses) /\ stdout' \in Seq(Responses)
<1>1. reader \in Seq(Responses) /\ stdout \in Seq(Responses) /\ Lines # <<>>
  BY DEF Typed, ReadLine
<1>2. CASE reader = <<>>
  <2>1. Out = stdout /\ Lines = stdout
    BY <1>1, <1>2, ConcatEmptySeq DEF Out, Lines
  <2>2. reader' = Tail(stdout) /\ stdout' = <<>>
    BY <1>2, <2>1 DEF ReadLine
  <2>3. Tail(stdout) \in Seq(Responses) /\ <<>> \in Seq(Responses)
    BY <1>1, <2>1, Headed
  <2>4. Out' = Tail(stdout)
    BY <2>2, <2>3, ConcatEmptySeq DEF Out
  <2> QED
    BY <1>1, <2>1, <2>2, <2>3, <2>4
<1>3. CASE reader # <<>>
  <2>1. Lines = reader /\ reader' = Tail(reader) /\ stdout' = stdout
    BY <1>3 DEF Lines, ReadLine
  <2>2. Tail(reader) \in Seq(Responses) /\ Len(reader) \in Nat \ {0} /\ Head(reader) = reader[1]
    BY <1>1, <1>3, Headed
  <2>3. Out # <<>>
    BY <1>1, <1>3, ConcatEqualIffEmpty DEF Out
  <2>4. Out[1] = reader[1]
    BY <1>1, <2>2, ConcatProperties, LenProperties DEF Out
  <2>5. Out \in Seq(Responses) /\ Head(Out) = Out[1]
    BY <1>1, <2>3, ConcatProperties, Headed DEF Out
  <2>6. Out' = Tail(Out)
    <3>1. Out' = Tail(reader) \o stdout
      BY <2>1 DEF Out
    <3>2. Tail(reader) \o stdout \in Seq(Responses) /\ Tail(Out) \in Seq(Responses)
      BY <1>1, <2>2, <2>3, <2>5, ConcatProperties, Headed
    <3>3. Len(stdout) \in Nat /\ Len(Out) = Len(reader) + Len(stdout)
          /\ Len(Tail(reader)) = Len(reader) - 1
      BY <1>1, <1>3, Headed, ConcatProperties, LenProperties DEF Out
    <3>4. Len(Tail(reader) \o stdout) = Len(Out) - 1 /\ Len(Tail(Out)) = Len(Out) - 1
      <4>1. Len(Tail(reader) \o stdout) = Len(Tail(reader)) + Len(stdout)
        BY <1>1, <2>2, ConcatProperties
      <4> QED
        BY <2>2, <2>3, <2>5, <3>3, <4>1, Headed
    <3>5. ASSUME NEW i \in 1..(Len(Out) - 1)
          PROVE  (Tail(reader) \o stdout)[i] = Tail(Out)[i]
      <4>1. Tail(Out)[i] = Out[i + 1]
        BY <2>3, <2>5, Headed
      <4>2. i \in Nat /\ i \in 1..(Len(Tail(reader)) + Len(stdout))
            /\ i + 1 \in 1..(Len(reader) + Len(stdout))
        BY <2>2, <3>3
      <4>3. (Tail(reader) \o stdout)[i] =
              IF i <= Len(Tail(reader)) THEN Tail(reader)[i] ELSE stdout[i - Len(Tail(reader))]
        BY <1>1, <2>2, <4>2, ConcatProperties
      <4>4. Out[i + 1] =
              IF i + 1 <= Len(reader) THEN reader[i + 1] ELSE stdout[(i + 1) - Len(reader)]
        BY <1>1, <4>2, ConcatProperties DEF Out
      <4>5. i <= Len(Tail(reader)) <=> i + 1 <= Len(reader)
        BY <2>2, <3>3
      <4>6. i <= Len(Tail(reader)) => Tail(reader)[i] = reader[i + 1]
        <5>1. i <= Len(Tail(reader)) => i \in 1..(Len(reader) - 1)
          BY <2>2, <3>3
        <5> QED
          BY <1>1, <1>3, <5>1, Headed
      <4>7. i - Len(Tail(reader)) = (i + 1) - Len(reader)
        BY <2>2, <3>3
      <4> QED
        BY <4>1, <4>3, <4>4, <4>5, <4>6, <4>7
    <3> HIDE DEF Out
    <3>6. Tail(reader) \o stdout = Tail(Out)
      BY <3>2, <3>4, <3>5, SeqEqual
    <3> QED
      BY <3>1, <3>6
  <2> QED
    BY <1>1, <2>1, <2>2, <2>3, <2>4, <2>5, <2>6
<1> QED
  BY <1>2, <1>3

\* A response goes behind all others.
LEMMA RespondsLast ==
  ASSUME Typed, NEW response \in Responses,
         stdout' = Append(stdout, response), reader' = reader
  PROVE  /\ stdout' \in Seq(Responses) /\ reader' \in Seq(Responses)
         /\ Out' = Append(Out, response)
<1>1. reader \in Seq(Responses) /\ stdout \in Seq(Responses)
  BY DEF Typed
<1>2. stdout' \in Seq(Responses)
  BY <1>1, Appended
<1>3. Out' = reader \o Append(stdout, response)
  BY DEF Out
<1>4. reader \o Append(stdout, response) = Append(reader \o stdout, response)
  BY <1>1
<1> QED
  BY <1>1, <1>2, <1>3, <1>4 DEF Out

------------------------------------------------------------------------------
(* What the steps do to the lines.                                           *)

\* A request is written behind all others.
LEMMA AskInOrder ==
  ASSUME Typed, InOrder, issued \in Nat, NEW request \in Requests, request.id = issued + 1,
         stdin' = Append(stdin, request), issued' = issued + 1,
         UNCHANGED <<reader, stdout, serving>>
  PROVE  /\ InOrder' /\ stdin' \in Seq(Requests)
         /\ Traffic' = Traffic + 1 /\ Out' = Out /\ InTool' = InTool
<1>1. stdin \in Seq(Requests)
  BY DEF Typed
<1>2. /\ stdin' \in Seq(Requests) /\ Len(stdin') = Len(stdin) + 1
      /\ \A i \in 1..Len(stdin) : stdin'[i] = stdin[i]
      /\ stdin'[Len(stdin) + 1] = request
  BY <1>1, Appended
<1>3. Out' = Out /\ InTool' = InTool
  BY DEF Out, InTool
<1>4. /\ Len(Out) \in Nat /\ Len(stdin) \in Nat /\ InTool \in 0..1
      /\ Traffic = Len(Out) + InTool + Len(stdin)
      /\ Traffic' = Len(Out) + InTool + Len(stdin')
  BY <1>3, OutTyped DEF Traffic
<1>5. Traffic' = Traffic + 1
  BY <1>2, <1>4
<1>6. Before' = Before /\ Before = issued - Traffic /\ Before \in Nat
  BY <1>4, <1>5 DEF Before, InOrder
<1>7. ASSUME NEW i \in 1..Len(stdin')
      PROVE  stdin'[i].id = Before + Len(Out) + InTool + i
  <2>1. CASE i \in 1..Len(stdin)
    BY <1>2, <2>1 DEF InOrder
  <2>2. CASE i = Len(stdin) + 1
    BY <1>2, <1>4, <1>6, <2>2
  <2> QED
    BY <1>2, <1>4, <2>1, <2>2
<1>8. InOrder'
  BY <1>3, <1>6, <1>7 DEF InOrder
<1> QED
  BY <1>2, <1>3, <1>5, <1>8

\* The adapter takes a line.
LEMMA ReadInOrder ==
  ASSUME Typed, InOrder, issued \in Nat, ReadLine, UNCHANGED <<stdin, serving, issued>>
  PROVE  /\ InOrder' /\ Traffic' = Traffic - 1 /\ Traffic >= 1 /\ InTool' = InTool
         /\ Head(Out).id = Before + 1
<1>1. /\ Out # <<>> /\ Out' = Tail(Out) /\ Out \in Seq(Responses)
      /\ Len(stdin) \in Nat /\ InTool \in 0..1 /\ InTool' = InTool
  BY ReadsOldest, OutTyped DEF InTool
<1>2. /\ Len(Out) \in Nat \ {0} /\ Head(Out) = Out[1] /\ Len(Out') = Len(Out) - 1
      /\ \A i \in 1..(Len(Out) - 1) : Out'[i] = Out[i + 1]
  BY <1>1, Headed
<1>3. /\ Traffic = Len(Out) + InTool + Len(stdin)
      /\ Traffic' = Len(Out') + InTool + Len(stdin)
  BY <1>1 DEF Traffic
<1>4. Traffic' = Traffic - 1 /\ Traffic >= 1
  BY <1>1, <1>2, <1>3
<1>5. Before' = Before + 1 /\ Before \in Nat
  BY <1>1, <1>2, <1>3, <1>4 DEF Before, InOrder
<1>6. Out[1].id = Before + 1
  BY <1>2 DEF InOrder
<1>7. ASSUME NEW i \in 1..Len(Out') PROVE Out'[i].id = Before' + i
  <2>1. i + 1 \in 1..Len(Out) /\ i \in 1..(Len(Out) - 1)
    BY <1>2
  <2>2. Out[i + 1].id = Before + (i + 1)
    BY <2>1 DEF InOrder
  <2> QED
    BY <1>2, <1>5, <2>1, <2>2
<1>8. Before' + Len(Out') = Before + Len(Out)
  BY <1>2, <1>5
<1>9. InOrder'
  BY <1>1, <1>5, <1>7, <1>8 DEF InOrder
<1> QED
  BY <1>1, <1>2, <1>4, <1>6, <1>9

\* A request whose answer needs no tool becomes its answer.
LEMMA AnswerInOrder ==
  ASSUME Typed, InOrder, issued \in Nat, serving = NoCall, stdin # <<>>,
         NEW response \in Responses, response.id = Head(stdin).id,
         stdin' = Tail(stdin), stdout' = Append(stdout, response),
         UNCHANGED <<reader, serving, issued>>
  PROVE  InOrder' /\ Traffic' = Traffic /\ InTool' = InTool
<1>1. /\ Out \in Seq(Responses) /\ Out' = Append(Out, response) /\ stdin \in Seq(Requests)
      /\ InTool = 0 /\ InTool' = 0
  BY RespondsLast, OutTyped DEF InTool, Typed
<1>2. /\ Len(Out) \in Nat /\ Len(Out') = Len(Out) + 1
      /\ \A i \in 1..Len(Out) : Out'[i] = Out[i]
      /\ Out'[Len(Out) + 1] = response
  BY <1>1, Appended, LenProperties
<1>3. /\ Len(stdin) \in Nat \ {0} /\ Head(stdin) = stdin[1] /\ Len(stdin') = Len(stdin) - 1
      /\ \A i \in 1..(Len(stdin) - 1) : stdin'[i] = stdin[i + 1]
  BY <1>1, Headed
<1>4. /\ Traffic = Len(Out) + 0 + Len(stdin)
      /\ Traffic' = Len(Out') + 0 + Len(stdin')
  BY <1>1 DEF Traffic
<1>5. Traffic' = Traffic
  BY <1>2, <1>3, <1>4
<1>6. Before' = Before /\ Before \in Nat
  BY <1>5 DEF Before, InOrder
<1>7. stdin[1].id = Before + Len(Out) + 0 + 1
  BY <1>1, <1>3 DEF InOrder
<1>8. ASSUME NEW i \in 1..Len(Out') PROVE Out'[i].id = Before + i
  <2>1. CASE i \in 1..Len(Out)
    BY <1>2, <2>1 DEF InOrder
  <2>2. CASE i = Len(Out) + 1
    BY <1>2, <1>3, <1>6, <1>7, <2>2
  <2> QED
    BY <1>2, <2>1, <2>2
<1>9. ASSUME NEW i \in 1..Len(stdin')
      PROVE  stdin'[i].id = Before + Len(Out') + 0 + i
  <2>1. i + 1 \in 1..Len(stdin) /\ i \in 1..(Len(stdin) - 1)
    BY <1>3
  <2>2. stdin[i + 1].id = Before + Len(Out) + 0 + (i + 1)
    BY <1>1, <2>1 DEF InOrder
  <2> QED
    BY <1>2, <1>3, <1>6, <2>1, <2>2
<1>10. InOrder'
  BY <1>1, <1>6, <1>8, <1>9 DEF InOrder
<1> QED
  BY <1>1, <1>5, <1>10

\* A request that needs the tool waits for it alone.
LEMMA StartInOrder ==
  ASSUME Typed, InOrder, issued \in Nat, serving = NoCall, stdin # <<>>,
         stdin' = Tail(stdin), serving' = Head(stdin), UNCHANGED <<reader, stdout, issued>>
  PROVE  InOrder' /\ Traffic' = Traffic /\ Out' = Out /\ serving' # NoCall /\ InTool' = 1
<1>1. /\ Len(Out) \in Nat /\ Out' = Out /\ stdin \in Seq(Requests) /\ InTool = 0
  BY OutTyped DEF InTool, Typed, Out
<1>2. /\ Len(stdin) \in Nat \ {0} /\ Head(stdin) = stdin[1] /\ Len(stdin') = Len(stdin) - 1
      /\ \A i \in 1..(Len(stdin) - 1) : stdin'[i] = stdin[i + 1]
  BY <1>1, Headed
<1>3. Before \in Nat /\ stdin[1].id = Before + Len(Out) + 0 + 1
  BY <1>1, <1>2 DEF InOrder
<1>4. serving' # NoCall /\ InTool' = 1
  <2>1. serving'.id # 0
    BY <1>1, <1>2, <1>3
  <2>2. NoCall.id = 0
    BY DEF NoCall
  <2> QED
    BY <2>1, <2>2 DEF InTool
<1>5. /\ Traffic = Len(Out) + 0 + Len(stdin)
      /\ Traffic' = Len(Out) + 1 + Len(stdin')
  BY <1>1, <1>4 DEF Traffic
<1>6. Traffic' = Traffic
  BY <1>1, <1>2, <1>5
<1>7. Before' = Before
  BY <1>6 DEF Before
<1>8. ASSUME NEW i \in 1..Len(stdin')
      PROVE  stdin'[i].id = Before + Len(Out) + 1 + i
  <2>1. i + 1 \in 1..Len(stdin) /\ i \in 1..(Len(stdin) - 1)
    BY <1>2
  <2>2. stdin[i + 1].id = Before + Len(Out) + 0 + (i + 1)
    BY <1>1, <2>1 DEF InOrder
  <2> QED
    BY <1>1, <1>2, <1>3, <2>1, <2>2
<1>9. serving'.id = Before + Len(Out) + 1
  BY <1>1, <1>2, <1>3
<1>10. InOrder'
  BY <1>1, <1>3, <1>4, <1>7, <1>8, <1>9 DEF InOrder
<1> QED
  BY <1>1, <1>4, <1>6, <1>10

\* The tool ends and its request becomes the answer.
LEMMA EndInOrder ==
  ASSUME Typed, InOrder, issued \in Nat, serving # NoCall, serving' = NoCall,
         NEW response \in Responses, response.id = serving.id,
         stdout' = Append(stdout, response), UNCHANGED <<reader, stdin, issued>>
  PROVE  InOrder' /\ Traffic' = Traffic /\ InTool = 1 /\ InTool' = 0
<1>1. /\ Out \in Seq(Responses) /\ Out' = Append(Out, response) /\ Len(stdin) \in Nat
      /\ InTool = 1 /\ InTool' = 0
  BY RespondsLast, OutTyped DEF InTool
<1>2. /\ Len(Out) \in Nat /\ Len(Out') = Len(Out) + 1
      /\ \A i \in 1..Len(Out) : Out'[i] = Out[i]
      /\ Out'[Len(Out) + 1] = response
  BY <1>1, Appended, LenProperties
<1>3. /\ Traffic = Len(Out) + 1 + Len(stdin)
      /\ Traffic' = Len(Out') + 0 + Len(stdin)
  BY <1>1 DEF Traffic
<1>4. Traffic' = Traffic
  BY <1>1, <1>2, <1>3
<1>5. Before' = Before /\ Before \in Nat
  BY <1>4 DEF Before, InOrder
<1>6. ASSUME NEW i \in 1..Len(Out') PROVE Out'[i].id = Before + i
  <2>1. CASE i \in 1..Len(Out)
    BY <1>2, <2>1 DEF InOrder
  <2>2. CASE i = Len(Out) + 1
    BY <1>2, <1>5, <2>2 DEF InOrder
  <2> QED
    BY <1>2, <2>1, <2>2
<1>7. ASSUME NEW i \in 1..Len(stdin)
      PROVE  stdin[i].id = Before + Len(Out') + 0 + i
  <2>1. stdin[i].id = Before + Len(Out) + 1 + i
    BY <1>1 DEF InOrder
  <2> QED
    BY <1>2, <1>5, <2>1
<1>8. InOrder'
  BY <1>1, <1>5, <1>6, <1>7 DEF InOrder
<1> QED
  BY <1>1, <1>4, <1>8

------------------------------------------------------------------------------
(* Histories.                                                                *)

\* A history is a sequence of inputs, no longer than a run.
LEMMA HistorySeq ==
  ASSUME NEW h
  PROVE  h \in Histories <=> h \in Seq(Values) /\ Len(h) <= MaxSteps
<1>1. MaxSteps \in Nat
  BY BackendAssumption
<1>2. ASSUME h \in Histories PROVE h \in Seq(Values) /\ Len(h) <= MaxSteps
  <2>1. PICK n \in 0..MaxSteps : h \in [1..n -> Values]
    BY <1>2 DEF Histories, Times
  <2>2. n \in Nat /\ n <= MaxSteps
    BY <1>1
  <2>3. h \in Seq(Values) /\ Len(h) = n
    BY <2>1, <2>2
  <2> QED
    BY <2>2, <2>3
<1>3. ASSUME h \in Seq(Values), Len(h) <= MaxSteps PROVE h \in Histories
  <2>1. Len(h) \in Nat /\ h \in [1..Len(h) -> Values]
    BY <1>3, LenProperties
  <2>2. Len(h) \in Times
    BY <1>1, <1>3, <2>1 DEF Times
  <2> QED
    BY <2>1, <2>2 DEF Histories
<1> QED
  BY <1>2, <1>3

\* The worker's record and its numbers.
LEMMA WorkerTyped ==
  ASSUME Typed
  PROVE  /\ MaxSteps \in Nat /\ worker.time \in 0..MaxSteps /\ worker.input \in Values
         /\ worker.available \in BOOLEAN
         /\ worker.snapshot.at \in 0..MaxSteps
         /\ worker.snapshot.history \in Seq(Values)
         /\ Len(worker.snapshot.history) <= MaxSteps
BY BackendAssumption, HistorySeq DEF Typed, Workers, Times

\* What the worker simulates up to a time: the history of its snapshot, and from there
\* on the input it has.
LEMMA SimulatedSeq ==
  ASSUME Typed, WorkerPlaced, NEW until \in Nat, worker.snapshot.at <= until
  PROVE  /\ Simulated(until) \in Seq(Values) /\ Len(Simulated(until)) = until
         /\ \A i \in 1..until : Simulated(until)[i] =
              IF i <= worker.snapshot.at THEN worker.snapshot.history[i] ELSE worker.input
<1> DEFINE at == worker.snapshot.at
           history == worker.snapshot.history
           input == worker.input
           rest == Repeated(input, until - at)
<1>1. at \in Nat /\ history \in Seq(Values) /\ input \in Values /\ Len(history) = at
  BY WorkerTyped DEF WorkerPlaced
<1>2. until - at \in Nat
  BY <1>1
<1>3. /\ rest \in Seq(Values) /\ Len(rest) = until - at
      /\ \A i \in 1..(until - at) : rest[i] = input
  BY <1>1, <1>2 DEF Repeated
<1>4. Simulated(until) = history \o rest
  BY DEF Simulated
<1> HIDE DEF rest
<1>5. /\ history \o rest \in Seq(Values)
      /\ Len(history \o rest) = Len(history) + Len(rest)
      /\ \A i \in 1..(Len(history) + Len(rest)) : (history \o rest)[i] =
           IF i <= Len(history) THEN history[i] ELSE rest[i - Len(history)]
  BY <1>1, <1>3, ConcatProperties
<1>6. Len(history) + Len(rest) = until
  BY <1>1, <1>3
<1>7. ASSUME NEW i \in 1..until PROVE (history \o rest)[i] = IF i <= at THEN history[i] ELSE input
  <2>1. i \in Nat /\ (~(i <= at) => i - at \in 1..(until - at))
    BY <1>1
  <2>2. (history \o rest)[i] = IF i <= at THEN history[i] ELSE rest[i - at]
    BY <1>1, <1>5, <1>6
  <2> QED
    BY <1>3, <2>1, <2>2
<1> QED
  BY <1>4, <1>5, <1>6, <1>7

\* The next step of a worker that is to make one stays within the run.
LEMMA StepTyped ==
  ASSUME Typed, WorkerPlaced, serving.op = "step"
  PROVE  /\ worker.time + 1 \in 0..MaxSteps /\ worker.snapshot.at <= worker.time + 1
         /\ Simulated(worker.time + 1) \in Histories
<1>1. /\ worker.time \in Nat /\ worker.time < MaxSteps /\ worker.snapshot.at \in Nat
      /\ worker.snapshot.at <= worker.time /\ MaxSteps \in Nat
  BY WorkerTyped DEF WorkerPlaced
<1>2. worker.time + 1 \in Nat /\ worker.time + 1 <= MaxSteps
      /\ worker.snapshot.at <= worker.time + 1
  BY <1>1
<1> QED
  BY <1>1, <1>2, SimulatedSeq, HistorySeq


\* The kinds of steps.
Asks(operation, at, value) ==
  /\ session # "idle" /\ Write(operation, at, value)
  /\ operation \in Operations /\ at \in {0, Now} /\ value \in Values
  /\ operation = "step" => session = "run"
  /\ session = "prepare" => operation = "prepare"
  /\ session = "run" =>
       /\ at = Now /\ operation \in {"inject", "step", "checkpoint"}
       /\ operation = "step" => Now < MaxSteps
       /\ operation = "inject" => injections < MaxInjections
       /\ operation = "checkpoint" => Now > 0 /\ Mark \notin marks

Returns(then) ==
  /\ Answered \/ Failed
  /\ Returned(then) /\ then \in Sessions
  /\ then \in {"probe", "prepare", "run"} => Answered /\ session \in {"prepare", "run"}
  /\ probed' \in {"yes", "no", probed}
  /\ CallAnswered \/ UNCHANGED runVars
  /\ then = "run" => (session = "prepare" /\ UNCHANGED runVars) \/ CallAnswered
  /\ then # "prepare"

Quiet ==
  /\ UNCHANGED <<call, issued, late, stdin, stdout, reader, serving, worker, runVars, probed>>
  /\ session' = session \/ (session' \in {"close", "idle"} /\ call = NoCall)
  /\ process' = process \/ process' \in {"dead", "none"}
  /\ installed' \in {installed, ~installed}

Works == Reject \/ Serve \/ StartTool \/ StepDone \/ CheckpointDone \/ ToolFails

\* Every step is of one of these kinds, or opens a session.
LEMMA StepKinds ==
  ASSUME [Next]_vars
  PROVE  \/ \E operation, at, value : Asks(operation, at, value)
         \/ \E then : Returns(then)
         \/ Works
         \/ Quiet
         \/ \E kind \in {"probe", "prepare"} : Open(kind)
<1>1. CASE OpenProbe \/ OpenRun
  BY <1>1 DEF OpenProbe, OpenRun
<1>2. CASE AskProbe \/ AskPrepare \/ AskRescue \/ AskShutdown
  <2>1. CASE AskProbe
    <3>1. Asks("probe", 0, 0)
      BY <2>1, BackendAssumption DEF AskProbe, Asks, Operations
    <3> QED BY <3>1
  <2>2. CASE AskPrepare
    <3>1. Asks("prepare", 0, 0)
      BY <2>2, BackendAssumption DEF AskPrepare, Asks, Operations
    <3> QED BY <3>1
  <2>3. CASE AskRescue
    <3>1. Asks("snapshot", Now, 0)
      BY <2>3, BackendAssumption DEF AskRescue, Asks, Operations
    <3> QED BY <3>1
  <2>4. CASE AskShutdown
    <3>1. Asks("shutdown", 0, 0)
      BY <2>4, BackendAssumption DEF AskShutdown, Asks, Operations
    <3> QED BY <3>1
  <2> QED
    BY <1>2, <2>1, <2>2, <2>3, <2>4
<1>3. CASE AskInject \/ AskStep \/ AskCheckpoint
  <2>1. CASE AskInject
    <3>1. PICK v \in Values : Write("inject", Now, v)
      BY <2>1 DEF AskInject
    <3>2. Asks("inject", Now, v)
      BY <2>1, <3>1 DEF AskInject, Asks, Operations
    <3> QED BY <3>2
  <2>2. CASE AskStep
    <3>1. Asks("step", Now, 0)
      BY <2>2, BackendAssumption DEF AskStep, Asks, Operations
    <3> QED BY <3>1
  <2>3. CASE AskCheckpoint
    <3>1. Asks("checkpoint", Now, 0)
      BY <2>3, BackendAssumption DEF AskCheckpoint, Asks, Operations
    <3> QED BY <3>1
  <2> QED
    BY <1>3, <2>1, <2>2, <2>3
<1>4. CASE ProbeAnswered \/ ProbeFailed \/ Prepared \/ PrepareFailed \/ CallAnswered
           \/ CallFailed \/ Rescued \/ ShutdownAnswered \/ ShutdownFailed
  <2>1. \E then \in {"close", "run", "idle", "rescue", "wait"} : Returns(then)
    <3>1. CASE ProbeAnswered \/ ProbeFailed
      <4>1. Returns("close")
        BY <3>1 DEF ProbeAnswered, ProbeFailed, Returns, Sessions
      <4> QED BY <4>1
    <3>2. CASE Prepared \/ CallAnswered
      <4>1. Returns("run")
        BY <3>2 DEF Prepared, CallAnswered, Returns, Sessions
      <4> QED BY <4>1
    <3>3. CASE PrepareFailed
      <4>1. Returns("idle")
        BY <3>3 DEF PrepareFailed, Returns, Sessions
      <4> QED BY <4>1
    <3>4. CASE CallFailed
      <4>1. Returns("rescue")
        BY <3>4 DEF CallFailed, Returns, Sessions
      <4> QED BY <4>1
    <3>5. CASE Rescued
      <4>1. Returns("close")
        BY <3>5 DEF Rescued, Returns, Sessions
      <4> QED BY <4>1
    <3>6. CASE ShutdownAnswered \/ ShutdownFailed
      <4>1. Returns("wait")
        BY <3>6 DEF ShutdownAnswered, ShutdownFailed, Returns, Sessions
      <4> QED BY <4>1
    <3> QED
      BY <1>4, <3>1, <3>2, <3>3, <3>4, <3>5, <3>6
  <2> QED
    BY <2>1
<1>5. CASE RunOver \/ Kill \/ Closed \/ WorkerExits \/ ProcessDies \/ InstallOrRemove
  BY <1>5 DEF RunOver, Kill, Closed, WorkerExits, ProcessDies, InstallOrRemove, Quiet,
              callVars, processVars, hostVars
<1>6. CASE UNCHANGED vars
  BY <1>6 DEF vars, callVars, processVars, hostVars, Quiet
<1>7. CASE WorkerStep
  BY <1>5, <1>7 DEF WorkerStep, Works
<1> QED
  BY <1>1, <1>2, <1>3, <1>4, <1>5, <1>6, <1>7 DEF Next, AdapterStep

\* An answer without the tool.
LEMMA AnswersAtOnce ==
  ASSUME Reject \/ Serve
  PROVE  /\ process = "up" /\ UNCHANGED <<callVars, process, reader, runVars, serving>>
         /\ serving = NoCall /\ stdin # <<>> /\ stdin' = Tail(stdin)
         /\ \E ok \in BOOLEAN :
              /\ Respond(Head(stdin), ok, <<>>)
              /\ ok => ~Rejected(Head(stdin)) /\ ~NeedsTool(Head(stdin))
<1>1. TakeRequest /\ Waiting /\ UNCHANGED serving
  BY DEF Reject, Serve, TakeRequest
<1>2. \E ok \in BOOLEAN :
        /\ Respond(Head(stdin), ok, <<>>)
        /\ ok => ~Rejected(Head(stdin)) /\ ~NeedsTool(Head(stdin))
  BY DEF Reject, Serve, MayFail
<1> QED
  BY <1>1, <1>2 DEF TakeRequest, Waiting

\* The answer when the tool has ended.
LEMMA ToolAnswers ==
  ASSUME StepDone \/ CheckpointDone \/ ToolFails
  PROVE  /\ process = "up" /\ UNCHANGED <<callVars, process, stdin, reader, runVars>>
         /\ serving # NoCall /\ serving' = NoCall
         /\ \E ok \in BOOLEAN, history \in {<<>>, Simulated(worker.time + 1)} :
              Respond(serving, ok, history)
BY DEF StepDone, CheckpointDone, ToolFails, ToolRuns

\* No step of the worker's, and none that only ends something, changes what is under way.
LEMMA CountedStays ==
  ASSUME Counted, UNCHANGED <<call, issued, late>>, Traffic' = Traffic,
         process' = process \/ process' # "up",
         session' = session \/ (session' \in {"close", "idle"} /\ call = NoCall),
         process = "up" \/ Out' = Out
  PROVE  Counted'
<1>1. InCall' = InCall
  BY DEF InCall
<1>2. ~late => Traffic = InCall \/ (process' # "up" /\ Out' = <<>>)
  BY DEF Counted
<1> QED
  BY <1>1, <1>2 DEF Counted

\* The lines are in order, counted and matched whatever the adapter and the worker do.
LEMMA AskLines ==
  ASSUME Typed, LinesInv, NEW operation, NEW at, NEW value, Asks(operation, at, value)
  PROVE  LinesInv' /\ call' \in Requests /\ stdin' \in Seq(Requests)
<1> DEFINE request == [id |-> issued + 1, op |-> operation, at |-> at, value |-> value]
<1>1. /\ call = NoCall /\ call' = request /\ session # "idle" /\ session' = session
      /\ stdin' = Append(stdin, request) /\ issued' = issued + 1
      /\ UNCHANGED <<reader, stdout, serving, late, process>>
  BY DEF Asks, Write
<1>2. issued \in Nat /\ request \in Requests /\ request.id = issued + 1
  <2>1. issued \in Nat /\ 0 \in Times /\ Now \in Times
    BY BackendAssumption, HistorySeq, LenProperties DEF Typed, BackendTypeOK, Times, Now
  <2> QED
    BY <2>1 DEF Asks, Requests
<1>3. request # NoCall
  BY <1>2 DEF NoCall
<1> HIDE DEF request
<1>4. /\ InOrder' /\ Traffic' = Traffic + 1 /\ Out' = Out /\ InTool' = InTool
      /\ stdin' \in Seq(Requests)
  BY <1>1, <1>2, AskInOrder DEF LinesInv
<1>5. InCall = 0 /\ InCall' = 1 /\ Traffic \in Nat
  BY <1>1, <1>3, OutTyped DEF InCall
<1>6. Counted'
  BY <1>1, <1>2, <1>4, <1>5 DEF Counted, LinesInv
<1>7. Matched'
  <2>1. SUFFICES ASSUME Traffic = 0 PROVE Matched'
    BY <1>4, <1>5 DEF Matched
  <2>2. Out = <<>> /\ stdin = <<>> /\ InTool = 0
    BY <2>1, OutTyped DEF Traffic
  <2>3. serving' = NoCall /\ Head(stdin') = request
    BY <1>1, <2>2 DEF InTool
  <2> QED
    BY <1>1, <1>4, <2>2, <2>3 DEF Matched
<1> QED
  BY <1>1, <1>2, <1>4, <1>6, <1>7 DEF LinesInv

\* A call that returns has read its line, or leaves it behind.
LEMMA ReturnLines ==
  ASSUME Typed, LinesInv, NEW then, Returns(then)
  PROVE  LinesInv' /\ reader' \in Seq(Responses) /\ stdout' \in Seq(Responses)
         /\ late' \in BOOLEAN
<1>1. /\ call # NoCall /\ call' = NoCall /\ session' = then
      /\ UNCHANGED <<issued, process, stdin, serving>>
  BY DEF Returns, Returned, Answered, Failed
<1>2. /\ issued \in Nat /\ Traffic \in Nat /\ Traffic >= 1
      /\ InCall = 1 /\ InCall' = 0
      /\ session \in {"prepare", "run"} => Traffic = 1 /\ ~late
      /\ late => Traffic > 1
      /\ ~late => Traffic = 1 \/ (process # "up" /\ Out = <<>>)
  BY <1>1, OutTyped DEF LinesInv, Counted, InCall, Typed, BackendTypeOK
<1>3. Matched'
  BY <1>1 DEF Matched
<1>a. late \in BOOLEAN /\ reader \in Seq(Responses) /\ stdout \in Seq(Responses)
  BY DEF Typed, BackendTypeOK
<1>4. CASE ReadLine /\ late' = late
  <2>1. InOrder' /\ Traffic' = Traffic - 1
    BY <1>1, <1>2, <1>4, ReadInOrder DEF LinesInv
  <2>2. Out # <<>> /\ reader' \in Seq(Responses) /\ stdout' \in Seq(Responses)
    BY <1>4, ReadsOldest
  <2>3. session' \in {"probe", "prepare", "run"} => session \in {"prepare", "run"}
    BY <1>1 DEF Returns
  <2>4. Counted'
    BY <1>1, <1>2, <1>4, <2>1, <2>2, <2>3 DEF Counted
  <2> QED
    BY <1>3, <1>4, <1>a, <2>1, <2>2, <2>4 DEF LinesInv
<1>5. CASE /\ UNCHANGED <<reader, stdout>>
           /\ late' = TRUE \/ (late' = late /\ process = "dead" /\ Lines = <<>>)
           /\ ~Answered
  <2>1. Out' = Out /\ InTool' = InTool /\ Traffic' = Traffic /\ Before' = Before
    BY <1>1, <1>5 DEF Out, InTool, Traffic, Before
  <2>2. InOrder'
    BY <1>1, <2>1 DEF InOrder, LinesInv
  <2>3. Lines = <<>> => Out = <<>>
    <3>1. <<>> \o <<>> = <<>>
      OBVIOUS
    <3> QED
      BY <3>1 DEF Lines, Out
  <2>4. session' \notin {"probe", "prepare", "run"}
    BY <1>1, <1>5 DEF Returns
  <2>5. Counted'
    BY <1>1, <1>2, <1>5, <2>1, <2>3, <2>4 DEF Counted
  <2> QED
    BY <1>3, <1>5, <1>a, <2>2, <2>5 DEF LinesInv
<1>6. Answered => ReadLine /\ late' = late
  BY DEF Answered
<1> QED
  BY <1>4, <1>5, <1>6 DEF Returns, Failed

------------------------------------------------------------------------------
(* The worker's steps.                                                       *)

\* A response has its type.
LEMMA ResponseTyped ==
  ASSUME Typed, NEW request \in Requests, NEW ok \in BOOLEAN, NEW history \in Histories
  PROVE  [id |-> request.id, ok |-> ok, history |-> history, available |-> worker.available]
           \in Responses
BY WorkerTyped DEF Requests, Responses

\* The empty history is one.
LEMMA NoHistory == <<>> \in Histories
<1>1. <<>> \in Seq(Values) /\ Len(<<>>) = 0 /\ MaxSteps \in Nat
  BY BackendAssumption
<1>2. Len(<<>>) <= MaxSteps
  BY <1>1
<1> QED
  BY <1>1, <1>2, HistorySeq

\* An answer without the tool keeps the lines.
LEMMA AtOnceLines ==
  ASSUME Typed, LinesInv, Reject \/ Serve
  PROVE  LinesInv' /\ stdin' \in Seq(Requests) /\ stdout' \in Seq(Responses)
<1>1. /\ process = "up" /\ UNCHANGED <<callVars, process, reader, serving>>
      /\ serving = NoCall /\ stdin # <<>> /\ stdin' = Tail(stdin)
  BY AnswersAtOnce
<1>2. PICK ok \in BOOLEAN :
        /\ Respond(Head(stdin), ok, <<>>)
        /\ ok => ~Rejected(Head(stdin)) /\ ~NeedsTool(Head(stdin))
  BY AnswersAtOnce
<1> DEFINE response == [id |-> Head(stdin).id, ok |-> ok, history |-> <<>>,
                        available |-> worker.available]
<1>3. /\ Head(stdin) \in Requests /\ stdin' \in Seq(Requests) /\ Len(stdin) \in Nat \ {0}
      /\ Len(stdin') = Len(stdin) - 1 /\ issued \in Nat
  BY <1>1, Headed DEF Typed, BackendTypeOK
<1>4. response \in Responses /\ response.id = Head(stdin).id /\ response.ok = ok
  BY <1>3, NoHistory, ResponseTyped
<1>5. stdout' = Append(stdout, response)
  BY <1>2 DEF Respond
<1> HIDE DEF response
<1>6. InOrder' /\ Traffic' = Traffic /\ InTool' = InTool /\ Out' = Append(Out, response)
      /\ stdout' \in Seq(Responses)
  BY <1>1, <1>3, <1>4, <1>5, AnswerInOrder, RespondsLast DEF LinesInv, callVars
<1>7. Counted'
  BY <1>1, <1>6, CountedStays DEF LinesInv, callVars
<1>8. Matched'
  <2>1. SUFFICES ASSUME call # NoCall, Traffic = 1 PROVE Matched'
    BY <1>1, <1>6 DEF Matched, callVars
  <2>2. Out = <<>> /\ Len(stdin) = 1 /\ Head(stdin) = call
    BY <1>1, <1>3, <2>1, OutTyped DEF Traffic, Matched, LinesInv
  <2>3. stdin' = <<>> /\ Head(Out') = response
    <3>1. Len(stdin') = 0
      BY <1>3, <2>2
    <3>2. Out \in Seq(Responses)
      BY OutTyped
    <3> QED
      BY <1>3, <1>4, <1>6, <2>2, <3>1, <3>2, EmptySeq, Appended
  <2>4. worker'.available = worker.available
    BY DEF Reject, Serve, Typed, Workers
  <2>5. ok => call.op = "probe" \/ worker.available
    BY <1>2, <2>2 DEF Rejected
  <2> QED
    BY <1>1, <1>4, <2>3, <2>4, <2>5 DEF Matched, callVars
<1> QED
  BY <1>3, <1>6, <1>7, <1>8 DEF LinesInv

\* A tool that starts keeps the lines.
LEMMA StartLines ==
  ASSUME Typed, LinesInv, StartTool
  PROVE  LinesInv' /\ stdin' \in Seq(Requests)
<1>1. /\ process = "up" /\ UNCHANGED <<callVars, process, reader, stdout>>
      /\ serving = NoCall /\ stdin # <<>> /\ stdin' = Tail(stdin) /\ serving' = Head(stdin)
      /\ worker.available
  BY DEF StartTool, TakeRequest, Waiting, NeedsTool, Rejected
<1>2. /\ Head(stdin) \in Requests /\ stdin' \in Seq(Requests) /\ Len(stdin) \in Nat \ {0}
      /\ Len(stdin') = Len(stdin) - 1 /\ issued \in Nat
  BY <1>1, Headed DEF Typed, BackendTypeOK
<1>3. InOrder' /\ Traffic' = Traffic /\ Out' = Out
  BY <1>1, <1>2, StartInOrder DEF LinesInv, callVars
<1>4. Counted'
  BY <1>1, <1>3, CountedStays DEF LinesInv, callVars
<1>5. Matched'
  <2>1. SUFFICES ASSUME call # NoCall, Traffic = 1 PROVE Matched'
    BY <1>1, <1>3 DEF Matched, callVars
  <2>2. Out = <<>> /\ Len(stdin) = 1 /\ Head(stdin) = call
    BY <1>1, <1>2, <2>1, OutTyped DEF Traffic, Matched, LinesInv
  <2>3. stdin' = <<>>
    <3>1. Len(stdin') = 0
      BY <1>2, <2>2
    <3> QED
      BY <1>2, <3>1, EmptySeq
  <2>4. worker'.available = worker.available
    BY DEF StartTool, Typed, Workers
  <2> QED
    BY <1>1, <1>3, <2>2, <2>3, <2>4 DEF Matched, callVars
<1> QED
  BY <1>2, <1>3, <1>4, <1>5 DEF LinesInv

\* The answer of the tool keeps the lines.
LEMMA ToolLines ==
  ASSUME Typed, LinesInv, WorkerPlaced, StepDone \/ CheckpointDone \/ ToolFails
  PROVE  LinesInv' /\ stdout' \in Seq(Responses)
<1>1. /\ process = "up" /\ UNCHANGED <<callVars, process, stdin, reader>>
      /\ serving # NoCall /\ serving' = NoCall /\ issued \in Nat /\ serving \in Requests
  BY ToolAnswers DEF Typed, BackendTypeOK
<1>2. PICK ok \in BOOLEAN, history \in Histories : Respond(serving, ok, history)
  <2>1. StepDone => Simulated(worker.time + 1) \in Histories
    BY StepTyped DEF StepDone
  <2> QED
    BY <2>1, NoHistory DEF StepDone, CheckpointDone, ToolFails
<1> DEFINE response == [id |-> serving.id, ok |-> ok, history |-> history,
                        available |-> worker.available]
<1>3. response \in Responses /\ response.id = serving.id
  BY <1>1, ResponseTyped
<1>4. stdout' = Append(stdout, response)
  BY <1>2 DEF Respond
<1> HIDE DEF response
<1>5. InOrder' /\ Traffic' = Traffic /\ InTool = 1 /\ Out' = Append(Out, response)
      /\ stdout' \in Seq(Responses)
  BY <1>1, <1>3, <1>4, EndInOrder, RespondsLast DEF LinesInv, callVars
<1>6. Counted'
  BY <1>1, <1>5, CountedStays DEF LinesInv, callVars
<1>7. Matched'
  <2>1. SUFFICES ASSUME call # NoCall, Traffic = 1 PROVE Matched'
    BY <1>1, <1>5 DEF Matched, callVars
  <2>2. stdin = <<>> /\ worker.available
    BY <1>1, <1>5, <2>1, OutTyped DEF Traffic, Matched, LinesInv
  <2>3. worker'.available = worker.available
    BY DEF StepDone, CheckpointDone, ToolFails, Typed, Workers
  <2> QED
    BY <1>1, <2>2, <2>3 DEF Matched, callVars
<1> QED
  BY <1>5, <1>6, <1>7 DEF LinesInv

\* What neither writes nor reads keeps the lines.
LEMMA QuietLines ==
  ASSUME LinesInv, Quiet
  PROVE  LinesInv'
<1>1. /\ UNCHANGED <<call, issued, late, stdin, reader, stdout, serving, worker>>
      /\ process' = process \/ process' # "up"
      /\ session' = session \/ (session' \in {"close", "idle"} /\ call = NoCall)
  BY DEF Quiet
<1>2. Out' = Out /\ InTool' = InTool /\ Traffic' = Traffic /\ Before' = Before
  BY <1>1 DEF Out, InTool, Traffic, Before
<1>3. InOrder' /\ Matched'
  BY <1>1, <1>2 DEF LinesInv, InOrder, Matched
<1>4. Counted'
  BY <1>1, <1>2, CountedStays DEF LinesInv
<1> QED
  BY <1>3, <1>4 DEF LinesInv

\* A new process has no lines.
LEMMA OpenLines ==
  ASSUME LinesInv, NEW kind, Open(kind)
  PROVE  LinesInv'
<1>1. /\ session = "idle" /\ call' = call /\ call = NoCall /\ issued' = 0 /\ late' = FALSE
      /\ stdin' = <<>> /\ stdout' = <<>> /\ reader' = <<>> /\ serving' = NoCall
  BY DEF Open, LinesInv, Counted
<1>2. Out' = <<>> /\ InTool' = 0 /\ InCall' = 0
  <2>1. <<>> \o <<>> = <<>>
    OBVIOUS
  <2> QED
    BY <1>1, <2>1 DEF Out, InTool, InCall
<1>3. Len(Out') = 0 /\ Len(stdin') = 0
  BY <1>1, <1>2
<1>4. Traffic' = 0
  BY <1>2, <1>3 DEF Traffic
<1>5. Before' = 0
  BY <1>1, <1>4 DEF Before
<1>6. InOrder'
  BY <1>1, <1>3, <1>5 DEF InOrder
<1>7. Counted' /\ Matched'
  BY <1>1, <1>2, <1>4 DEF Counted, Matched
<1> QED
  BY <1>6, <1>7 DEF LinesInv

\* Every step keeps the lines.
LEMMA LinesStep ==
  ASSUME Typed, LinesInv, WorkerPlaced, [Next]_vars
  PROVE  LinesInv'
BY StepKinds, AskLines, ReturnLines, AtOnceLines, StartLines, ToolLines, QuietLines, OpenLines
   DEF Works

------------------------------------------------------------------------------
(* Where the worker stands.                                                  *)

\* A step is written only when nothing else is under way, to a worker that stands where
\* the step begins: a zero, which is no time, makes no difference.
LEMMA AskPlaced ==
  ASSUME Typed, LinesInv, WorkerPlaced, RunKept,
         NEW operation, NEW at, NEW value, Asks(operation, at, value)
  PROVE  WorkerPlaced'
<1> DEFINE request == [id |-> issued + 1, op |-> operation, at |-> at, value |-> value]
<1>1. /\ call = NoCall /\ stdin' = Append(stdin, request) /\ UNCHANGED <<worker, serving>>
      /\ stdin \in Seq(Requests)
  BY DEF Asks, Write, runVars, Typed
<1>2. request \in Requests /\ request.op = operation /\ request.at = at
  <2>1. call' = request
    BY DEF Asks, Write
  <2> QED
    BY <2>1, AskLines
<1> HIDE DEF request
<1>3. /\ Len(stdin') = Len(stdin) + 1 /\ Len(stdin) \in Nat
      /\ \A i \in 1..Len(stdin) : stdin'[i] = stdin[i]
      /\ stdin'[Len(stdin) + 1] = request
  BY <1>1, <1>2, Appended, LenProperties
<1>4. ASSUME operation = "step"
      PROVE  /\ Len(stdin) = 0 /\ serving = NoCall
             /\ worker.time = at /\ worker.time < MaxSteps
  <2>1. session = "run" /\ at = Now /\ Now < MaxSteps
    BY <1>4 DEF Asks
  <2>2. Traffic = 0
    BY <1>1, <2>1 DEF LinesInv, Counted, InCall
  <2>3. Len(stdin) = 0 /\ InTool = 0
    BY <2>2, OutTyped DEF Traffic
  <2>4. worker.time = Now
    BY <1>1, <2>1 DEF RunKept, InStep, Done, NoCall
  <2> QED
    BY <2>1, <2>3, <2>4 DEF InTool
<1>5. ASSUME NEW i \in 1..Len(stdin'), stdin'[i].op = "step"
      PROVE  i = 1 /\ serving = NoCall /\ worker.time = stdin'[i].at /\ worker.time < MaxSteps
  <2>1. CASE i \in 1..Len(stdin)
    BY <1>3, <1>5, <2>1 DEF WorkerPlaced
  <2>2. CASE i = Len(stdin) + 1
    BY <1>2, <1>3, <1>4, <1>5, <2>2
  <2> QED
    BY <1>3, <2>1, <2>2
<1> QED
  BY <1>1, <1>5 DEF WorkerPlaced

\* What the worker's steps leave of its place.
LEMMA WorkPlaced ==
  ASSUME Typed, WorkerPlaced, Works
  PROVE  WorkerPlaced' /\ worker' \in Workers /\ serving' \in Requests
<1>1. /\ worker \in Workers /\ serving \in Requests /\ stdin \in Seq(Requests)
      /\ NoCall \in Requests
  BY BackendAssumption DEF Typed, BackendTypeOK, Requests, NoCall, Operations, Times
<1>2. CASE Reject \/ Serve \/ StartTool
  <2>1. /\ stdin # <<>> /\ stdin' = Tail(stdin)
    BY <1>2, AnswersAtOnce DEF StartTool, TakeRequest, Waiting
  <2>2. /\ Head(stdin) = stdin[1] /\ Head(stdin) \in Requests /\ Len(stdin) \in Nat \ {0}
        /\ Len(stdin') = Len(stdin) - 1
        /\ \A i \in 1..(Len(stdin) - 1) : stdin'[i] = stdin[i + 1]
    BY <1>1, <2>1, Headed
  <2>3. ASSUME NEW i \in 1..Len(stdin') PROVE stdin'[i].op # "step"
    <3>1. i + 1 \in 1..Len(stdin) /\ i + 1 # 1 /\ stdin'[i] = stdin[i + 1]
      BY <2>2
    <3> QED
      BY <3>1 DEF WorkerPlaced
  <2>4. /\ worker' \in Workers /\ worker'.time = worker.time
        /\ worker'.snapshot = worker.snapshot
    <3>1. CASE Reject
      BY <1>1, <3>1 DEF Reject, Workers
    <3>2. CASE Serve
      <4>1. Head(stdin).value \in Values
        BY <2>2 DEF Requests
      <4> QED
        BY <1>1, <3>2, <4>1 DEF Serve, Workers
    <3>3. CASE StartTool
      <4>1. TimeOf(Head(stdin)) = worker.time
        <5>1. Head(stdin).op = "step" => worker.time = Head(stdin).at
          BY <2>2 DEF WorkerPlaced
        <5> QED
          BY <5>1 DEF TimeOf
      <4> QED
        BY <1>1, <3>3, <4>1 DEF StartTool, Workers
    <3> QED
      BY <1>2, <3>1, <3>2, <3>3
  <2>5. /\ serving' \in Requests
        /\ serving'.op = "step" => worker.time = serving'.at /\ worker.time < MaxSteps
    <3>1. CASE Reject \/ Serve
      BY <1>1, <3>1, AnswersAtOnce DEF WorkerPlaced
    <3>2. CASE StartTool
      <4>1. serving' = stdin[1] /\ 1 \in 1..Len(stdin)
        BY <2>2, <3>2 DEF StartTool
      <4> QED
        BY <2>2, <4>1 DEF WorkerPlaced
    <3> QED
      BY <1>2, <3>1, <3>2
  <2>6. WorkerPlaced'
    BY <2>3, <2>4, <2>5 DEF WorkerPlaced
  <2> QED
    BY <2>4, <2>5, <2>6
<1>3. CASE StepDone \/ CheckpointDone \/ ToolFails
  <2>1. serving # NoCall /\ serving' = NoCall /\ stdin' = stdin
    BY <1>3, ToolAnswers
  <2>2. serving'.op # "step" /\ \A i \in 1..Len(stdin') : stdin'[i].op # "step"
    BY <2>1 DEF NoCall, WorkerPlaced
  <2>3. /\ worker' \in Workers /\ worker'.snapshot.at <= worker'.time
        /\ Len(worker'.snapshot.history) = worker'.snapshot.at
    <3>1. CASE StepDone
      <4>1. worker.time + 1 \in Times /\ worker.snapshot.at <= worker.time + 1
        BY <3>1, StepTyped DEF StepDone, Times
      <4>2. worker' = [worker EXCEPT !.time = worker.time + 1]
        BY <3>1 DEF StepDone
      <4>3. /\ worker' \in Workers /\ worker'.time = worker.time + 1
            /\ worker'.snapshot = worker.snapshot
        BY <1>1, <4>1, <4>2 DEF Workers
      <4> QED
        BY <4>1, <4>3 DEF WorkerPlaced
    <3>2. CASE CheckpointDone
      <4>1. /\ Simulated(worker.time) \in Seq(Values) /\ Len(Simulated(worker.time)) = worker.time
            /\ worker.time \in 0..MaxSteps /\ MaxSteps \in Nat
        BY WorkerTyped, SimulatedSeq DEF WorkerPlaced
      <4>2. Simulated(worker.time) \in Histories
        BY <4>1, HistorySeq
      <4> DEFINE snapshot == [taken |-> TRUE, at |-> worker.time,
                              history |-> Simulated(worker.time)]
      <4>3. /\ snapshot \in [taken : BOOLEAN, at : Times, history : Histories]
            /\ snapshot.at = worker.time /\ Len(snapshot.history) = worker.time
        BY <4>1, <4>2 DEF Times
      <4>4. worker' = [worker EXCEPT !.snapshot = snapshot]
        BY <3>2 DEF CheckpointDone, Snapshot
      <4> HIDE DEF snapshot
      <4>5. worker' \in Workers /\ worker'.time = worker.time /\ worker'.snapshot = snapshot
        BY <1>1, <4>3, <4>4 DEF Workers
      <4> QED
        BY <4>1, <4>3, <4>5
    <3>3. CASE ToolFails
      BY <1>1, <3>3 DEF ToolFails, WorkerPlaced
    <3> QED
      BY <1>3, <3>1, <3>2, <3>3
  <2> QED
    BY <1>1, <2>1, <2>2, <2>3 DEF WorkerPlaced
<1> QED
  BY <1>2, <1>3 DEF Works

\* Every step keeps the worker's place.
LEMMA PlacedStep ==
  ASSUME Typed, LinesInv, WorkerPlaced, RunKept, [Next]_vars
  PROVE  WorkerPlaced'
<1>1. ASSUME UNCHANGED <<worker, stdin, serving>> PROVE WorkerPlaced'
  BY <1>1 DEF WorkerPlaced
<1>2. ASSUME NEW then, Returns(then) PROVE WorkerPlaced'
  BY <1>1, <1>2 DEF Returns, Returned
<1>3. CASE Quiet
  BY <1>1, <1>3 DEF Quiet
<1>4. ASSUME NEW kind, Open(kind) PROVE WorkerPlaced'
  <2>1. /\ stdin' = <<>> /\ serving' = NoCall /\ Len(<<>>) = 0
        /\ worker'.time = 0 /\ worker'.snapshot = NoSnapshot
    BY <1>4 DEF Open, NewWorker
  <2> QED
    BY <2>1 DEF WorkerPlaced, NoSnapshot, NoCall
<1> QED
  BY StepKinds, AskPlaced, WorkPlaced, <1>2, <1>3, <1>4

------------------------------------------------------------------------------
(* Types.                                                                    *)

\* What the run remembers.
RunTyped ==
  /\ told \in Histories /\ seen \in Histories /\ held \in Values
  /\ injections \in 0..MaxInjections
  /\ marks \subseteq [at : Times, clean : BOOLEAN]

\* The rest of BackendTypeOK, and the sequences as such.
LineTyped ==
  /\ session \in Sessions /\ call \in Requests /\ serving \in Requests
  /\ issued \in Nat /\ late \in BOOLEAN /\ installed \in BOOLEAN
  /\ process \in {"none", "up", "dead"} /\ probed \in {"unknown", "yes", "no"}
  /\ stdin \in Seq(Requests) /\ stdout \in Seq(Responses) /\ reader \in Seq(Responses)

\* The three parts are all there is to it.
LEMMA TypedParts == Typed <=> RunTyped /\ LineTyped /\ worker \in Workers
<1>1. Typed => RunTyped /\ LineTyped /\ worker \in Workers
  BY DEF Typed, RunTyped, LineTyped, BackendTypeOK
<1>2. LineTyped =>
        /\ \A i \in DOMAIN stdin : stdin[i] \in Requests
        /\ \A i \in DOMAIN stdout : stdout[i] \in Responses
        /\ \A i \in DOMAIN reader : reader[i] \in Responses
  BY LenProperties, ElementOfSeq DEF LineTyped
<1>3. RunTyped /\ LineTyped /\ worker \in Workers => Typed
  BY <1>2 DEF Typed, RunTyped, LineTyped, BackendTypeOK, Workers
<1> QED
  BY <1>1, <1>3

\* And so they are after a step.
LEMMA TypedNext ==
  ASSUME RunTyped', LineTyped', worker' \in Workers
  PROVE  Typed'
<1>1. /\ \A i \in DOMAIN stdin' : stdin'[i] \in Requests
      /\ \A i \in DOMAIN stdout' : stdout'[i] \in Responses
      /\ \A i \in DOMAIN reader' : reader'[i] \in Responses
  BY LenProperties, ElementOfSeq DEF LineTyped
<1>2. BackendTypeOK'
  BY <1>1 DEF RunTyped, LineTyped, BackendTypeOK, Workers
<1> QED
  BY <1>2 DEF Typed, LineTyped

\* The call that is answered in a run is the one the worker has done.
LEMMA AnsweredCall ==
  ASSUME Typed, LinesInv, RunKept, CallAnswered
  PROVE  /\ session = "run" /\ session' = "run" /\ call # NoCall /\ call' = NoCall
         /\ Head(Lines) = Head(Out) /\ Head(Out) \in Responses
         /\ Done(call.op) /\ Out' = <<>>
         /\ UNCHANGED <<worker, stdin, serving>>
<1>1. /\ session = "run" /\ session' = "run" /\ call # NoCall /\ call' = NoCall
      /\ ReadLine /\ ~Refused /\ UNCHANGED <<issued, worker, stdin, serving>>
  BY DEF CallAnswered, Answered, Returned
<1>2. /\ Out # <<>> /\ Out \in Seq(Responses) /\ Head(Lines) = Head(Out) /\ Out' = Tail(Out)
  BY <1>1, ReadsOldest, OutTyped
<1>3. Traffic = 1
  BY <1>1 DEF LinesInv, Counted, InCall
<1>4. Len(Out) = 1
  BY <1>2, <1>3, OutTyped DEF Traffic
<1>5. Head(Out) \in Responses /\ Out' \in Seq(Responses) /\ Len(Out') = 0
  BY <1>2, <1>4, Headed
<1>6. Done(call.op)
  BY <1>1, <1>2 DEF Refused, Done
<1>7. Out' = <<>>
  BY <1>5, EmptySeq
<1> QED
  BY <1>1, <1>2, <1>5, <1>6, <1>7

\* What an answer adds to the run has its type.
LEMMA AnsweredTyped ==
  ASSUME Typed, LinesInv, RunKept, CallAnswered
  PROVE  RunTyped'
<1>1. /\ session = "run" /\ call # NoCall /\ call \in Requests
      /\ Head(Lines) \in Responses /\ RunTyped
  BY AnsweredCall, TypedParts DEF LineTyped
<1>2. CallInRun
  BY <1>1 DEF RunKept
<1>3. MaxInjections \in Nat /\ MaxSteps \in Nat
  BY BackendAssumption
<1>4. told \in Seq(Values) /\ Now \in Nat /\ Now <= MaxSteps
  BY <1>1, HistorySeq, LenProperties DEF RunTyped, Now
<1>5. told' \in Histories
  <2>1. CASE call.op = "step"
    <3>1. told' = Append(told, held) /\ Now < MaxSteps
      BY <1>1, <1>2, <2>1 DEF CallAnswered, CallInRun
    <3>2. told' \in Seq(Values) /\ Len(told') = Now + 1
      BY <1>1, <1>4, <3>1, Appended DEF RunTyped, Now
    <3>3. Len(told') <= MaxSteps
      BY <1>3, <1>4, <3>1, <3>2
    <3> QED
      BY <3>2, <3>3, HistorySeq
  <2>2. CASE call.op # "step"
    BY <1>1, <2>2 DEF CallAnswered, RunTyped
  <2> QED
    BY <2>1, <2>2
<1>6. seen' \in Histories /\ held' \in Values
  BY <1>1 DEF CallAnswered, RunTyped, Responses, Requests
<1>7. injections' \in 0..MaxInjections
  <2>1. CASE call.op = "inject"
    BY <1>1, <1>2, <1>3, <2>1 DEF CallAnswered, RunTyped, CallInRun
  <2>2. CASE call.op # "inject"
    BY <1>1, <2>2 DEF CallAnswered, RunTyped
  <2> QED
    BY <2>1, <2>2
<1>8. marks' \subseteq [at : Times, clean : BOOLEAN]
  <2>1. Mark \in [at : Times, clean : BOOLEAN]
    <3>1. Now \in Times
      BY <1>3, <1>4 DEF Times
    <3> QED
      BY <3>1 DEF Mark
  <2> QED
    BY <1>1, <2>1 DEF CallAnswered, RunTyped
<1> QED
  BY <1>5, <1>6, <1>7, <1>8 DEF RunTyped

\* Every step keeps the types.
LEMMA TypedStep ==
  ASSUME Typed, LinesInv, WorkerPlaced, RunKept, [Next]_vars
  PROVE  Typed'
<1>1. RunTyped /\ LineTyped /\ worker \in Workers
  BY TypedParts
<1>2. ASSUME UNCHANGED runVars PROVE RunTyped'
  BY <1>1, <1>2 DEF RunTyped, runVars
<1>3. NoCall \in Requests
  BY BackendAssumption DEF Requests, NoCall, Operations, Times
<1>4. ASSUME NEW operation, NEW at, NEW value, Asks(operation, at, value) PROVE Typed'
  <2>1. call' \in Requests /\ stdin' \in Seq(Requests)
    BY <1>4, AskLines
  <2>2. /\ UNCHANGED <<session, late, process, stdout, reader, worker, serving, runVars,
                       probed, hostVars>>
        /\ issued' = issued + 1
    BY <1>4 DEF Asks, Write
  <2>3. LineTyped'
    BY <1>1, <2>1, <2>2 DEF LineTyped, hostVars
  <2> QED
    BY <1>1, <1>2, <2>2, <2>3, TypedNext
<1>5. ASSUME NEW then, Returns(then) PROVE Typed'
  <2>1. reader' \in Seq(Responses) /\ stdout' \in Seq(Responses) /\ late' \in BOOLEAN
    BY <1>5, ReturnLines
  <2>2. /\ UNCHANGED <<issued, process, stdin, worker, serving, hostVars>>
        /\ session' \in Sessions /\ call' = NoCall /\ probed' \in {"yes", "no", probed}
    BY <1>5 DEF Returns, Returned
  <2>3. LineTyped'
    BY <1>1, <1>3, <2>1, <2>2 DEF LineTyped, hostVars
  <2>4. RunTyped'
    BY <1>2, <1>5, AnsweredTyped DEF Returns
  <2> QED
    BY <1>1, <2>2, <2>3, <2>4, TypedNext
<1>6. CASE Works
  <2>1. worker' \in Workers /\ serving' \in Requests
    BY <1>6, WorkPlaced
  <2>2. /\ UNCHANGED <<callVars, process, reader, runVars, probed, hostVars>>
    BY <1>6 DEF Works, Reject, Serve, StartTool, TakeRequest, StepDone, CheckpointDone,
                ToolFails
  <2>3. stdin' \in Seq(Requests) /\ stdout' \in Seq(Responses)
    <3>1. CASE Reject \/ Serve
      BY <3>1, AtOnceLines
    <3>2. CASE StartTool
      BY <1>1, <3>2, StartLines DEF StartTool, LineTyped
    <3>3. CASE StepDone \/ CheckpointDone \/ ToolFails
      BY <1>1, <3>3, ToolLines, ToolAnswers DEF LineTyped
    <3> QED
      BY <1>6, <3>1, <3>2, <3>3 DEF Works
  <2>4. LineTyped'
    BY <1>1, <2>1, <2>2, <2>3 DEF LineTyped, callVars, hostVars
  <2> QED
    BY <1>2, <2>1, <2>2, <2>4, TypedNext
<1>7. CASE Quiet
  <2>1. /\ UNCHANGED <<call, issued, late, stdin, stdout, reader, serving, worker, runVars,
                       probed>>
        /\ session' \in Sessions /\ process' \in {"none", "up", "dead"}
        /\ installed' \in BOOLEAN
    BY <1>1, <1>7 DEF Quiet, Sessions, LineTyped
  <2>2. LineTyped'
    BY <1>1, <2>1 DEF LineTyped
  <2> QED
    BY <1>1, <1>2, <2>1, <2>2, TypedNext
<1>8. ASSUME NEW kind \in {"probe", "prepare"}, Open(kind) PROVE Typed'
  <2>1. /\ session' = kind /\ call' = call /\ serving' = NoCall /\ issued' = 0
        /\ late' = FALSE /\ installed' = installed /\ process' = "up" /\ probed' = probed
        /\ stdin' = <<>> /\ stdout' = <<>> /\ reader' = <<>>
        /\ worker' = NewWorker
        /\ told' = <<>> /\ held' = 0 /\ injections' = 0 /\ marks' = {} /\ seen' = <<>>
    BY <1>8 DEF Open
  <2>2. LineTyped'
    <3>1. kind \in Sessions
      BY DEF Sessions
    <3>2. <<>> \in Seq(Requests) /\ <<>> \in Seq(Responses)
      OBVIOUS
    <3> QED
      BY <1>1, <1>3, <2>1, <3>1, <3>2 DEF LineTyped
  <2>3. worker' \in Workers
    <3>1. NoSnapshot \in [taken : BOOLEAN, at : Times, history : Histories]
      BY NoHistory, BackendAssumption DEF NoSnapshot, Times
    <3>2. installed \in BOOLEAN /\ 0 \in Times /\ 0 \in Values
      BY <1>1, BackendAssumption DEF LineTyped, Times
    <3> HIDE DEF NoSnapshot
    <3> QED
      BY <2>1, <3>1, <3>2 DEF NewWorker, Workers
  <2>4. RunTyped'
    BY <2>1, NoHistory, BackendAssumption DEF RunTyped
  <2> QED
    BY <2>2, <2>3, <2>4, TypedNext
<1> QED
  BY <1>4, <1>5, <1>6, <1>7, <1>8, StepKinds

------------------------------------------------------------------------------
(* The run: every answered step is simulated on the machine of its history.  *)

\* What a checkpoint or a step adds was not there before: without it the run is
\* replayable if it is with it.
LEMMA ReplayedBefore ==
  ASSUME NEW m, NEW s \in Seq(Values), NEW e \in Values, Replayable(m, Append(s, e))
  PROVE  /\ Replayable(m, s)
         /\ s # <<>> => e = Last(s) \/ [at |-> Len(s), clean |-> TRUE] \in m
<1>1. /\ Len(Append(s, e)) = Len(s) + 1 /\ Len(s) \in Nat
      /\ \A i \in 1..Len(s) : Append(s, e)[i] = s[i]
      /\ Append(s, e)[Len(s) + 1] = e
  BY Appended, LenProperties
<1>2. ASSUME NEW i \in 2..Len(s), s[i] # s[i - 1] PROVE [at |-> i - 1, clean |-> TRUE] \in m
  <2>1. i \in 2..Len(Append(s, e)) /\ i \in 1..Len(s) /\ i - 1 \in 1..Len(s)
    BY <1>1
  <2>2. Append(s, e)[i] # Append(s, e)[i - 1]
    BY <1>1, <1>2, <2>1
  <2> QED
    BY <2>1, <2>2 DEF Replayable
<1>3. ASSUME s # <<>>, e # Last(s) PROVE [at |-> Len(s), clean |-> TRUE] \in m
  <2>1. Len(s) # 0
    BY <1>3, EmptySeq
  <2>2. /\ Len(s) + 1 \in 2..Len(Append(s, e)) /\ Len(s) \in 1..Len(s)
        /\ (Len(s) + 1) - 1 = Len(s)
    BY <1>1, <2>1
  <2>3. Append(s, e)[Len(s) + 1] # Append(s, e)[(Len(s) + 1) - 1]
    BY <1>1, <1>3, <2>2 DEF Last
  <2> QED
    BY <2>2, <2>3 DEF Replayable
<1> QED
  BY <1>2, <1>3 DEF Replayable

\* Neither was a checkpoint of now, which also has to be clean.
LEMMA MarkedBefore ==
  ASSUME NEW m, NEW s \in Seq(Values), NEW clean \in BOOLEAN,
         Replayable(m \cup {[at |-> Len(s), clean |-> clean]}, s)
  PROVE  Replayable(m, s) /\ clean
<1> DEFINE mark == [at |-> Len(s), clean |-> clean]
<1>1. mark.clean = clean /\ mark.at = Len(s)
  OBVIOUS
<1>2. clean /\ \A n \in m : n.clean
  <2>1. mark.clean /\ \A n \in m : n.clean
    BY DEF Replayable
  <2> QED
    BY <1>1, <2>1
<1>3. ASSUME NEW i \in 2..Len(s), s[i] # s[i - 1] PROVE [at |-> i - 1, clean |-> TRUE] \in m
  <2>1. [at |-> i - 1, clean |-> TRUE] \in m \cup {mark}
    BY <1>3 DEF Replayable
  <2>2. Len(s) \in Nat /\ i - 1 # Len(s)
    BY LenProperties
  <2>3. [at |-> i - 1, clean |-> TRUE] # mark
    BY <1>1, <2>2
  <2> QED
    BY <2>1, <2>3
<1> QED
  BY <1>2, <1>3 DEF Replayable

\* In a run that can be replayed the machine simulated from the snapshot is the one
\* that had the inputs of the run.
LEMMA ReplayIsTrue ==
  ASSUME Typed, WorkerPlaced, SnapshotKept, worker.input = held,
         Replayable(marks, told), call.op = "checkpoint" => held = Last(told),
         told # <<>> => held = Last(told) \/ worker.snapshot.at = Now
  PROVE  /\ Simulated(Now) = told
         /\ Simulated(Now + 1) = Append(told, held)
<1>1. told \in Seq(Values) /\ held \in Values /\ Now \in Nat /\ Now = Len(told)
  BY HistorySeq, LenProperties DEF Typed, BackendTypeOK, Now
<1>2. /\ worker.snapshot.at \in Nat /\ worker.snapshot.at <= Now
      /\ worker.snapshot.history = SubSeq(told, 1, worker.snapshot.at)
      /\ \A i \in (worker.snapshot.at + 1)..Now : told[i] = Last(told)
  BY WorkerTyped DEF SnapshotKept
<1> DEFINE at == worker.snapshot.at
<1>3. ASSUME NEW i \in 1..Now
      PROVE  (IF i <= at THEN worker.snapshot.history[i] ELSE worker.input) = told[i]
  <2>1. CASE i <= at
    <3>1. \A j \in 1..at : SubSeq(told, 1, at)[j] = told[j]
      BY <1>1, <1>2, SubSeqProperties
    <3> QED
      BY <1>1, <1>2, <2>1, <3>1
  <2>2. CASE ~(i <= at)
    <3>1. i \in (at + 1)..Now /\ at # Now
      BY <1>1, <1>2, <2>2
    <3>2. told # <<>>
      BY <1>1
    <3> QED
      BY <1>2, <2>2, <3>1, <3>2
  <2> QED
    BY <2>1, <2>2
<1>4. Simulated(Now) = told
  <2>1. /\ Simulated(Now) \in Seq(Values) /\ Len(Simulated(Now)) = Now
        /\ \A i \in 1..Now : Simulated(Now)[i] = told[i]
    BY <1>1, <1>2, <1>3, SimulatedSeq
  <2> QED
    BY <1>1, <2>1, SeqEqual
<1>5. Simulated(Now + 1) = Append(told, held)
  <2>1. /\ Append(told, held) \in Seq(Values) /\ Len(Append(told, held)) = Now + 1
        /\ \A i \in 1..Now : Append(told, held)[i] = told[i]
        /\ Append(told, held)[Now + 1] = held
    BY <1>1, Appended
  <2>2. Now + 1 \in Nat /\ at <= Now + 1 /\ ~(Now + 1 <= at)
    BY <1>1, <1>2
  <2>3. /\ Simulated(Now + 1) \in Seq(Values) /\ Len(Simulated(Now + 1)) = Now + 1
        /\ \A i \in 1..(Now + 1) : Simulated(Now + 1)[i] =
             IF i <= at THEN worker.snapshot.history[i] ELSE worker.input
    BY <2>2, SimulatedSeq
  <2>4. ASSUME NEW i \in 1..(Now + 1) PROVE Simulated(Now + 1)[i] = Append(told, held)[i]
    <3>1. CASE i \in 1..Now
      BY <1>3, <2>1, <2>3, <3>1
    <3>2. CASE i = Now + 1
      BY <2>1, <2>2, <2>3, <3>2
    <3> QED
      BY <1>1, <3>1, <3>2
  <2> QED
    BY <2>1, <2>3, <2>4, SeqEqual
<1> QED
  BY <1>4, <1>5

\* While a run waits for nothing the worker has nothing to tell.
LEMMA NothingDone ==
  ASSUME Typed, LinesInv, session \in {"prepare", "run"}, call = NoCall
  PROVE  Out = <<>>
BY OutTyped DEF LinesInv, Counted, InCall, Traffic

\* A request that is written leaves the run as it is.
LEMMA AskKeepsRun ==
  ASSUME Typed, LinesInv, RunKept,
         NEW operation, NEW at, NEW value, Asks(operation, at, value)
  PROVE  RunKept'
<1>1. SUFFICES ASSUME session \in {"prepare", "run"}
               PROVE  CallInRun' /\ InStep' /\ SnapshotKept' /\ StepAnswer'
  BY DEF RunKept, Asks, Write
<1>2. /\ call = NoCall /\ session' = session /\ UNCHANGED <<worker, reader, stdout, runVars>>
      /\ call'.op = operation /\ call'.at = at
  BY DEF Asks, Write
<1>3. Out = <<>> /\ Out' = <<>>
  BY <1>1, <1>2, NothingDone DEF Out
<1>4. CallInRun /\ InStep /\ SnapshotKept /\ call.op = "none"
  BY <1>1, <1>2 DEF RunKept, NoCall
<1>5. CallInRun'
  BY <1>1, <1>2, <1>4 DEF CallInRun, Asks, runVars, Now
<1>6. InStep'
  BY <1>2, <1>3, <1>4 DEF InStep, Done, runVars, Now
<1>7. SnapshotKept'
  BY <1>2, <1>3, <1>4 DEF SnapshotKept, Done, runVars, Now
<1> QED
  BY <1>3, <1>5, <1>6, <1>7 DEF StepAnswer, Done

\* What has been prepared is at its start.
LEMMA PreparedRun ==
  ASSUME RunKept, session = "prepare", call # NoCall, call' = NoCall,
         session' = "run", UNCHANGED <<worker, runVars>>
  PROVE  RunKept'
<1>1. CallInRun /\ InStep /\ SnapshotKept /\ call.op = "prepare" /\ call'.op = "none"
  BY DEF RunKept, CallInRun, NoCall
<1>2. CallInRun'
  BY DEF CallInRun
<1>3. InStep'
  BY <1>1 DEF InStep, Done, runVars, Now
<1>4. SnapshotKept'
  BY <1>1 DEF SnapshotKept, Done, runVars, Now
<1> QED
  BY <1>1, <1>2, <1>3, <1>4 DEF RunKept, StepAnswer, Done

\* An answer that is accepted makes the run agree with the worker.
LEMMA AnswerKeepsRun ==
  ASSUME Typed, LinesInv, WorkerPlaced, RunKept, StepsSeeTheirHistory, CallAnswered
  PROVE  RunKept' /\ StepsSeeTheirHistory'
<1>1. /\ session = "run" /\ session' = "run" /\ call # NoCall /\ call' = NoCall
      /\ Head(Lines) = Head(Out) /\ Done(call.op) /\ Out' = <<>> /\ worker' = worker
  BY AnsweredCall
<1>2. CallInRun /\ InStep /\ SnapshotKept /\ StepAnswer
  BY <1>1 DEF RunKept
<1>3. call'.op = "none" /\ call.op \in {"inject", "step", "checkpoint"}
  BY <1>1, <1>2 DEF NoCall, CallInRun
<1>4. CallInRun' /\ StepAnswer'
  BY <1>1, <1>3 DEF CallInRun, StepAnswer, Done
<1>5. told \in Seq(Values) /\ held \in Values /\ Now \in Nat /\ Now = Len(told)
  BY HistorySeq, LenProperties DEF Typed, BackendTypeOK, Now
<1>6. worker.snapshot.at \in Nat
  BY WorkerTyped
<1>7. CASE call.op = "inject"
  <2>1. told' = told /\ marks' = marks /\ seen' = seen /\ held' = call.value /\ Now' = Now
    BY <1>7 DEF CallAnswered, Now
  <2>2. InStep'
    BY <1>1, <1>2, <1>3, <1>7, <2>1 DEF InStep, Done
  <2>3. SnapshotKept'
    BY <1>1, <1>2, <1>3, <1>7, <2>1 DEF SnapshotKept, Done
  <2> QED
    BY <1>4, <2>1, <2>2, <2>3 DEF RunKept, StepsSeeTheirHistory
<1>8. CASE call.op = "checkpoint"
  <2>1. /\ told' = told /\ marks' = marks \cup {Mark} /\ seen' = seen /\ held' = held
        /\ Now' = Now
    BY <1>8 DEF CallAnswered, Now
  <2>2. InStep'
    BY <1>1, <1>2, <1>3, <1>8, <2>1 DEF InStep, Done
  <2>3. ASSUME Replayable(marks', told) PROVE Replayable(marks, told) /\ held = Last(told)
    <3>1. Mark = [at |-> Len(told), clean |-> held = Last(told)]
      BY DEF Mark, Now
    <3>2. (held = Last(told)) \in BOOLEAN
      OBVIOUS
    <3> QED
      BY <1>5, <2>1, <2>3, <3>1, <3>2, MarkedBefore
  <2>4. worker.snapshot.at = Now
    BY <1>1, <1>2, <1>8 DEF SnapshotKept
  <2>5. SnapshotKept'
    <3>1. /\ worker'.snapshot = worker.snapshot
          /\ \A m \in marks' : m.at <= worker.snapshot.at
      <4>1. Mark.at = Now
        BY DEF Mark
      <4> QED
        BY <1>1, <1>2, <1>5, <2>1, <2>4, <4>1 DEF SnapshotKept
    <3>2. Replayable(marks', told) =>
            /\ worker.snapshot.history = SubSeq(told, 1, worker.snapshot.at)
            /\ \A i \in (worker.snapshot.at + 1)..Now : told[i] = Last(told)
      BY <1>2, <2>3 DEF SnapshotKept
    <3> QED
      BY <1>3, <1>5, <2>1, <2>4, <3>1, <3>2 DEF SnapshotKept, Done
  <2>6. StepsSeeTheirHistory'
    BY <2>1, <2>3 DEF StepsSeeTheirHistory, Replayable
  <2> QED
    BY <1>4, <2>2, <2>5, <2>6 DEF RunKept
<1>9. CASE call.op = "step"
  <2>1. /\ told' = Append(told, held) /\ marks' = marks /\ seen' = Head(Out).history
        /\ held' = held
    BY <1>1, <1>9 DEF CallAnswered
  <2>2. /\ told' \in Seq(Values) /\ Now' = Now + 1
        /\ \A i \in 1..Now : told'[i] = told[i]
        /\ told'[Now + 1] = held /\ Last(told') = held
    BY <1>5, <2>1, Appended DEF Now, Last
  <2>3. InStep'
    BY <1>1, <1>2, <1>3, <1>9, <2>1, <2>2 DEF InStep, Done
  <2>4. ASSUME Replayable(marks, told')
        PROVE  /\ Replayable(marks, told)
               /\ told # <<>> => held = Last(told) \/ worker.snapshot.at = Now
    <3>1. /\ Replayable(marks, told)
          /\ told # <<>> => held = Last(told) \/ [at |-> Now, clean |-> TRUE] \in marks
      BY <1>5, <2>1, <2>4, ReplayedBefore
    <3>2. ASSUME [at |-> Now, clean |-> TRUE] \in marks PROVE worker.snapshot.at = Now
      <4> DEFINE mark == [at |-> Now, clean |-> TRUE]
      <4>1. mark.at = Now /\ mark \in marks
        BY <3>2
      <4>2. Now <= worker.snapshot.at /\ worker.snapshot.at <= Now
        BY <1>2, <4>1 DEF SnapshotKept
      <4> QED
        BY <1>5, <1>6, <4>2
    <3> QED
      BY <3>1, <3>2
  <2>5. SnapshotKept'
    <3>1. /\ worker'.snapshot = worker.snapshot /\ worker.snapshot.at <= Now
          /\ worker.snapshot.at <= Now + 1
          /\ \A m \in marks' : m.at <= worker.snapshot.at
      BY <1>1, <1>2, <1>5, <1>6, <2>1 DEF SnapshotKept
    <3>2. ASSUME Replayable(marks, told')
          PROVE  worker.snapshot.history = SubSeq(told', 1, worker.snapshot.at)
      <4>1. worker.snapshot.history = SubSeq(told, 1, worker.snapshot.at)
        BY <1>2, <1>9, <2>4, <3>2 DEF SnapshotKept
      <4>2. /\ SubSeq(told, 1, worker.snapshot.at) \in Seq(Values)
            /\ Len(SubSeq(told, 1, worker.snapshot.at)) = worker.snapshot.at
            /\ \A i \in 1..worker.snapshot.at :
                 SubSeq(told, 1, worker.snapshot.at)[i] = told[i]
        BY <1>5, <1>6, <3>1, SubSeqProperties
      <4>3. /\ SubSeq(told', 1, worker.snapshot.at) \in Seq(Values)
            /\ Len(SubSeq(told', 1, worker.snapshot.at)) = worker.snapshot.at
            /\ \A i \in 1..worker.snapshot.at :
                 SubSeq(told', 1, worker.snapshot.at)[i] = told'[i]
        BY <1>5, <1>6, <2>2, <3>1, SubSeqProperties DEF Now
      <4>4. \A i \in 1..worker.snapshot.at : told[i] = told'[i]
        BY <1>5, <1>6, <2>2, <3>1
      <4> QED
        BY <4>1, <4>2, <4>3, <4>4, SeqEqual
    <3>3. ASSUME Replayable(marks, told'), NEW i \in (worker.snapshot.at + 1)..(Now + 1)
          PROVE  told'[i] = held
      <4>1. CASE i = Now + 1
        BY <2>2, <4>1
      <4>2. CASE i # Now + 1
        <5>1. i \in (worker.snapshot.at + 1)..Now /\ i \in 1..Now /\ worker.snapshot.at # Now
          BY <1>5, <1>6, <3>1, <3>3, <4>2
        <5>2. told # <<>>
          BY <1>5, <5>1
        <5>3. held = Last(told) /\ told[i] = Last(told)
          BY <1>2, <2>4, <3>3, <5>1, <5>2 DEF SnapshotKept
        <5> QED
          BY <2>2, <5>1, <5>3
      <4> QED
        BY <4>1, <4>2
    <3> QED
      BY <1>3, <2>1, <2>2, <3>1, <3>2, <3>3 DEF SnapshotKept, Done
  <2>6. StepsSeeTheirHistory'
    <3>1. Replayable(marks, told') => seen' = told'
      BY <1>1, <1>2, <1>9, <2>1 DEF StepAnswer
    <3> QED
      BY <2>1, <3>1 DEF StepsSeeTheirHistory, Replayable
  <2> QED
    BY <1>4, <2>3, <2>5, <2>6 DEF RunKept
<1> QED
  BY <1>3, <1>7, <1>8, <1>9

\* While a run goes on, what the worker takes or serves is what the call asked for.
LEMMA WorksOnCall ==
  ASSUME Typed, LinesInv, Works, session \in {"prepare", "run"}
  PROVE  /\ call # NoCall /\ Out = <<>>
         /\ stdin # <<>> => Head(stdin) = call /\ serving = NoCall
         /\ serving # NoCall => serving = call
<1>1. stdin # <<>> \/ serving # NoCall
  BY AnswersAtOnce, ToolAnswers DEF Works, StartTool, TakeRequest, Waiting
<1>2. Traffic = InCall
  BY DEF LinesInv, Counted
<1>3. call # NoCall /\ Traffic = 1 /\ Out = <<>> /\ (stdin # <<>> => serving = NoCall)
  BY <1>1, <1>2, OutTyped DEF Traffic, InTool, InCall
<1> QED
  BY <1>3 DEF LinesInv, Matched

\* The line a worker writes to an adapter that has none is the one it will read.
LEMMA OnlyAnswer ==
  ASSUME Typed, Out = <<>>, NEW request \in Requests, NEW ok \in BOOLEAN,
         NEW history \in Histories, Respond(request, ok, history), reader' = reader
  PROVE  Out' # <<>> /\ Head(Out').ok = ok /\ Head(Out').history = history
<1> DEFINE response == [id |-> request.id, ok |-> ok, history |-> history,
                        available |-> worker.available]
<1>1. response \in Responses /\ response.ok = ok /\ response.history = history
  BY ResponseTyped
<1>2. stdout' = Append(stdout, response)
  BY DEF Respond
<1> HIDE DEF response
<1>3. Out' = Append(Out, response)
  BY <1>1, <1>2, RespondsLast
<1> QED
  BY <1>1, <1>3, OutTyped, Appended

\* An answer without the tool.
LEMMA AtOnceKeepsRun ==
  ASSUME Typed, LinesInv, WorkerPlaced, RunKept, session \in {"prepare", "run"},
         Reject \/ Serve
  PROVE  InStep' /\ SnapshotKept' /\ StepAnswer'
<1>1. /\ reader' = reader /\ UNCHANGED <<callVars, runVars>>
      /\ stdin # <<>> /\ Head(stdin) = call /\ Out = <<>> /\ call \in Requests
  BY AnswersAtOnce, WorksOnCall DEF Works, Typed, BackendTypeOK
<1>2. /\ call' = call /\ told' = told /\ held' = held /\ marks' = marks /\ Now' = Now
      /\ InStep /\ SnapshotKept
  BY <1>1 DEF callVars, runVars, Now, RunKept
<1>3. worker.time = Now /\ worker.input = held
  BY <1>1, <1>2 DEF InStep, Done
<1>4. worker \in Workers /\ call.value \in Values
  BY <1>1 DEF Typed, Requests
<1>5. CASE Reject
  <2>1. Out' # <<>> /\ Head(Out').ok = FALSE
    <3>1. Respond(call, FALSE, <<>>)
      BY <1>1, <1>5 DEF Reject
    <3> QED
      BY <1>1, <3>1, OnlyAnswer, NoHistory
  <2>2. /\ worker'.time = worker.time /\ worker'.input = worker.input
        /\ worker'.snapshot = worker.snapshot
    BY <1>4, <1>5 DEF Reject, Workers
  <2> QED
    BY <1>2, <1>3, <2>1, <2>2 DEF InStep, SnapshotKept, StepAnswer, Done
<1>6. CASE Serve
  <2>1. PICK ok \in {TRUE, ~MayFail(call)} : Respond(call, ok, <<>>)
    BY <1>1, <1>6 DEF Serve
  <2>2. Out' # <<>> /\ Head(Out').ok = ok
    <3>1. ok \in BOOLEAN
      BY <2>1 DEF MayFail
    <3> QED
      BY <1>1, <2>1, <3>1, OnlyAnswer, NoHistory
  <2>3. /\ worker'.time = worker.time
        /\ worker'.input = IF call.op = "inject" THEN call.value ELSE worker.input
        /\ worker'.snapshot = worker.snapshot
        /\ ~NeedsTool(call)
    <3>1. /\ ~NeedsTool(call)
          /\ worker' = [worker EXCEPT
                          !.prepared = (@ \/ call.op = "prepare") /\ call.op # "shutdown",
                          !.input = IF call.op = "inject" THEN call.value ELSE @,
                          !.served = call.op = "shutdown"]
      BY <1>1, <1>6 DEF Serve
    <3> QED
      BY <1>4, <3>1 DEF Workers
  <2>4. call.op # "step" /\ (call.op = "checkpoint" => worker.snapshot.at = worker.time)
    BY <2>3 DEF NeedsTool, HasSnapshot
  <2>5. call.op = "inject" => ok = TRUE
    BY <2>1 DEF MayFail
  <2>6. InStep'
    BY <1>2, <1>3, <2>2, <2>3, <2>4, <2>5 DEF InStep, Done
  <2>7. SnapshotKept'
    BY <1>2, <1>3, <2>3, <2>4 DEF SnapshotKept, Done
  <2> QED
    BY <1>2, <2>4, <2>6, <2>7 DEF StepAnswer, Done
<1> QED
  BY <1>5, <1>6

\* The tool, from its start to its end.
LEMMA ToolKeepsRun ==
  ASSUME Typed, LinesInv, WorkerPlaced, RunKept, session \in {"prepare", "run"},
         StartTool \/ StepDone \/ CheckpointDone \/ ToolFails
  PROVE  InStep' /\ SnapshotKept' /\ StepAnswer'
<1>1. UNCHANGED <<callVars, reader, runVars>> /\ Out = <<>> /\ call \in Requests
  BY WorksOnCall DEF Works, StartTool, TakeRequest, StepDone, CheckpointDone, ToolFails,
                     Typed, BackendTypeOK
<1>2. /\ call' = call /\ told' = told /\ held' = held /\ marks' = marks /\ Now' = Now
      /\ InStep /\ SnapshotKept
  BY <1>1 DEF callVars, runVars, Now, RunKept
<1>3. worker.time = Now /\ worker.input = held /\ worker \in Workers
  BY <1>1, <1>2 DEF InStep, Done, Typed
<1>4. told \in Seq(Values) /\ held \in Values /\ Now \in Nat /\ worker.snapshot.at \in Nat
  BY HistorySeq, LenProperties, WorkerTyped DEF Typed, BackendTypeOK, Now
<1>5. CASE StartTool
  <2>1. Out' = Out
    BY <1>1, <1>5 DEF StartTool, Out
  <2>2. stdin # <<>> /\ worker' = [worker EXCEPT !.time = TimeOf(Head(stdin))]
    BY <1>5 DEF StartTool, TakeRequest, Waiting
  <2>3. TimeOf(Head(stdin)) = worker.time
    <3>1. Head(stdin) = stdin[1] /\ 1 \in 1..Len(stdin)
      BY <2>2, Headed DEF Typed
    <3>2. Head(stdin).op = "step" => worker.time = Head(stdin).at
      BY <3>1 DEF WorkerPlaced
    <3> QED
      BY <3>2 DEF TimeOf
  <2>4. /\ worker'.time = worker.time /\ worker'.input = worker.input
        /\ worker'.snapshot = worker.snapshot
    BY <1>3, <2>2, <2>3 DEF Workers
  <2> QED
    BY <1>1, <1>2, <1>3, <2>1, <2>4 DEF InStep, SnapshotKept, StepAnswer, Done
<1>6. CASE ToolFails
  <2>1. serving = call
    BY <1>6, WorksOnCall, ToolAnswers DEF Works
  <2>2. Out' # <<>> /\ Head(Out').ok = FALSE
    <3>1. Respond(call, FALSE, <<>>)
      BY <1>6, <2>1 DEF ToolFails
    <3> QED
      BY <1>1, <3>1, OnlyAnswer, NoHistory
  <2>3. worker' = worker
    BY <1>6 DEF ToolFails
  <2> QED
    BY <1>2, <1>3, <2>2, <2>3 DEF InStep, SnapshotKept, StepAnswer, Done
<1>7. CASE StepDone
  <2>1. serving = call /\ call.op = "step"
    BY <1>7, WorksOnCall, ToolAnswers DEF Works, StepDone
  <2>2. /\ Out' # <<>> /\ Head(Out').ok = TRUE
        /\ Head(Out').history = Simulated(worker.time + 1)
    <3>1. Respond(call, TRUE, Simulated(worker.time + 1))
      BY <1>7, <2>1 DEF StepDone
    <3> QED
      BY <1>1, <2>1, <3>1, OnlyAnswer, StepTyped
  <2>3. /\ worker'.time = worker.time + 1 /\ worker'.input = worker.input
        /\ worker'.snapshot = worker.snapshot
    BY <1>3, <1>7 DEF StepDone, Workers
  <2>4. InStep'
    BY <1>2, <1>3, <2>1, <2>2, <2>3 DEF InStep, Done
  <2>5. SnapshotKept'
    BY <1>2, <2>1, <2>3 DEF SnapshotKept, Done
  <2>6. ASSUME Replayable(marks, Append(told, held))
        PROVE  Simulated(Now + 1) = Append(told, held)
    <3>1. /\ Replayable(marks, told)
          /\ told # <<>> => held = Last(told) \/ [at |-> Now, clean |-> TRUE] \in marks
      BY <1>4, <2>6, ReplayedBefore DEF Now
    <3>2. ASSUME [at |-> Now, clean |-> TRUE] \in marks PROVE worker.snapshot.at = Now
      <4> DEFINE mark == [at |-> Now, clean |-> TRUE]
      <4>1. mark.at = Now /\ mark \in marks
        BY <3>2
      <4>2. Now <= worker.snapshot.at /\ worker.snapshot.at <= Now
        BY <1>2, <4>1 DEF SnapshotKept
      <4> QED
        BY <1>4, <4>2
    <3> QED
      BY <1>2, <1>3, <2>1, <3>1, <3>2, ReplayIsTrue
  <2>7. StepAnswer'
    BY <1>2, <1>3, <2>2, <2>6 DEF StepAnswer
  <2> QED
    BY <2>4, <2>5, <2>7
<1>8. CASE CheckpointDone
  <2>1. serving = call /\ call.op = "checkpoint"
    BY <1>8, WorksOnCall, ToolAnswers DEF Works, CheckpointDone
  <2>2. /\ worker'.time = worker.time /\ worker'.input = worker.input
        /\ worker'.snapshot.at = Now
        /\ worker'.snapshot.history = Simulated(Now)
    <3> DEFINE snapshot == [taken |-> TRUE, at |-> worker.time,
                            history |-> Simulated(worker.time)]
    <3>1. snapshot.at = Now /\ snapshot.history = Simulated(Now)
      BY <1>3
    <3>2. worker' = [worker EXCEPT !.snapshot = snapshot]
      BY <1>8 DEF CheckpointDone, Snapshot
    <3> HIDE DEF snapshot
    <3>3. /\ worker'.time = worker.time /\ worker'.input = worker.input
          /\ worker'.snapshot = snapshot
      BY <1>3, <3>2 DEF Workers
    <3> QED
      BY <3>1, <3>3
  <2>3. InStep'
    BY <1>2, <1>3, <2>1, <2>2 DEF InStep, Done
  <2>4. SnapshotKept'
    <3>1. \A m \in marks : m.at <= Now
      <4>1. \A m \in marks : m.at <= worker.snapshot.at
        BY <1>2 DEF SnapshotKept
      <4>2. worker.snapshot.at <= Now
        BY <1>2 DEF SnapshotKept
      <4>3. \A m \in marks : m.at \in Nat
        BY BackendAssumption DEF Typed, BackendTypeOK, Times
      <4> QED
        BY <1>4, <4>1, <4>2, <4>3
    <3>2. ASSUME Replayable(marks, told), held = Last(told)
          PROVE  Simulated(Now) = SubSeq(told, 1, Now)
      <4>1. Simulated(Now) = told
        BY <1>2, <1>3, <3>2, ReplayIsTrue
      <4> QED
        BY <1>4, <4>1, SubSeqFull DEF Now
    <3> QED
      BY <1>2, <1>4, <2>1, <2>2, <3>1, <3>2 DEF SnapshotKept
  <2>5. StepAnswer'
    BY <1>2, <2>1 DEF StepAnswer, Done
  <2> QED
    BY <2>3, <2>4, <2>5
<1> QED
  BY <1>5, <1>6, <1>7, <1>8

\* Every step keeps the run and what is known of its machine.
LEMMA RunStep ==
  ASSUME Typed, LinesInv, WorkerPlaced, RunKept, StepsSeeTheirHistory, [Next]_vars
  PROVE  RunKept' /\ StepsSeeTheirHistory'
<1>1. ASSUME UNCHANGED runVars PROVE StepsSeeTheirHistory'
  BY <1>1 DEF StepsSeeTheirHistory, runVars
<1>2. ASSUME NEW operation, NEW at, NEW value, Asks(operation, at, value)
      PROVE  RunKept' /\ StepsSeeTheirHistory'
  BY <1>1, <1>2, AskKeepsRun DEF Asks, Write
<1>3. ASSUME NEW then, Returns(then)
      PROVE  RunKept' /\ StepsSeeTheirHistory'
  <2>1. CASE CallAnswered
    BY <2>1, AnswerKeepsRun
  <2>2. CASE ~CallAnswered
    <3>1. /\ UNCHANGED runVars /\ session' = then /\ then # "prepare"
          /\ then = "run" => session = "prepare"
      BY <1>3, <2>2 DEF Returns, Returned
    <3>2. call # NoCall /\ call' = NoCall /\ worker' = worker
      BY <1>3 DEF Returns, Returned, Answered, Failed
    <3>3. CASE then = "run"
      BY <1>1, <3>1, <3>2, <3>3, PreparedRun
    <3>4. CASE then # "run"
      BY <1>1, <3>1, <3>4 DEF RunKept
    <3> QED
      BY <3>3, <3>4
  <2> QED
    BY <2>1, <2>2
<1>4. CASE Works
  <2>1. UNCHANGED <<callVars, runVars>>
    BY <1>4 DEF Works, Reject, Serve, StartTool, TakeRequest, StepDone, CheckpointDone,
                ToolFails
  <2>2. ASSUME session \in {"prepare", "run"}
        PROVE  CallInRun' /\ InStep' /\ SnapshotKept' /\ StepAnswer'
    <3>1. CallInRun'
      BY <2>1, <2>2 DEF RunKept, CallInRun, callVars, runVars, Now
    <3> QED
      BY <1>4, <2>2, <3>1, AtOnceKeepsRun, ToolKeepsRun DEF Works
  <2>3. session' = session
    BY <2>1 DEF callVars
  <2> QED
    BY <1>1, <2>1, <2>2, <2>3 DEF RunKept
<1>5. CASE Quiet
  <2>1. UNCHANGED <<call, reader, stdout, worker, runVars>>
    BY <1>5 DEF Quiet
  <2>2. ASSUME session' \in {"prepare", "run"}
        PROVE  CallInRun' /\ InStep' /\ SnapshotKept' /\ StepAnswer'
    <3>1. session' = session /\ CallInRun /\ InStep /\ SnapshotKept /\ StepAnswer
      BY <1>5, <2>2 DEF Quiet, RunKept
    <3>2. CallInRun' /\ InStep' /\ SnapshotKept' /\ StepAnswer'
      BY <2>1, <3>1 DEF CallInRun, InStep, SnapshotKept, StepAnswer, Done, Out, runVars, Now
    <3> QED
      BY <3>2
  <2> QED
    BY <1>1, <2>1, <2>2 DEF RunKept
<1>6. ASSUME NEW kind \in {"probe", "prepare"}, Open(kind)
      PROVE  RunKept' /\ StepsSeeTheirHistory'
  <2>1. /\ call' = call /\ call = NoCall
        /\ told' = <<>> /\ held' = 0 /\ marks' = {} /\ seen' = <<>>
        /\ worker'.time = 0 /\ worker'.input = 0 /\ worker'.snapshot = NoSnapshot
        /\ session' = kind
    BY <1>6 DEF Open, NewWorker, LinesInv, Counted
  <2>2. call'.op = "none" /\ Now' = 0
    BY <2>1 DEF NoCall, Now
  <2>3. CallInRun' /\ InStep' /\ StepAnswer'
    BY <1>6, <2>1, <2>2 DEF CallInRun, InStep, StepAnswer, Done
  <2>4. SnapshotKept'
    <3>1. worker'.snapshot.at = 0 /\ worker'.snapshot.history = <<>>
      BY <2>1 DEF NoSnapshot
    <3>2. SubSeq(<<>>, 1, 0) = <<>>
      OBVIOUS
    <3> QED
      BY <2>1, <2>2, <3>1, <3>2 DEF SnapshotKept, Done
  <2>5. StepsSeeTheirHistory'
    BY <2>1 DEF StepsSeeTheirHistory
  <2> QED
    BY <2>3, <2>4, <2>5 DEF RunKept
<1> QED
  BY <1>2, <1>3, <1>4, <1>5, <1>6, StepKinds

------------------------------------------------------------------------------
(* The theorems.                                                             *)

\* A host where nothing has been opened yet.
LEMMA BackendInit == Init => BackendInv
<1> SUFFICES ASSUME Init PROVE BackendInv
  OBVIOUS
<1>1. /\ session = "idle" /\ call = NoCall /\ issued = 0 /\ late = FALSE
      /\ process = "none" /\ stdin = <<>> /\ stdout = <<>> /\ reader = <<>>
      /\ worker = NewWorker /\ serving = NoCall /\ installed \in BOOLEAN
      /\ told = <<>> /\ held = 0 /\ injections = 0 /\ marks = {} /\ seen = <<>>
      /\ probed = "unknown"
  BY DEF Init
<1>2. /\ 0 \in Values /\ 0 \in Times /\ <<>> \in Histories
      /\ 0 \in 0..MaxInjections
  BY NoHistory, BackendAssumption DEF Times
<1>3. NoCall \in Requests
  BY <1>2 DEF Requests, NoCall, Operations
<1>4. worker \in Workers /\ worker.time = 0 /\ worker.snapshot = NoSnapshot
  <2>1. NoSnapshot \in [taken : BOOLEAN, at : Times, history : Histories]
    BY <1>2 DEF NoSnapshot
  <2> HIDE DEF NoSnapshot
  <2> QED
    BY <1>1, <1>2, <2>1 DEF NewWorker, Workers
<1>5. Typed
  <2>1. RunTyped
    BY <1>1, <1>2 DEF RunTyped
  <2>2. LineTyped
    <3>1. <<>> \in Seq(Requests) /\ <<>> \in Seq(Responses)
      OBVIOUS
    <3> QED
      BY <1>1, <1>3, <3>1 DEF LineTyped, Sessions
  <2> QED
    BY <1>4, <2>1, <2>2, TypedParts
<1>6. LinesInv
  <2>1. Out = <<>> /\ InTool = 0 /\ InCall = 0
    <3>1. <<>> \o <<>> = <<>>
      OBVIOUS
    <3> QED
      BY <1>1, <3>1 DEF Out, InTool, InCall
  <2>2. Len(Out) = 0 /\ Len(stdin) = 0
    BY <1>1, <2>1
  <2>3. Traffic = 0
    BY <2>1, <2>2 DEF Traffic
  <2>4. Before = 0
    BY <1>1, <2>3 DEF Before
  <2> QED
    BY <1>1, <2>1, <2>2, <2>3, <2>4 DEF LinesInv, InOrder, Counted, Matched
<1>7. WorkerPlaced
  <2>1. Len(<<>>) = 0
    OBVIOUS
  <2>2. worker.snapshot.at = 0 /\ worker.snapshot.history = <<>>
    BY <1>4 DEF NoSnapshot
  <2> QED
    BY <1>1, <1>4, <2>1, <2>2 DEF WorkerPlaced, NoCall
<1>8. RunKept /\ StepsSeeTheirHistory
  BY <1>1 DEF RunKept, StepsSeeTheirHistory
<1> QED
  BY <1>5, <1>6, <1>7, <1>8 DEF BackendInv

\* The invariant from which the theorems follow holds of every behaviour.
LEMMA BackendInvariant == Spec => []BackendInv
<1>1. BackendInv /\ [Next]_vars => BackendInv'
  BY TypedStep, LinesStep, PlacedStep, RunStep DEF BackendInv
<1> QED
  BY <1>1, BackendInit, PTL DEF Spec

\* Every variable of the adapter, the pipes and the worker keeps its type: no machine is
\* simulated past the end of its run, and no request has a time outside it.
THEOREM BackendTypeCorrect == Spec => []BackendTypeOK
<1>1. BackendInv => BackendTypeOK
  BY DEF BackendInv, Typed
<1> QED
  BY <1>1, BackendInvariant, PTL

\* Whatever the scheduler injects and checkpoints, a run whose input changed only at
\* clean checkpoints sees in each step the machine that had these inputs all along,
\* although the worker replays it from its last snapshot.
THEOREM StepsSeeHistory == Spec => []StepsSeeTheirHistory
<1>1. BackendInv => StepsSeeTheirHistory
  BY DEF BackendInv
<1> QED
  BY <1>1, BackendInvariant, PTL

\* An answer that is accepted is the only line under way and answers this very call.
LEMMA AcceptsOwn ==
  ASSUME BackendInv, Accepts
  PROVE  /\ ~late
         /\ stdin = <<>> /\ serving = NoCall /\ Len(reader \o stdout) = 1
         /\ call.op = "probe" \/ worker.available
<1>1. /\ Typed /\ InOrder /\ Counted /\ Matched /\ issued \in Nat
      /\ call # NoCall /\ ReadLine /\ ~Refused
  BY DEF BackendInv, LinesInv, Accepts, Typed, BackendTypeOK
<1>2. Out # <<>> /\ Head(Lines) = Head(Out) /\ Out \in Seq(Responses)
  BY <1>1, ReadsOldest, OutTyped
<1>3. Head(Out).id = issued /\ Head(Out).ok
  BY <1>1, <1>2 DEF Refused, Counted
<1>4. Head(Out).id = Before + 1
  <2>1. Head(Out) = Out[1] /\ 1 \in 1..Len(Out)
    BY <1>2, Headed
  <2> QED
    BY <1>1, <2>1 DEF InOrder
<1>5. Traffic = 1
  BY <1>1, <1>3, <1>4, OutTyped DEF Before
<1>6. stdin = <<>> /\ serving = NoCall /\ Len(Out) = 1
  BY <1>1, <1>2, <1>5, OutTyped DEF Traffic, InTool
<1>7. ~late
  BY <1>1, <1>5 DEF Counted, InCall
<1>8. call.op = "probe" \/ worker.available
  BY <1>1, <1>2, <1>3, <1>5 DEF Matched
<1> QED
  BY <1>6, <1>7, <1>8 DEF Out

\* No call takes the answer of another: an answer is accepted only by the call it
\* belongs to, and by no call of a process in which one has timed out; but for a probe
\* it comes from a worker that had found its tool.
THEOREM CallsGetOwnAnswers == Spec => AnswersAreOwn
<1>1. BackendInv /\ [Next]_vars =>
        [Accepts => /\ ~late
                    /\ stdin = <<>> /\ serving = NoCall /\ Len(reader \o stdout) = 1
                    /\ call.op = "probe" \/ worker.available]_vars
  BY AcceptsOwn
<1> QED
  BY <1>1, BackendInvariant, PTL DEF Spec, AnswersAreOwn

------------------------------------------------------------------------------
(* Sessions descend: the half of SessionEnds that needs no fairness.         *)

\* What a session has before it ...
Stage ==
  [prepare |-> 5, run |-> 4, probe |-> 4, rescue |-> 3, close |-> 2, wait |-> 1,
   idle |-> 0][session]

\* ... the steps of its run, and the calls that can come before the next one: one for
\* each injection, and after each, a checkpoint that is clean and one that is not.
StepsLeft == MaxSteps - Now

Unmarked(clean) == IF [at |-> Now, clean |-> clean] \in marks THEN 0 ELSE 1

CallsLeft == 3 * (MaxInjections - injections) + Unmarked(TRUE) + Unmarked(FALSE)

\* Asking comes before the answer, and killing before the end.
Pending == (IF call = NoCall THEN 1 ELSE 0) + (IF process = "up" THEN 1 ELSE 0)

Rank == <<Stage, <<StepsLeft, <<CallsLeft, Pending>>>>>>

LessThan == OpToRel(<, Nat)

Ranks == Nat \X (Nat \X (Nat \X Nat))

\* The lexicographic order of the ranks.
Descent ==
  LexPairOrdering(LessThan,
    LexPairOrdering(LessThan, LexPairOrdering(LessThan, LessThan, Nat, Nat),
                    Nat, Nat \X Nat),
    Nat, Nat \X (Nat \X Nat))

\* No sequence of ranks descends for ever.
LEMMA DescentWellFounded == IsWellFoundedOn(Descent, Ranks)
<1>1. IsWellFoundedOn(LessThan, Nat)
  BY NatLessThanWellFounded DEF LessThan
<1>2. IsWellFoundedOn(LexPairOrdering(LessThan, LessThan, Nat, Nat), Nat \X Nat)
  BY <1>1, WFLexPairOrdering
<1>3. IsWellFoundedOn(LexPairOrdering(LessThan,
                        LexPairOrdering(LessThan, LessThan, Nat, Nat), Nat, Nat \X Nat),
                      Nat \X (Nat \X Nat))
  BY <1>1, <1>2, WFLexPairOrdering
<1> QED
  BY <1>1, <1>3, WFLexPairOrdering DEF Descent, Ranks

\* What it takes to descend.
LEMMA Descending ==
  ASSUME NEW a \in Nat, NEW b \in Nat, NEW c \in Nat, NEW d \in Nat,
         NEW v \in Nat, NEW w \in Nat, NEW x \in Nat, NEW y \in Nat,
         \/ v < a
         \/ v = a /\ w < b
         \/ v = a /\ w = b /\ x < c
         \/ v = a /\ w = b /\ x = c /\ y < d
  PROVE  <<<<v, <<w, <<x, y>>>>>>, <<a, <<b, <<c, d>>>>>>>> \in Descent
<1> DEFINE Inner == LexPairOrdering(LessThan, LessThan, Nat, Nat)
           Outer == LexPairOrdering(LessThan, Inner, Nat, Nat \X Nat)
<1>0. \A m, n \in Nat : m < n => <<m, n>> \in LessThan
  BY DEF LessThan, OpToRel
<1>1. x < c \/ (x = c /\ y < d) => <<<<x, y>>, <<c, d>>>> \in Inner
  BY <1>0 DEF LexPairOrdering
<1>2. w < b \/ (w = b /\ <<<<x, y>>, <<c, d>>>> \in Inner)
        => <<<<w, <<x, y>>>>, <<b, <<c, d>>>>>> \in Outer
  <2> HIDE DEF Inner
  <2> QED
    BY <1>0 DEF LexPairOrdering
<1>3. v < a \/ (v = a /\ <<<<w, <<x, y>>>>, <<b, <<c, d>>>>>> \in Outer)
        => <<<<v, <<w, <<x, y>>>>>>, <<a, <<b, <<c, d>>>>>>>> \in Descent
  <2> HIDE DEF Outer
  <2>1. Descent = LexPairOrdering(LessThan, Outer, Nat, Nat \X (Nat \X Nat))
    BY DEF Descent, Outer
  <2> QED
    BY <1>0, <2>1 DEF LexPairOrdering
<1> HIDE DEF Inner, Outer
<1> QED
  BY <1>1, <1>2, <1>3

\* While a checkpoint is asked for, nothing else marks this instant.
MarkAwaited == session = "run" /\ call.op = "checkpoint" => Mark \notin marks

\* It is asked for only where it is not yet made, and the run waits for it.
LEMMA MarkStep == Typed /\ MarkAwaited /\ [Next]_vars => MarkAwaited'
<1> SUFFICES ASSUME Typed, MarkAwaited, [Next]_vars PROVE MarkAwaited'
  OBVIOUS
<1>0. NoCall.op = "none"
  BY DEF NoCall
<1>1. ASSUME call' = NoCall PROVE MarkAwaited'
  BY <1>0, <1>1 DEF MarkAwaited
<1>2. ASSUME session' # "run" PROVE MarkAwaited'
  BY <1>2 DEF MarkAwaited
<1>3. ASSUME UNCHANGED <<session, call, runVars>> PROVE MarkAwaited'
  BY <1>3 DEF MarkAwaited, Mark, Now, runVars
<1>4. CASE \E operation, at, value : Asks(operation, at, value)
  <2>1. PICK operation, at, value : Asks(operation, at, value)
    BY <1>4
  <2>2. /\ UNCHANGED <<session, runVars>>
        /\ call' = [id |-> issued + 1, op |-> operation, at |-> at, value |-> value]
    BY <2>1 DEF Asks, Write
  <2>3. call'.op = operation
    BY <2>2
  <2>4. session = "run" /\ operation = "checkpoint" => Mark \notin marks
    BY <2>1 DEF Asks
  <2>5. Mark' = Mark /\ marks' = marks
    BY <2>2 DEF Mark, Now, runVars
  <2> QED
    BY <2>2, <2>3, <2>4, <2>5 DEF MarkAwaited
<1>5. CASE \E then : Returns(then)
  <2>1. call' = NoCall
    BY <1>5 DEF Returns, Returned
  <2> QED
    BY <1>1, <2>1
<1>6. CASE Works
  <2>1. UNCHANGED <<session, call, runVars>>
    <3>1. CASE Reject \/ Serve
      BY <3>1, AnswersAtOnce DEF callVars
    <3>2. CASE StepDone \/ CheckpointDone \/ ToolFails
      BY <3>2, ToolAnswers DEF callVars
    <3>3. CASE StartTool
      BY <3>3 DEF StartTool, TakeRequest, callVars
    <3> QED
      BY <1>6, <3>1, <3>2, <3>3 DEF Works
  <2> QED
    BY <1>3, <2>1
<1>7. CASE Quiet
  <2>1. UNCHANGED <<call, runVars>> /\ (session' = session \/ session' \in {"close", "idle"})
    BY <1>7 DEF Quiet
  <2>2. CASE session' = session
    BY <1>3, <2>1, <2>2
  <2>3. CASE session' \in {"close", "idle"}
    BY <1>2, <2>3
  <2> QED
    BY <2>1, <2>2, <2>3
<1>8. ASSUME NEW kind \in {"probe", "prepare"}, Open(kind) PROVE MarkAwaited'
  BY <1>2, <1>8 DEF Open
<1> QED
  BY <1>4, <1>5, <1>6, <1>7, <1>8, StepKinds

\* The parts of a rank are numbers.
RankTyped == Stage \in Nat /\ StepsLeft \in Nat /\ CallsLeft \in Nat /\ Pending \in Nat

\* They always are.
LEMMA RankIsTyped == BackendTypeOK => RankTyped
<1> SUFFICES ASSUME BackendTypeOK PROVE RankTyped
  OBVIOUS
<1>0. MaxSteps \in Nat /\ MaxInjections \in Nat
  BY BackendAssumption
<1>1. Stage \in Nat
  <2>1. session \in {"idle", "probe", "prepare", "run", "rescue", "close", "wait"}
    BY DEF BackendTypeOK, Sessions
  <2> QED
    BY <2>1 DEF Stage
<1>2. StepsLeft \in Nat
  <2>1. told \in Histories
    BY DEF BackendTypeOK
  <2>2. told \in Seq(Values) /\ Len(told) <= MaxSteps
    BY <2>1, HistorySeq
  <2>3. Len(told) \in Nat
    BY <2>2, LenProperties
  <2> QED
    BY <1>0, <2>2, <2>3 DEF StepsLeft, Now
<1>3. CallsLeft \in Nat
  <2>1. Unmarked(TRUE) \in Nat /\ Unmarked(FALSE) \in Nat
    BY DEF Unmarked
  <2>2. injections \in 0..MaxInjections
    BY DEF BackendTypeOK
  <2>3. MaxInjections - injections \in Nat
    BY <1>0, <2>2
  <2>4. \A m, u, w \in Nat : 3 * m + u + w \in Nat
    OBVIOUS
  <2> QED
    BY <2>1, <2>3, <2>4 DEF CallsLeft
<1>4. Pending \in Nat
  BY DEF Pending
<1> QED
  BY <1>1, <1>2, <1>3, <1>4 DEF RankTyped

\* What a step must do to the parts of the rank.
Lower ==
  \/ Stage' < Stage
  \/ Stage' = Stage /\ StepsLeft' < StepsLeft
  \/ Stage' = Stage /\ StepsLeft' = StepsLeft /\ CallsLeft' < CallsLeft
  \/ /\ Stage' = Stage /\ StepsLeft' = StepsLeft /\ CallsLeft' = CallsLeft
     /\ Pending' < Pending

\* A request is written once.
LEMMA AskLowers ==
  ASSUME NEW operation, NEW at, NEW value, Write(operation, at, value), issued \in Nat
  PROVE  Lower
<1>1. call = NoCall /\ UNCHANGED <<session, process, told, injections, marks>>
  BY DEF Write, runVars
<1>2. call' # NoCall
  <2>1. call'.id = issued + 1
    BY DEF Write
  <2> QED
    BY <2>1 DEF NoCall
<1>3. Stage' = Stage /\ StepsLeft' = StepsLeft /\ CallsLeft' = CallsLeft
  BY <1>1 DEF Stage, StepsLeft, CallsLeft, Unmarked, Now
<1>4. Pending' < Pending
  BY <1>1, <1>2 DEF Pending
<1> QED
  BY <1>3, <1>4 DEF Lower

\* Fewer injections or fewer checkpoints are fewer calls.
LEMMA FewerCalls ==
  ASSUME NEW m \in Int, NEW n \in Int, NEW u \in Nat, NEW w \in Nat,
         NEW v \in Nat, NEW x \in Nat,
         \/ m < n /\ v = u /\ x = w
         \/ m = n /\ v < u /\ x <= w
         \/ m = n /\ v <= u /\ x < w
  PROVE  3 * m + v + x < 3 * n + u + w
OBVIOUS

\* A call of the run that is answered takes one step, or one of the calls before it.
LEMMA AnswerLowers ==
  ASSUME Typed, CallInRun, MarkAwaited, CallAnswered
  PROVE  Lower
<1>1. /\ session = "run" /\ session' = "run" /\ call # NoCall
      /\ injections' = IF call.op = "inject" THEN injections + 1 ELSE injections
      /\ told' = IF call.op = "step" THEN Append(told, held) ELSE told
      /\ marks' = IF call.op = "checkpoint" THEN marks \cup {Mark} ELSE marks
  BY DEF CallAnswered, Answered, Returned
<1>2. call.op \in {"inject", "step", "checkpoint"}
  BY <1>1 DEF CallInRun
<1>3. Stage' = Stage
  BY <1>1 DEF Stage
<1>4. told \in Seq(Values) /\ held \in Values /\ Now \in Nat
  BY HistorySeq DEF Typed, BackendTypeOK, Now
<1>5. injections \in Nat /\ MaxInjections \in Nat /\ MaxSteps \in Nat
  BY BackendAssumption DEF Typed, BackendTypeOK
<1>6. /\ Unmarked(TRUE) \in Nat /\ Unmarked(FALSE) \in Nat
      /\ Unmarked(TRUE)' \in Nat /\ Unmarked(FALSE)' \in Nat
      /\ MaxInjections - injections \in Int /\ MaxInjections - injections' \in Int
  <2>1. injections' \in Nat
    BY <1>1, <1>5
  <2> QED
    BY <1>5, <2>1 DEF Unmarked
<1>7. CASE call.op = "step"
  <2>1. Now' = Now + 1
    BY <1>1, <1>4, <1>7, LenProperties DEF Now
  <2>2. StepsLeft' < StepsLeft
    BY <1>4, <1>5, <2>1 DEF StepsLeft
  <2> QED
    BY <1>3, <2>2 DEF Lower
<1>8. CASE call.op = "inject"
  <2>1. injections' = injections + 1 /\ UNCHANGED <<told, marks>>
    BY <1>1, <1>8
  <2>2. StepsLeft' = StepsLeft /\ Unmarked(TRUE)' = Unmarked(TRUE)
        /\ Unmarked(FALSE)' = Unmarked(FALSE)
    BY <2>1 DEF StepsLeft, Unmarked, Now
  <2>3. MaxInjections - injections' < MaxInjections - injections
    BY <1>5, <2>1
  <2>4. CallsLeft' < CallsLeft
    BY <1>6, <2>2, <2>3, FewerCalls DEF CallsLeft
  <2> QED
    BY <1>3, <2>2, <2>4 DEF Lower
<1>9. CASE call.op = "checkpoint"
  <2>1. Mark \notin marks /\ marks' = marks \cup {Mark} /\ UNCHANGED <<told, injections>>
    BY <1>1, <1>9 DEF MarkAwaited
  <2>2. StepsLeft' = StepsLeft /\ Now' = Now
    BY <2>1 DEF StepsLeft, Now
  <2>3. MaxInjections - injections' = MaxInjections - injections
    BY <2>1
  <2>4. Unmarked(TRUE)' <= Unmarked(TRUE) /\ Unmarked(FALSE)' <= Unmarked(FALSE)
    BY <2>1, <2>2 DEF Unmarked
  <2>5. Unmarked(TRUE)' < Unmarked(TRUE) \/ Unmarked(FALSE)' < Unmarked(FALSE)
    <3>1. CASE Mark = [at |-> Now, clean |-> TRUE]
      BY <2>1, <2>2, <3>1 DEF Unmarked
    <3>2. CASE Mark = [at |-> Now, clean |-> FALSE]
      BY <2>1, <2>2, <3>2 DEF Unmarked
    <3> QED
      BY <3>1, <3>2 DEF Mark
  <2>6. CallsLeft' < CallsLeft
    BY <1>6, <2>3, <2>4, <2>5, FewerCalls DEF CallsLeft
  <2> QED
    BY <1>3, <2>2, <2>6 DEF Lower
<1> QED
  BY <1>2, <1>7, <1>8, <1>9

\* Every step of the adapter's thread descends.
LEMMA AdapterLowers ==
  ASSUME Typed, RunKept, MarkAwaited, AdapterStep
  PROVE  Lower
<1>1. CASE AskProbe \/ AskPrepare \/ AskRescue \/ AskShutdown
  <2>1. issued \in Nat
    BY DEF Typed, BackendTypeOK
  <2> QED
    BY <1>1, <2>1, AskLowers DEF AskProbe, AskPrepare, AskRescue, AskShutdown
<1>2. CASE AskInject \/ AskStep \/ AskCheckpoint
  <2>1. issued \in Nat
    BY DEF Typed, BackendTypeOK
  <2> QED
    BY <1>2, <2>1, AskLowers DEF AskInject, AskStep, AskCheckpoint
<1>3. CASE CallAnswered
  <2>1. CallInRun
    BY <1>3 DEF CallAnswered, RunKept
  <2> QED
    BY <1>3, <2>1, AnswerLowers
<1>4. CASE ProbeAnswered \/ ProbeFailed
  <2>1. session = "probe" /\ session' = "close"
    BY <1>4 DEF ProbeAnswered, ProbeFailed, Returned
  <2> QED
    BY <2>1 DEF Lower, Stage
<1>5. CASE Prepared \/ PrepareFailed
  <2>1. session = "prepare" /\ session' \in {"run", "idle"}
    BY <1>5 DEF Prepared, PrepareFailed, Returned
  <2> QED
    BY <2>1 DEF Lower, Stage
<1>6. CASE CallFailed \/ RunOver
  <2>1. session = "run" /\ session' \in {"rescue", "close"}
    BY <1>6 DEF CallFailed, RunOver, Returned
  <2> QED
    BY <2>1 DEF Lower, Stage
<1>7. CASE Rescued \/ ShutdownAnswered \/ ShutdownFailed
  <2>1. \/ session = "rescue" /\ session' = "close"
        \/ session = "close" /\ session' = "wait"
    BY <1>7 DEF Rescued, ShutdownAnswered, ShutdownFailed, Returned
  <2> QED
    BY <2>1 DEF Lower, Stage
<1>8. CASE Kill
  <2>1. process = "up" /\ process' = "dead"
        /\ UNCHANGED <<session, call, told, injections, marks>>
    BY <1>8 DEF Kill, callVars, runVars
  <2>2. Stage' = Stage /\ StepsLeft' = StepsLeft /\ CallsLeft' = CallsLeft
    BY <2>1 DEF Stage, StepsLeft, CallsLeft, Unmarked, Now
  <2>3. Pending' < Pending
    BY <2>1 DEF Pending
  <2> QED
    BY <2>2, <2>3 DEF Lower
<1>9. CASE Closed
  <2>1. session \in {"close", "wait"} /\ session' = "idle"
    BY <1>9 DEF Closed
  <2> QED
    BY <2>1 DEF Lower, Stage
<1> QED
  BY <1>1, <1>2, <1>3, <1>4, <1>5, <1>6, <1>7, <1>8, <1>9 DEF AdapterStep

\* Nothing the worker or the host does raises the rank.
LEMMA OthersLower ==
  ASSUME WorkerStep \/ ProcessDies \/ InstallOrRemove
  PROVE  Rank' = Rank \/ Lower
<1>1. /\ UNCHANGED <<session, call, told, injections, marks>>
      /\ process' = process \/ (process = "up" /\ process' = "dead")
  <2>1. CASE Reject \/ Serve
    BY <2>1, AnswersAtOnce DEF callVars, runVars
  <2>2. CASE StepDone \/ CheckpointDone \/ ToolFails
    BY <2>2, ToolAnswers DEF callVars, runVars
  <2>3. CASE StartTool
    BY <2>3 DEF StartTool, TakeRequest, callVars, runVars
  <2>4. CASE WorkerExits \/ ProcessDies \/ InstallOrRemove
    BY <2>4 DEF WorkerExits, ProcessDies, InstallOrRemove, callVars, runVars, processVars
  <2> QED
    BY <2>1, <2>2, <2>3, <2>4 DEF WorkerStep
<1>2. Stage' = Stage /\ StepsLeft' = StepsLeft /\ CallsLeft' = CallsLeft
  BY <1>1 DEF Stage, StepsLeft, CallsLeft, Unmarked, Now
<1>3. Pending' = Pending \/ Pending' < Pending
  BY <1>1 DEF Pending
<1> QED
  BY <1>2, <1>3 DEF Rank, Lower

\* A probe or a run goes through finitely many steps of the adapter's thread: each of
\* them descends, and nothing the process or the host does in between raises what is
\* left.  Only the start of the next session does.
SessionsDescend ==
  /\ [](Rank \in Ranks)
  /\ [][/\ AdapterStep => <<Rank', Rank>> \in Descent
        /\ WorkerStep \/ ProcessDies \/ InstallOrRemove =>
             Rank' = Rank \/ <<Rank', Rank>> \in Descent]_vars

\* However the process dies, answers late or hangs, neither SubprocessAdapter nor the
\* scheduler that uses it goes on for ever without ending the session.
THEOREM SessionsAreFinite == Spec => SessionsDescend
<1> DEFINE Goes ==
      /\ AdapterStep => <<Rank', Rank>> \in Descent
      /\ WorkerStep \/ ProcessDies \/ InstallOrRemove =>
           Rank' = Rank \/ <<Rank', Rank>> \in Descent
<1>1. BackendInv => BackendTypeOK /\ RankTyped
  BY RankIsTyped DEF BackendInv, Typed
<1>2. Init => MarkAwaited
  BY DEF Init, MarkAwaited
<1>3. BackendInv /\ MarkAwaited /\ [Next]_vars => MarkAwaited'
  BY MarkStep DEF BackendInv
<1>4. ASSUME RankTyped, RankTyped', Lower PROVE <<Rank', Rank>> \in Descent
  <2>1. /\ Stage \in Nat /\ StepsLeft \in Nat /\ CallsLeft \in Nat /\ Pending \in Nat
        /\ Stage' \in Nat /\ StepsLeft' \in Nat /\ CallsLeft' \in Nat /\ Pending' \in Nat
    BY <1>4 DEF RankTyped
  <2> QED
    BY <1>4, <2>1, Descending DEF Rank, Lower
<1>5. BackendInv /\ MarkAwaited /\ RankTyped /\ RankTyped' /\ [Next]_vars => [Goes]_vars
  BY <1>4, AdapterLowers, OthersLower DEF BackendInv
<1>6. RankTyped => Rank \in Ranks
  BY DEF RankTyped, Rank, Ranks
<1> QED
  BY <1>1, <1>2, <1>3, <1>5, <1>6, BackendInvariant, PTL DEF Spec, SessionsDescend
==============================================================================
