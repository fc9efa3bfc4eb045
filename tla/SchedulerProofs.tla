--------------------------- MODULE SchedulerProofs ---------------------------
(* What holds of every run of the scheduler, for every experiment and system *)
(* the contracts accept.                                                     *)
EXTENDS Scheduler, TLAPS, FiniteSetTheorems, WellFoundedInduction

------------------------------------------------------------------------------
(* Multiples of a number.                                                    *)

\* A remainder is smaller than the divisor, and no larger than the number.
LEMMA ModRange ==
  ASSUME NEW a \in Nat, NEW q \in Nat \ {0}
  PROVE  a % q \in 0..(q - 1) /\ a % q <= a
OBVIOUS

\* A number that leaves no remainder is a multiple.
LEMMA MultipleOf ==
  ASSUME NEW a \in Nat, NEW q \in Nat \ {0}, a % q = 0
  PROVE  \E k \in Nat : a = q * k
<1>1. a \div q \in Nat /\ a = q * (a \div q)
    OBVIOUS
<1> QED BY <1>1

\* The remainder of a multiple with something less than the divisor added.
LEMMA Remainder ==
  ASSUME NEW q \in Nat \ {0}, NEW k \in Nat, NEW r \in 0..(q - 1)
  PROVE  (q * k + r) % q = r
OBVIOUS

\* A multiple leaves no remainder.
LEMMA TimesDivides ==
  ASSUME NEW q \in Nat \ {0}, NEW k \in Nat
  PROVE  (q * k) % q = 0
<1>1. (q * k + 0) % q = 0
    BY Remainder
<1>2. q * k \in Nat
    OBVIOUS
<1>3. q * k + 0 = q * k
    BY <1>2
<1> QED BY <1>1, <1>3

\* Multiples of q are at least q apart.
LEMMA Apart ==
  ASSUME NEW q \in Nat, NEW k \in Nat, NEW j \in Nat, k < j
  PROVE  q * k + q <= q * j
OBVIOUS

\* What divides two numbers divides their sum.
LEMMA SumDivides ==
  ASSUME NEW q \in Nat \ {0}, NEW a \in Nat, NEW b \in Nat, a % q = 0, b % q = 0
  PROVE  (a + b) % q = 0
<1>1. PICK k \in Nat : a = q * k
    BY MultipleOf
<1>2. PICK j \in Nat : b = q * j
    BY MultipleOf
<1>3. k + j \in Nat /\ a + b = q * (k + j)
    BY <1>1, <1>2
<1>4. (q * (k + j)) % q = 0
    BY <1>3, TimesDivides
<1> QED BY <1>3, <1>4

\* What divides a sum with the divisor divides the other term.
LEMMA DifferenceDivides ==
  ASSUME NEW q \in Nat \ {0}, NEW a \in Nat, (a + q) % q = 0
  PROVE  a % q = 0
<1>1. PICK k \in Nat : a + q = q * k
    BY MultipleOf
<1>2. k - 1 \in Nat /\ a = q * (k - 1)
    BY <1>1
<1> QED BY <1>2, TimesDivides

\* Of two different numbers that q divides, the larger is at least q larger.
LEMMA MultiplesApart ==
  ASSUME NEW q \in Nat \ {0}, NEW a \in Nat, NEW b \in Nat, a % q = 0, b % q = 0, a < b
  PROVE  a + q <= b
<1>1. PICK k \in Nat : a = q * k
    BY MultipleOf
<1>2. PICK j \in Nat : b = q * j
    BY MultipleOf
<1>3. k < j
    BY <1>1, <1>2
<1> QED BY <1>1, <1>2, <1>3, Apart

\* What divides a divisor divides the number.
LEMMA DividesTransitive ==
  ASSUME NEW q \in Nat \ {0}, NEW p \in Nat \ {0}, NEW a \in Nat, p % q = 0, a % p = 0
  PROVE  a % q = 0
<1>1. PICK k \in Nat : p = q * k
    BY MultipleOf
<1>2. PICK j \in Nat : a = p * j
    BY MultipleOf
<1>3. k * j \in Nat
    OBVIOUS
<1>4. a = q * (k * j)
    BY <1>1, <1>2
<1>5. (q * (k * j)) % q = 0
    BY <1>3, TimesDivides
<1> QED BY <1>4, <1>5

\* The last multiple of q that is not after a.
LEMMA LastMultiple ==
  ASSUME NEW q \in Nat \ {0}, NEW x \in Nat, NEW a \in Nat,
         x % q = 0, x <= a, a < x + q
  PROVE  x = a - (a % q)
<1>1. PICK k \in Nat : x = q * k
    BY MultipleOf
<1>2. a = q * k + (a - x) /\ a - x \in 0..(q - 1)
    BY <1>1
<1>3. a % q = a - x
    BY <1>2, Remainder
<1> QED BY <1>3

\* A set of natural numbers has a least element.
LEMMA Least ==
  ASSUME NEW S, S \subseteq Nat, S # {}
  PROVE \E x \in S : \A y \in S : x <= y
<1>1. \E x \in S : \A y \in S : ~ (<<y, x>> \in OpToRel(<, Nat))
  BY NatLessThanWellFounded, WFMin
<1>2. ASSUME NEW x \in S, NEW y \in S, ~ (<<y, x>> \in OpToRel(<, Nat))
      PROVE x <= y
  BY <1>2 DEF OpToRel
<1> QED BY <1>1, <1>2

\* A bounded set of natural numbers has a maximum, and Max returns it.
LEMMA MaxOfBounded ==
  ASSUME NEW S, S \subseteq Nat, S # {}, NEW b \in Nat, \A y \in S : y <= b
  PROVE  Max(S) \in S /\ \A y \in S : y <= Max(S)
<1> DEFINE Gaps == {b - y : y \in S}
<1>a. \A y \in S : y \in Nat /\ b \in Nat /\ y <= b /\ b - y \in Nat
    OBVIOUS
<1>1. Gaps \subseteq Nat /\ Gaps # {}
    BY <1>a
<1>2. PICK g \in Gaps : \A h \in Gaps : g <= h
    BY <1>1, Least
<1>3. PICK x \in S : g = b - x
    OBVIOUS
<1>4. \A y \in S : x >= y
    BY <1>2, <1>3
<1> QED BY <1>4 DEF Max

\* Finitely many natural numbers are bounded.
LEMMA FinitelyManyBounded ==
  ASSUME NEW n \in Nat, NEW f \in [1..n -> Nat]
  PROVE  \E b \in Nat : \A i \in 1..n : f[i] <= b
<1> DEFINE Bounded(k) == \E b \in Nat : \A i \in 1..k : f[i] <= b
           Unbounded == {k \in 0..n : ~Bounded(k)}
<1>1. Bounded(0)
    <2>1. 0 \in Nat /\ \A i \in 1..0 : f[i] <= 0
        OBVIOUS
    <2> QED BY <2>1
<1>2. ASSUME NEW k \in 0..n, k # 0, Bounded(k - 1)
      PROVE  Bounded(k)
    <2>1. PICK b \in Nat : \A i \in 1..(k - 1) : f[i] <= b
        BY <1>2
    <2>2. k \in 1..n /\ f[k] \in Nat
        BY <1>2
    <2>3. b + f[k] \in Nat
        BY <2>2
    <2>4. ASSUME NEW i \in 1..k PROVE f[i] <= b + f[k]
        <3>1. CASE i = k
            BY <3>1, <2>2
        <3>2. CASE i # k
            <4>1. i \in 1..(k - 1) /\ i \in 1..n /\ f[i] \in Nat
                BY <3>2, <2>2
            <4>2. f[i] <= b
                BY <4>1, <2>1
            <4> QED BY <4>1, <4>2, <2>2
        <3> QED BY <3>1, <3>2
    <2> QED BY <2>3, <2>4
<1>3. Unbounded = {}
    <2> SUFFICES ASSUME Unbounded # {} PROVE FALSE
        OBVIOUS
    <2>1. Unbounded \subseteq Nat /\ \A k \in Unbounded : k \in 0..n /\ ~Bounded(k)
        OBVIOUS
    <2>2. PICK k \in Unbounded : \A j \in Unbounded : k <= j
        BY <2>1, Least
    <2> HIDE DEF Bounded
    <2>3. k # 0
        BY <1>1, <2>1
    <2>4. k - 1 \in 0..n /\ k - 1 < k
        BY <2>1, <2>3
    <2>5. Bounded(k - 1)
        BY <2>2, <2>4
    <2> QED BY <1>2, <2>1, <2>3, <2>5
<1>4. n \in 0..n
    OBVIOUS
<1>5. Bounded(n)
    <2> HIDE DEF Bounded
    <2> QED BY <1>3, <1>4
<1> QED BY <1>5

------------------------------------------------------------------------------
(* The quantum divides all the times of an experiment.                       *)

Documents == experiment \in Experiments /\ Valid(experiment)

Grid ==
  /\ Quantum \in Nat \ {0}
  /\ experiment.duration \in Nat \ {0} /\ experiment.duration % Quantum = 0
  /\ experiment.checkpoint \in Nat /\ experiment.checkpoint % Quantum = 0
  /\ \A c \in Components : StepOf(c) \in Nat \ {0} /\ StepOf(c) % Quantum = 0

\* The quantum exists and divides the duration, the checkpoint interval and every step.
LEMMA QuantumDivides ==
  ASSUME Documents PROVE Grid
<1> DEFINE e == experiment
           periods == ({e.macro_step} \cup {e.steps[c] : c \in DOMAIN e.steps}) \ {0}
           common == {q \in 1..e.macro_step : \A p \in periods : p % q = 0}
<1>1. /\ e.macro_step \in Nat \ {0} /\ e.duration \in Nat \ {0} /\ e.checkpoint \in Nat
      /\ e.duration % e.macro_step = 0 /\ e.checkpoint % e.macro_step = 0
      /\ \A c \in DOMAIN e.steps : e.steps[c] \in Nat
    BY ExperimentsAssumption DEF Documents, Valid
<1>2. periods \subseteq Nat \ {0} /\ e.macro_step \in periods
    BY <1>1
<1>3. 1 \in common
    <2>1. \A p \in Nat : p % 1 = 0
        OBVIOUS
    <2> QED BY <1>1, <1>2, <2>1
<1>4. common \subseteq Nat /\ \A q \in common : q <= e.macro_step
    BY <1>1
<1>5. Quantum \in common
    <2>1. Quantum = Max(common)
        BY DEF Quantum, QuantumOf
    <2> QED BY <1>1, <1>3, <1>4, <2>1, MaxOfBounded
<1>6. Quantum \in Nat \ {0} /\ \A p \in periods : p % Quantum = 0
    BY <1>1, <1>5
<1>7. e.duration % Quantum = 0 /\ e.checkpoint % Quantum = 0
    BY <1>1, <1>2, <1>6, DividesTransitive
<1>8. ASSUME NEW c \in Components
      PROVE  StepOf(c) \in Nat \ {0} /\ StepOf(c) % Quantum = 0
    <2>1. CASE e.steps[c] = 0
        <3>1. StepOf(c) = Quantum /\ \A q \in Nat \ {0} : q % q = 0
            BY <2>1 DEF StepOf
        <3> QED BY <3>1, <1>6
    <2>2. CASE e.steps[c] # 0
        BY <2>2, <1>1, <1>6 DEF StepOf, Components
    <2> QED BY <2>1, <2>2
<1> QED BY <1>1, <1>6, <1>7, <1>8 DEF Grid

\* The horizon is far enough for every component to step across the end of the run.
LEMMA HorizonBounds ==
  ASSUME Documents
  PROVE  Horizon \in Nat /\ \A c \in Components : experiment.duration + StepOf(c) <= Horizon
<1> DEFINE e == experiment
           lengths == {StepOf(c) : c \in Components}
<1>1. PICK n \in Nat \ {0} : e.steps \in [1..n -> Nat]
    BY ExperimentsAssumption DEF Documents
<1>2. Grid
    BY QuantumDivides
<1>3. PICK b \in Nat : \A i \in 1..n : e.steps[i] <= b
    BY <1>1, FinitelyManyBounded
<1>4. b + Quantum \in Nat /\ \A c \in Components : StepOf(c) <= b + Quantum
    BY <1>1, <1>2, <1>3 DEF Grid, Components, StepOf
<1>5. lengths \subseteq Nat /\ lengths # {}
    <2>1. 1 \in Components
        BY <1>1 DEF Components
    <2> QED BY <1>2, <2>1 DEF Grid
<1>6. \A y \in lengths : y <= b + Quantum
    BY <1>4
<1>7. Max(lengths) \in lengths /\ \A y \in lengths : y <= Max(lengths)
    <2> HIDE DEF lengths
    <2> QED BY <1>4, <1>5, <1>6, MaxOfBounded
<1>8. Max(lengths) \in Nat /\ \A c \in Components : StepOf(c) <= Max(lengths)
    BY <1>5, <1>7
<1>9. Horizon = e.duration + Max(lengths)
    BY DEF Horizon
<1>10. ASSUME NEW c \in Components PROVE e.duration + StepOf(c) <= e.duration + Max(lengths)
    <2> HIDE DEF lengths
    <2> QED BY <1>2, <1>8 DEF Grid
<1> QED BY <1>2, <1>8, <1>9, <1>10 DEF Grid

------------------------------------------------------------------------------
(* The loop: where every component stands while virtual time advances.       *)

Running == pc \in {"preparing", "opening", "stepping"}

OnGrid ==
  /\ Documents
  /\ now % Quantum = 0 /\ next # 0
  /\ pc = "preparing" => now = 0
  /\ pc = "stepping" => now < experiment.duration

\* The component stands at the first of its own step ends that is not before t.
StandsAt(c, t) ==
  local[c] % StepOf(c) = 0 /\ t <= local[c] /\ local[c] < t + StepOf(c)

\* In the middle of a quantum, the components before "next" are a quantum ahead.
Reached(c) == IF pc = "stepping" /\ c < next THEN now + Quantum ELSE now

Lockstep == Running => \A c \in Components : StandsAt(c, Reached(c))

\* What a step changes of the loop, by kind of step.
Stands ==
  /\ UNCHANGED <<experiment, loopVars>>
  /\ \/ pc' = pc /\ next' = next
     \/ pc = "preparing" /\ pc' \in {"preparing", "opening"} /\ next' = next + 1
     \/ pc = "preparing" /\ pc' \in {"preparing", "opening"} /\ next' = next

Leaves ==
  /\ UNCHANGED <<experiment, next, loopVars>>
  /\ pc' \in {"closing", "finalizing", "done"}

LoopStep == OpenQuantum \/ StepComponent \/ SkipComponent \/ CloseQuantum

\* Every step leaves the loop where it stands, ends it, or is one of its four own.
LEMMA StepKinds ==
  [Next]_schedulerVars => Stands \/ Leaves \/ LoopStep
BY DEF Next, RunStep, schedulerVars, loopVars, adapterVars, cancelVars, Stands, Leaves,
       LoopStep, SetCancel, LeaveWith, Raise, PrepareAdapter, Preparing, Blocked,
       PrepareFails, PreparedAll, Cancel, QuantumFails, StepFails, SnapshotFails, Judge,
       JudgeFails, Shutdown, Finalize

\* What is computed from the documents does not change as long as they do not.
LEMMA SameDocuments ==
  ASSUME experiment' = experiment
  PROVE  /\ Components' = Components /\ Wires' = Wires /\ Quantum' = Quantum
         /\ Horizon' = Horizon /\ Documents' = Documents
         /\ \A c : StepOf(c)' = StepOf(c)
<1>1. Components' = Components /\ Wires' = Wires /\ Quantum' = Quantum
    BY DEF Components, Wires, Quantum
<1>2. ASSUME NEW c PROVE StepOf(c)' = StepOf(c)
    BY <1>1 DEF StepOf
<1>3. Horizon' = Horizon
    BY DEF Horizon, StepOf, Components, Quantum
<1>4. Documents' = Documents
    BY DEF Documents
<1> QED BY <1>1, <1>2, <1>3, <1>4

\* No step changes the documents.
LEMMA AlwaysSameDocuments ==
  [Next]_schedulerVars => experiment' = experiment
BY StepKinds DEF Stands, Leaves, LoopStep, OpenQuantum, OpenQuantumUnchecked, StepComponent,
   SkipComponent, CloseQuantum

\* The status is settled when the loop is left, and by what happened until then.
EvidenceKept ==
  /\ Running => status = "running" /\ bundle = "none" /\ rescued = {}
  /\ ~Running => status # "running"
  /\ pc = "preparing" => \A c \in Components : local[c] = 0
  /\ status = "passed" => RanToTheEnd
  /\ status = "cancelled" => cancelled /\ rescued = {}
  /\ status = "blocked" => \A c \in Components : local[c] = 0
  /\ bundle \in {status, "none"}

TypedAndPlaced == SchedulerTypeOK /\ OnGrid /\ Lockstep

\* The loop is typed and placed before anything was prepared.
LEMMA PlacedInit == Init => TypedAndPlaced
<1> SUFFICES ASSUME Init PROVE TypedAndPlaced
    OBVIOUS
<1>1. Documents
    BY DEF Init, Documents
<1>2. Grid /\ Horizon \in Nat
    BY <1>1, QuantumDivides, HorizonBounds
<1>3. \A q \in Nat \ {0} : 0 % q = 0
    OBVIOUS
<1>4. SchedulerTypeOK
    <2>1. 0 \in 0..Horizon /\ 0 \in 0..experiment.duration
        BY <1>2 DEF Grid
    <2> QED BY <1>1, <2>1 DEF Init, SchedulerTypeOK, Documents
<1>5. OnGrid
    BY <1>1, <1>2, <1>3 DEF Init, OnGrid, Grid
<1>6. Lockstep
    BY <1>2, <1>3 DEF Init, Lockstep, StandsAt, Reached, Grid
<1> QED BY <1>4, <1>5, <1>6 DEF TypedAndPlaced

\* The numbers of a placed loop: what the arithmetic of its steps needs.
LEMMA Placed ==
  ASSUME TypedAndPlaced
  PROVE  /\ Grid /\ Documents /\ Horizon \in Nat
         /\ now \in Nat /\ now <= experiment.duration /\ next \in Nat \ {0}
         /\ \A c \in Components :
              /\ experiment.duration + StepOf(c) <= Horizon
              /\ local[c] \in Nat /\ local[c] <= Horizon
<1>1. Documents /\ SchedulerTypeOK /\ OnGrid
    BY DEF TypedAndPlaced, OnGrid
<1>2. Grid /\ Horizon \in Nat
    BY <1>1, QuantumDivides, HorizonBounds
<1>3. \A c \in Components : experiment.duration + StepOf(c) <= Horizon
    BY <1>1, HorizonBounds
<1> QED BY <1>1, <1>2, <1>3 DEF SchedulerTypeOK, OnGrid, Grid

\* A quantum that is open ends by the end of the experiment.
LEMMA QuantumFits ==
  ASSUME TypedAndPlaced, now < experiment.duration
  PROVE  now + Quantum \in Nat /\ now + Quantum <= experiment.duration
         /\ (now + Quantum) % Quantum = 0
<1>1. Grid /\ now \in Nat /\ now % Quantum = 0
    BY Placed DEF TypedAndPlaced, OnGrid
<1>2. now + Quantum <= experiment.duration
    BY <1>1, MultiplesApart DEF Grid
<1>3. Quantum % Quantum = 0
    BY <1>1, TimesDivides DEF Grid
<1>4. (now + Quantum) % Quantum = 0
    BY <1>1, <1>3, SumDivides DEF Grid
<1> QED BY <1>1, <1>2, <1>4 DEF Grid

\* A component that takes part is moved to the next of its own step ends.
LEMMA StepMoves ==
  ASSUME TypedAndPlaced, NEW c \in Components, now < experiment.duration, TakesPart(c)
  PROVE  /\ now + StepOf(c) \in 0..Horizon /\ now + StepOf(c) > now
         /\ (now + StepOf(c)) % StepOf(c) = 0
         /\ now + Quantum <= now + StepOf(c)
         /\ now + StepOf(c) < now + Quantum + StepOf(c)
<1>1. /\ Quantum \in Nat \ {0} /\ StepOf(c) \in Nat \ {0} /\ StepOf(c) % Quantum = 0
      /\ now \in Nat /\ Horizon \in Nat
      /\ experiment.duration \in Nat /\ experiment.duration + StepOf(c) <= Horizon
    BY Placed DEF Grid
<1>2. StepOf(c) >= Quantum
    <2>1. 0 % Quantum = 0 /\ 0 + Quantum = Quantum
        BY <1>1
    <2> QED BY <1>1, <2>1, MultiplesApart
<1>3. StepOf(c) % StepOf(c) = 0
    BY <1>1, TimesDivides
<1>4. (now + StepOf(c)) % StepOf(c) = 0
    BY <1>1, <1>3, SumDivides DEF TakesPart
<1> QED BY <1>1, <1>2, <1>4

\* A component that does not take part stands a quantum ahead already.
LEMMA SkipStands ==
  ASSUME TypedAndPlaced, NEW c \in Components, StandsAt(c, now), ~TakesPart(c)
  PROVE  StandsAt(c, now + Quantum)
<1>1. /\ Quantum \in Nat \ {0} /\ StepOf(c) \in Nat \ {0} /\ StepOf(c) % Quantum = 0
      /\ now \in Nat /\ now % Quantum = 0 /\ local[c] \in Nat
    BY Placed DEF Grid, TypedAndPlaced, OnGrid
<1>2. local[c] # now /\ local[c] % StepOf(c) = 0
    BY DEF StandsAt, TakesPart
<1>3. local[c] % Quantum = 0
    BY <1>1, <1>2, DividesTransitive
<1>4. now + Quantum <= local[c]
    BY <1>1, <1>2, <1>3, MultiplesApart DEF StandsAt
<1> QED BY <1>1, <1>4 DEF StandsAt

LoopTyped ==
  /\ now \in 0..experiment.duration /\ next \in Nat
  /\ local \in [Components -> 0..Horizon]
  /\ pending \subseteq [at : 0..Horizon, wire : Wires, made : 0..Horizon]
  /\ received \in [Wires -> 0..Horizon]
  /\ injected \subseteq experiment.stimuli
  /\ snapshots \subseteq Components \X (0..Horizon) \X (0..Horizon)

\* Opening a quantum moves no component, and starts with the first.
LEMMA OpenPlaced ==
  ASSUME TypedAndPlaced, OpenQuantum
  PROVE  LoopTyped' /\ OnGrid' /\ Lockstep'
<1> USE DEF OpenQuantum, OpenQuantumUnchecked, Opening
<1>1. experiment' = experiment /\ now' = now /\ local' = local /\ snapshots' = snapshots
      /\ pc = "opening" /\ pc' = "stepping" /\ next' = 1 /\ now < experiment.duration
    OBVIOUS
<1>2. SchedulerTypeOK /\ OnGrid /\ Lockstep /\ Documents /\ Horizon \in Nat
    BY Placed DEF TypedAndPlaced
<1>3. received' \in [Wires -> 0..Horizon]
    <2> SUFFICES ASSUME NEW wire \in Wires
                 PROVE  Max({received[wire]} \cup {p.made : p \in {d \in Due : d.wire = wire}})
                           \in 0..Horizon
        OBVIOUS
    <2> DEFINE S == {received[wire]} \cup {p.made : p \in {d \in Due : d.wire = wire}}
    <2>1. \A p \in Due : p.made \in 0..Horizon
        BY <1>2 DEF Due, SchedulerTypeOK
    <2>2. received[wire] \in 0..Horizon
        BY <1>2 DEF SchedulerTypeOK
    <2>3. S \subseteq 0..Horizon /\ S # {}
        BY <2>1, <2>2
    <2>4. Max(S) \in S
        <3> HIDE DEF S
        <3>1. S \subseteq Nat /\ \A y \in S : y <= Horizon
            BY <1>2, <2>3
        <3> QED BY <1>2, <2>3, <3>1, MaxOfBounded
    <2> QED BY <2>3, <2>4
<1>4. LoopTyped'
    <2>1. injected' \subseteq experiment.stimuli /\ pending' \subseteq pending
        BY <1>2 DEF SchedulerTypeOK
    <2> QED BY <1>1, <1>2, <1>3, <2>1, SameDocuments DEF LoopTyped, SchedulerTypeOK
<1>5. OnGrid'
    BY <1>1, <1>2, SameDocuments DEF OnGrid
<1>6. Lockstep'
    <2> SUFFICES ASSUME NEW c \in Components PROVE StandsAt(c, Reached(c))'
        BY <1>1, SameDocuments DEF Lockstep
    <2>1. StandsAt(c, now) /\ ~(c < 1)
        BY <1>1, <1>2, ExperimentsAssumption
           DEF Lockstep, Running, Reached, Components, Documents
    <2> QED BY <1>1, <2>1, SameDocuments DEF StandsAt, Reached
<1> QED BY <1>4, <1>5, <1>6

\* The components are numbered in the order of the manifest.
LEMMA Numbered ==
  ASSUME Documents
  PROVE  \E n \in Nat \ {0} : Components = 1..n
BY ExperimentsAssumption DEF Documents, Components

\* A component that is due is stepped to the first of its step ends behind the quantum.
LEMMA StepPlaced ==
  ASSUME TypedAndPlaced, StepComponent
  PROVE  LoopTyped' /\ OnGrid' /\ Lockstep'
<1> USE DEF StepComponent, Stepping
<1> DEFINE end == now + StepOf(next)
<1>1. /\ experiment' = experiment /\ now' = now /\ snapshots' = snapshots
      /\ injected' = injected /\ received' = received
      /\ local' = [local EXCEPT ![next] = end] /\ next \in Components /\ TakesPart(next)
      /\ pc = "stepping" /\ pc' = "stepping" /\ next' = next + 1
    OBVIOUS
<1>2. /\ SchedulerTypeOK /\ OnGrid /\ Lockstep /\ Documents /\ now < experiment.duration
      /\ Quantum \in Nat \ {0}
    BY <1>1, Placed DEF TypedAndPlaced, OnGrid, Grid
<1>3. /\ end \in 0..Horizon /\ end > now /\ end % StepOf(next) = 0
      /\ now + Quantum <= end /\ end < now + Quantum + StepOf(next)
    BY <1>1, <1>2, StepMoves
<1> HIDE DEF end
<1>4. local \in [Components -> 0..Horizon] /\ local'[next] = end
      /\ \A c \in Components : c # next => local'[c] = local[c]
    BY <1>1, <1>2 DEF SchedulerTypeOK
<1>5. LoopTyped'
    <2>1. local' \in [Components -> 0..Horizon]
        BY <1>1, <1>3, <1>4
    <2>2. \A wire \in Wires : [at |-> end, wire |-> wire, made |-> end]
                                  \in [at : 0..Horizon, wire : Wires, made : 0..Horizon]
        BY <1>3
    <2>3. pending' \subseteq [at : 0..Horizon, wire : Wires, made : 0..Horizon]
        BY <1>2, <2>2 DEF SchedulerTypeOK, Arrival, end
    <2>4. next' \in Nat
        BY <1>1, <1>2 DEF SchedulerTypeOK
    <2> QED BY <1>1, <1>2, <2>1, <2>3, <2>4, SameDocuments DEF LoopTyped, SchedulerTypeOK
<1>6. OnGrid'
    BY <1>1, <1>2, SameDocuments DEF OnGrid, SchedulerTypeOK
<1>7. Lockstep'
    <2> SUFFICES ASSUME NEW c \in Components PROVE StandsAt(c, Reached(c))'
        BY <1>1, SameDocuments DEF Lockstep
    <2>1. StandsAt(c, Reached(c)) /\ next \in Nat /\ c \in Nat
        BY <1>1, <1>2, Numbered DEF Lockstep, Running, SchedulerTypeOK
    <2>2. CASE c = next
        BY <1>1, <1>2, <1>3, <1>4, <2>1, <2>2, SameDocuments DEF StandsAt, Reached
    <2>3. CASE c # next
        <3>1. Reached(c)' = Reached(c)
            BY <1>1, <2>1, <2>3, SameDocuments DEF Reached
        <3> QED BY <1>4, <2>1, <2>3, <3>1, <1>1, SameDocuments DEF StandsAt
    <2> QED BY <2>2, <2>3
<1> QED BY <1>5, <1>6, <1>7

\* A component that is not due already stands behind the quantum.
LEMMA SkipPlaced ==
  ASSUME TypedAndPlaced, SkipComponent
  PROVE  LoopTyped' /\ OnGrid' /\ Lockstep'
<1> USE DEF SkipComponent, Stepping, loopVars
<1>1. /\ UNCHANGED <<experiment, loopVars>> /\ next \in Components /\ ~TakesPart(next)
      /\ pc = "stepping" /\ pc' = "stepping" /\ next' = next + 1
    OBVIOUS
<1>2. SchedulerTypeOK /\ OnGrid /\ Lockstep /\ Documents
    BY DEF TypedAndPlaced, OnGrid
<1>3. LoopTyped'
    <2>1. next' \in Nat
        BY <1>1, <1>2 DEF SchedulerTypeOK
    <2> QED BY <1>1, <1>2, <2>1, SameDocuments DEF LoopTyped, SchedulerTypeOK
<1>4. OnGrid'
    BY <1>1, <1>2, SameDocuments DEF OnGrid, SchedulerTypeOK
<1>5. Lockstep'
    <2> SUFFICES ASSUME NEW c \in Components PROVE StandsAt(c, Reached(c))'
        BY <1>1, SameDocuments DEF Lockstep
    <2>1. StandsAt(c, Reached(c)) /\ next \in Nat /\ c \in Nat
        BY <1>1, <1>2, Numbered DEF Lockstep, Running, SchedulerTypeOK
    <2>2. CASE c = next
        <3>1. StandsAt(c, now)
            BY <2>1, <2>2 DEF Reached
        <3>2. StandsAt(c, now + Quantum)
            BY <1>1, <2>2, <3>1, SkipStands
        <3>3. Reached(c)' = now + Quantum
            BY <1>1, <2>1, <2>2, SameDocuments DEF Reached
        <3> QED BY <1>1, <3>2, <3>3, SameDocuments DEF StandsAt
    <2>3. CASE c # next
        <3>1. Reached(c)' = Reached(c)
            BY <1>1, <2>1, <2>3, SameDocuments DEF Reached
        <3> QED BY <2>1, <3>1, <1>1, SameDocuments DEF StandsAt
    <2> QED BY <2>2, <2>3
<1> QED BY <1>3, <1>4, <1>5

\* When every component had its turn, all stand a quantum ahead.
LEMMA AllStepped ==
  ASSUME TypedAndPlaced, Closing
  PROVE  \A c \in Components : StandsAt(c, now + Quantum)
<1> SUFFICES ASSUME NEW c \in Components PROVE StandsAt(c, now + Quantum)
    OBVIOUS
<1>1. PICK n \in Nat \ {0} : Components = 1..n
    BY Numbered DEF TypedAndPlaced, OnGrid
<1>2. next \in Nat \ {0} /\ next \notin Components /\ pc = "stepping"
    BY Placed DEF Closing
<1>3. c < next
    BY <1>1, <1>2
<1> QED BY <1>2, <1>3 DEF TypedAndPlaced, Lockstep, Running, Reached

\* At the end of a quantum all components have reached it: the clock may follow.
LEMMA ClosePlaced ==
  ASSUME TypedAndPlaced, CloseQuantum
  PROVE  LoopTyped' /\ OnGrid' /\ Lockstep'
<1>1. /\ experiment' = experiment /\ now' = now + Quantum /\ pc' = "opening"
      /\ UNCHANGED <<next, local, pending, received, injected>> /\ Closing
    BY DEF CloseQuantum
<1>2. SchedulerTypeOK /\ OnGrid /\ Documents /\ now < experiment.duration
    BY <1>1 DEF TypedAndPlaced, OnGrid, Closing
<1>3. /\ Horizon \in Nat /\ experiment.duration <= Horizon
      /\ experiment.duration \in Nat
    <2>0. PICK n \in Nat \ {0} : Components = 1..n
        BY <1>2, Numbered
    <2>1. PICK c \in 1..n : c \in Components
        BY <2>0
    <2>2. Grid /\ Horizon \in Nat /\ experiment.duration + StepOf(c) <= Horizon
        BY <2>1, Placed
    <2>3. StepOf(c) \in Nat /\ experiment.duration \in Nat
        BY <2>1, <2>2 DEF Grid
    <2> QED BY <2>2, <2>3
<1>4. /\ now + Quantum \in Nat /\ now + Quantum <= experiment.duration
      /\ (now + Quantum) % Quantum = 0
    BY <1>2, QuantumFits
<1>5. snapshots' \subseteq Components \X (0..Horizon) \X (0..Horizon)
    <2>1. \A c \in Components :
            <<c, now + Quantum, local[c]>> \in Components \X (0..Horizon) \X (0..Horizon)
        BY <1>2, <1>3, <1>4 DEF SchedulerTypeOK
    <2> QED BY <1>2, <2>1 DEF CloseQuantum, SchedulerTypeOK
<1>6. LoopTyped'
    BY <1>1, <1>2, <1>3, <1>4, <1>5, SameDocuments DEF LoopTyped, SchedulerTypeOK
<1>7. OnGrid'
    BY <1>1, <1>2, <1>4, SameDocuments DEF OnGrid
<1>8. Lockstep'
    BY <1>1, AllStepped, SameDocuments DEF Lockstep, StandsAt, Reached
<1> QED BY <1>6, <1>7, <1>8

\* A step that leaves the loop's variables alone keeps what is said of them.
LEMMA QuietPlaced ==
  ASSUME TypedAndPlaced, Stands \/ Leaves
  PROVE  LoopTyped' /\ OnGrid' /\ Lockstep'
<1> USE DEF loopVars
<1>1. /\ SchedulerTypeOK /\ OnGrid /\ Lockstep /\ Documents
      /\ UNCHANGED <<experiment, loopVars>>
    BY DEF TypedAndPlaced, OnGrid, Stands, Leaves
<1>2. next' \in Nat /\ next' # 0
    BY <1>1 DEF SchedulerTypeOK, OnGrid, Stands, Leaves
<1>3. LoopTyped'
    BY <1>1, <1>2, SameDocuments DEF LoopTyped, SchedulerTypeOK
<1>4. OnGrid'
    BY <1>1, <1>2, SameDocuments DEF OnGrid, Stands, Leaves
<1>5. Lockstep'
    <2> SUFFICES ASSUME Running', NEW c \in Components PROVE StandsAt(c, Reached(c))'
        BY <1>1, SameDocuments DEF Lockstep
    <2>1. Running /\ Reached(c)' = Reached(c)
        BY <1>1, SameDocuments DEF Running, Reached, Stands, Leaves
    <2>2. StandsAt(c, Reached(c))
        BY <1>1, <2>1 DEF Lockstep
    <2> QED BY <1>1, <2>1, <2>2, SameDocuments DEF StandsAt
<1> QED BY <1>3, <1>4, <1>5

OtherTyped ==
  /\ pc \in {"preparing", "opening", "stepping", "closing", "finalizing", "done"}
  /\ entered \subseteq Components /\ live \subseteq Components
  /\ rescued \subseteq entered
  /\ cancelled \in BOOLEAN
  /\ localThen \in [Components -> 0..Horizon]
  /\ status \in {"running", "blocked", "passed", "failed", "cancelled"}
  /\ bundle \in {"none", "blocked", "passed", "failed", "cancelled"}

\* The variables beside the loop keep their types.
LEMMA OtherTypedStep ==
  ASSUME SchedulerTypeOK, EvidenceKept, [Next]_schedulerVars
  PROVE  OtherTyped'
<1> USE DEF SchedulerTypeOK, OtherTyped, adapterVars, cancelVars
<1>0. experiment' = experiment
    BY AlwaysSameDocuments
<1>1. Components' = Components /\ Horizon' = Horizon
    BY <1>0, SameDocuments
<1>2. CASE PrepareAdapter
    BY <1>1, <1>2 DEF PrepareAdapter, Preparing
<1>3. CASE Blocked
    BY <1>1, <1>3 DEF Blocked, LeaveWith
<1>4. CASE PrepareFails
    BY <1>1, <1>4 DEF PrepareFails, Preparing, Raise, LeaveWith
<1>5. CASE PreparedAll
    BY <1>1, <1>5 DEF PreparedAll
<1>6. CASE OpenQuantum
    BY <1>1, <1>6 DEF OpenQuantum, OpenQuantumUnchecked
<1>7. CASE Cancel
    BY <1>1, <1>7 DEF Cancel, LeaveWith
<1>8. CASE QuantumFails
    BY <1>1, <1>8 DEF QuantumFails, Raise, LeaveWith
<1>9. CASE StepComponent
    BY <1>1, <1>9 DEF StepComponent
<1>10. CASE SkipComponent
    BY <1>1, <1>10 DEF SkipComponent
<1>11. CASE StepFails
    BY <1>1, <1>11 DEF StepFails, Raise, LeaveWith
<1>12. CASE CloseQuantum
    BY <1>1, <1>12 DEF CloseQuantum
<1>13. CASE SnapshotFails
    BY <1>1, <1>13 DEF SnapshotFails, Raise, LeaveWith
<1>14. CASE Judge
    BY <1>1, <1>14 DEF Judge, LeaveWith
<1>15. CASE JudgeFails
    BY <1>1, <1>15 DEF JudgeFails, Raise, LeaveWith
<1>16. CASE Shutdown
    BY <1>1, <1>16 DEF Shutdown
<1>17. CASE Finalize
    <2>1. status # "running"
        BY <1>17 DEF Finalize, EvidenceKept, Running
    <2> QED BY <1>1, <1>17, <2>1 DEF Finalize
<1>18. CASE SetCancel
    BY <1>1, <1>18 DEF SetCancel
<1>19. CASE UNCHANGED schedulerVars
    BY <1>1, <1>19 DEF schedulerVars
<1> QED
    BY <1>2, <1>3, <1>4, <1>5, <1>6, <1>7, <1>8, <1>9, <1>10, <1>11, <1>12, <1>13,
       <1>14, <1>15, <1>16, <1>17, <1>18, <1>19 DEF Next, RunStep

\* Every step keeps the loop typed and placed.
LEMMA PlacedStep ==
  TypedAndPlaced /\ EvidenceKept /\ [Next]_schedulerVars => TypedAndPlaced'
<1> SUFFICES ASSUME TypedAndPlaced, EvidenceKept, [Next]_schedulerVars
             PROVE  TypedAndPlaced'
    OBVIOUS
<1>1. LoopTyped' /\ OnGrid' /\ Lockstep'
    <2>1. CASE Stands \/ Leaves
        BY <2>1, QuietPlaced
    <2>2. CASE LoopStep
        BY <2>2, OpenPlaced, StepPlaced, SkipPlaced, ClosePlaced DEF LoopStep
    <2> QED BY <2>1, <2>2, StepKinds
<1>2. OtherTyped'
    BY OtherTypedStep DEF TypedAndPlaced
<1>3. experiment' \in Experiments
    BY AlwaysSameDocuments DEF TypedAndPlaced, SchedulerTypeOK
<1>4. SchedulerTypeOK'
    BY <1>1, <1>2, <1>3 DEF SchedulerTypeOK, LoopTyped, OtherTyped
<1> QED BY <1>1, <1>4 DEF TypedAndPlaced

------------------------------------------------------------------------------
(* The evidence.                                                             *)

\* Every stimulus at an instant the loop has visited has been injected.
StimuliKept ==
  Running =>
    \A s \in experiment.stimuli :
      /\ s.at % Quantum = 0
      /\ s.at < now \/ (pc = "stepping" /\ s.at = now)
      => s \in injected

\* Every quantum that is opened applies the stimuli due at its start.
LEMMA StimuliStep ==
  TypedAndPlaced /\ StimuliKept /\ [Next]_schedulerVars => StimuliKept'
<1> SUFFICES ASSUME TypedAndPlaced, StimuliKept, [Next]_schedulerVars, Running',
                    NEW s \in experiment'.stimuli, s.at % Quantum' = 0,
                    s.at < now' \/ (pc' = "stepping" /\ s.at = now')
             PROVE  s \in injected'
    BY DEF StimuliKept
<1>1. /\ experiment' = experiment /\ Quantum' = Quantum /\ s \in experiment.stimuli
      /\ s.at % Quantum = 0
    BY AlwaysSameDocuments, SameDocuments
<1>2. CASE Stands \/ Leaves
    BY <1>1, <1>2 DEF StimuliKept, Stands, Leaves, loopVars, Running
<1>3. CASE OpenQuantum
    BY <1>1, <1>3 DEF StimuliKept, OpenQuantum, OpenQuantumUnchecked, Opening, Running
<1>4. CASE StepComponent
    BY <1>1, <1>4 DEF StimuliKept, StepComponent, Stepping, Running
<1>5. CASE SkipComponent
    BY <1>1, <1>5 DEF StimuliKept, SkipComponent, Stepping, Running, loopVars
<1>6. CASE CloseQuantum
    <2>1. /\ now' = now + Quantum /\ pc = "stepping" /\ pc' = "opening"
          /\ injected' = injected
        BY <1>6 DEF CloseQuantum, Closing
    <2>2. s.at \in Nat /\ now \in Nat /\ Quantum \in Nat \ {0} /\ now % Quantum = 0
        BY <1>1, Placed, ExperimentsAssumption DEF Documents, Grid, TypedAndPlaced, OnGrid
    <2>3. s.at < now + Quantum
        BY <1>1, <2>1
    <2>4. s.at <= now
        BY <1>1, <2>2, <2>3, MultiplesApart
    <2> QED BY <1>1, <2>1, <2>2, <2>4 DEF StimuliKept, Running
<1> QED BY <1>2, <1>3, <1>4, <1>5, <1>6, StepKinds DEF LoopStep

\* Whether the run got to its end depends on the loop and on the stimuli alone.
LEMMA SameEnd ==
  ASSUME UNCHANGED <<experiment, now, local, injected, rescued>>
  PROVE  RanToTheEnd' = RanToTheEnd
<1>1. Components' = Components /\ Quantum' = Quantum
    BY SameDocuments
<1> QED BY <1>1 DEF RanToTheEnd

\* A loop that was not left ran to the end.
LEMMA LoopDone ==
  ASSUME TypedAndPlaced, StimuliKept, EvidenceKept, pc = "opening",
         now >= experiment.duration
  PROVE  RanToTheEnd
<1>1. now = experiment.duration /\ now \in Nat
    BY Placed DEF Grid
<1>2. \A c \in Components : local[c] >= experiment.duration
    BY <1>1, Placed DEF TypedAndPlaced, Lockstep, Running, Reached, StandsAt
<1>3. \A s \in experiment.stimuli :
        s.at < experiment.duration /\ s.at % Quantum = 0 => s \in injected
    BY <1>1 DEF StimuliKept, Running
<1>4. rescued = {}
    BY DEF EvidenceKept, Running
<1> QED BY <1>1, <1>2, <1>3, <1>4 DEF RanToTheEnd

\* There is no evidence before the run.
LEMMA EvidenceInit == Init => EvidenceKept
BY DEF Init, EvidenceKept, Running

\* Every step keeps the evidence about the run that was made.
LEMMA EvidenceStep ==
  TypedAndPlaced /\ StimuliKept /\ EvidenceKept /\ [Next]_schedulerVars => EvidenceKept'
<1> SUFFICES ASSUME TypedAndPlaced, StimuliKept, EvidenceKept, [Next]_schedulerVars
             PROVE  EvidenceKept'
    OBVIOUS
<1>0. experiment' = experiment /\ Components' = Components
    BY AlwaysSameDocuments, SameDocuments
<1> USE DEF Running, loopVars, adapterVars, cancelVars
<1>2. CASE PrepareAdapter
    BY <1>0, <1>2 DEF PrepareAdapter, Preparing, EvidenceKept
<1>3. CASE Blocked
    BY <1>0, <1>3 DEF Blocked, Preparing, LeaveWith, EvidenceKept
<1>4. CASE PrepareFails \/ QuantumFails \/ StepFails \/ SnapshotFails \/ JudgeFails
    <2>1. Running /\ pc' = "closing" /\ status' = "failed" /\ bundle' = bundle
        BY <1>4 DEF PrepareFails, Preparing, QuantumFails, Opening, StepFails, Stepping,
                    SnapshotFails, Closing, JudgeFails, Raise, LeaveWith
    <2> QED BY <2>1 DEF EvidenceKept
<1>5. CASE PreparedAll
    BY <1>0, <1>5 DEF PreparedAll, EvidenceKept
<1>6. CASE LoopStep
    <2>1. /\ Running /\ pc' \in {"opening", "stepping"}
          /\ UNCHANGED <<rescued, status, bundle>>
        BY <1>6 DEF LoopStep, OpenQuantum, OpenQuantumUnchecked, Opening, StepComponent,
                    Stepping, SkipComponent, CloseQuantum, Closing
    <2> QED BY <2>1 DEF EvidenceKept
<1>7. CASE Cancel
    BY <1>7 DEF Cancel, Opening, LeaveWith, EvidenceKept
<1>8. CASE Judge
    <2>1. RanToTheEnd
        BY <1>8, LoopDone DEF Judge
    <2>2. RanToTheEnd'
        BY <1>8, <2>1, SameEnd DEF Judge, LeaveWith
    <2>3. pc = "opening" /\ pc' = "closing" /\ status' \in {"passed", "failed"}
          /\ bundle' = bundle
        BY <1>8 DEF Judge, LeaveWith
    <2> QED BY <2>2, <2>3 DEF EvidenceKept
<1>9. CASE Shutdown
    BY <1>0, <1>9, SameEnd DEF Shutdown, EvidenceKept
<1>10. CASE Finalize
    BY <1>0, <1>10, SameEnd DEF Finalize, EvidenceKept
<1>11. CASE SetCancel
    BY <1>0, <1>11, SameEnd DEF SetCancel, EvidenceKept
<1>12. CASE UNCHANGED schedulerVars
    BY <1>0, <1>12, SameEnd DEF schedulerVars, EvidenceKept
<1> QED
    BY <1>2, <1>3, <1>4, <1>5, <1>6, <1>7, <1>8, <1>9, <1>10, <1>11, <1>12
       DEF Next, RunStep, LoopStep

------------------------------------------------------------------------------
(* Checkpoints.                                                              *)

\* CheckpointsTaken, and its first part wherever the run is.
CheckpointsKept ==
  /\ experiment.checkpoint # 0 =>
       \A t \in 1..now, c \in Components :
         t % experiment.checkpoint = 0 => \E s \in snapshots : s[1] = c /\ s[2] = t
  /\ \A s \in snapshots :
       s[3] % StepOf(s[1]) = 0 /\ s[2] <= s[3] /\ s[3] < s[2] + StepOf(s[1])

\* No checkpoint is due before the run.
LEMMA CheckpointsInit == Init => CheckpointsKept
BY DEF Init, CheckpointsKept

\* Every step keeps the checkpoints due so far taken.
LEMMA CheckpointsStep ==
  TypedAndPlaced /\ CheckpointsKept /\ [Next]_schedulerVars => CheckpointsKept'
<1> SUFFICES ASSUME TypedAndPlaced, CheckpointsKept, [Next]_schedulerVars
             PROVE  CheckpointsKept'
    OBVIOUS
<1>1. CASE UNCHANGED <<experiment, now, snapshots>>
    BY <1>1, SameDocuments DEF CheckpointsKept
<1>2. CASE CloseQuantum
    <2> DEFINE cp == experiment.checkpoint
    <2>1. /\ experiment' = experiment /\ now' = now + Quantum /\ Closing
          /\ snapshots \subseteq snapshots'
        BY <1>2 DEF CloseQuantum
    <2>2. /\ now \in Nat /\ Quantum \in Nat \ {0} /\ cp \in Nat /\ cp % Quantum = 0
          /\ now % Quantum = 0
        BY Placed DEF Grid, TypedAndPlaced, OnGrid
    <2>3. ASSUME cp # 0, NEW t \in 1..(now + Quantum), NEW c \in Components, t % cp = 0
          PROVE  \E s \in snapshots' : s[1] = c /\ s[2] = t
        <3>1. CASE t <= now
            <4>1. t \in 1..now
                BY <2>2, <3>1
            <4> QED BY <2>1, <2>3, <4>1 DEF CheckpointsKept
        <3>2. CASE t > now
            <4>1. t % Quantum = 0
                <5>1. t \in Nat /\ cp \in Nat \ {0}
                    BY <2>2, <2>3
                <5> QED BY <2>2, <2>3, <5>1, DividesTransitive
            <4>2. t = now + Quantum
                <5>1. t \in Nat /\ t <= now + Quantum
                    BY <2>2
                <5>2. now + Quantum <= t
                    BY <2>2, <3>2, <4>1, <5>1, MultiplesApart
                <5> QED BY <2>2, <5>1, <5>2
            <4>3. CheckpointDue
                BY <2>3, <4>2 DEF CheckpointDue
            <4>4. <<c, now + Quantum, local[c]>> \in snapshots'
                BY <1>2, <4>3 DEF CloseQuantum
            <4> QED BY <4>2, <4>4
        <3> QED BY <2>2, <3>1, <3>2
    <2>4. ASSUME NEW s \in snapshots'
          PROVE  s[3] % StepOf(s[1]) = 0 /\ s[2] <= s[3] /\ s[3] < s[2] + StepOf(s[1])
        <3>1. CASE s \in snapshots
            BY <3>1 DEF CheckpointsKept
        <3>2. CASE s \notin snapshots
            <4>1. PICK c \in Components : s = <<c, now + Quantum, local[c]>>
                BY <1>2, <3>2 DEF CloseQuantum
            <4>2. StandsAt(c, now + Quantum)
                BY <2>1, AllStepped
            <4> QED BY <4>1, <4>2 DEF StandsAt
        <3> QED BY <3>1, <3>2
    <2> QED BY <2>1, <2>3, <2>4, SameDocuments DEF CheckpointsKept
<1>3. CASE Stands \/ Leaves \/ OpenQuantum \/ StepComponent \/ SkipComponent
    BY <1>1, <1>3 DEF Stands, Leaves, OpenQuantum, OpenQuantumUnchecked, StepComponent,
                     SkipComponent, loopVars
<1> QED BY <1>2, <1>3, StepKinds DEF LoopStep

------------------------------------------------------------------------------
(* Cancellation.                                                             *)

\* A component whose turn is still to come has not moved since the cancellation,
\* the others by one step at the most; between two quanta the loop is left.
CancelKept ==
  cancelled =>
    \A c \in Components :
      /\ local[c] <= localThen[c] + StepOf(c)
      /\ pc = "stepping" /\ next <= c => local[c] = localThen[c]

\* Nothing is cancelled before the run.
LEMMA CancelInit == Init => CancelKept
BY DEF Init, CancelKept

\* After a cancellation a component makes only the step whose turn was still to come.
LEMMA CancelStep ==
  TypedAndPlaced /\ CancelKept /\ [Next]_schedulerVars => CancelKept'
<1> SUFFICES ASSUME TypedAndPlaced, CancelKept, [Next]_schedulerVars, cancelled',
                    NEW c \in Components'
             PROVE  /\ local'[c] <= localThen'[c] + StepOf(c)'
                    /\ pc' = "stepping" /\ next' <= c => local'[c] = localThen'[c]
    BY DEF CancelKept
<1>1. c \in Components /\ StepOf(c)' = StepOf(c)
    BY AlwaysSameDocuments, SameDocuments
<1>2. /\ local[c] \in Nat /\ c \in Nat /\ next \in Nat /\ now \in Nat
      /\ StepOf(c) \in Nat \ {0} /\ Documents
      /\ local \in [Components -> 0..Horizon]
    <2>1. Documents /\ SchedulerTypeOK
        BY DEF TypedAndPlaced, OnGrid
    <2>2. c \in Nat
        BY <1>1, <2>1, Numbered
    <2> QED BY <1>1, <2>1, <2>2, Placed DEF Grid, SchedulerTypeOK
<1>3. CASE UNCHANGED <<local, cancelled, localThen>> /\ pc' # "stepping"
    BY <1>1, <1>3 DEF CancelKept
<1>4. CASE UNCHANGED <<pc, next, local, cancelled, localThen>>
    BY <1>1, <1>4 DEF CancelKept
<1>5. CASE OpenQuantum
    BY <1>5 DEF OpenQuantum, OpenQuantumUnchecked, cancelVars
<1>6. CASE StepComponent
    <2>1. /\ UNCHANGED <<pc, cancelled, localThen>> /\ next' = next + 1 /\ pc = "stepping"
          /\ local' = [local EXCEPT ![next] = now + StepOf(next)] /\ cancelled
        BY <1>6 DEF StepComponent, Stepping, cancelVars
    <2>2. CASE c = next
        <3>1. local[c] = localThen[c] /\ StandsAt(c, now)
            BY <1>1, <1>2, <2>1, <2>2
               DEF CancelKept, TypedAndPlaced, Lockstep, Running, Reached
        <3>2. local'[c] = now + StepOf(c) /\ now <= local[c]
            BY <1>1, <1>2, <2>1, <2>2, <3>1 DEF StandsAt
        <3> QED BY <1>1, <1>2, <2>1, <2>2, <3>1, <3>2
    <2>3. CASE c # next
        <3>1. local'[c] = local[c]
            BY <1>1, <1>2, <2>1, <2>3
        <3> QED BY <1>1, <1>2, <2>1, <3>1 DEF CancelKept
    <2> QED BY <2>2, <2>3
<1>7. CASE SkipComponent
    BY <1>1, <1>2, <1>7 DEF SkipComponent, Stepping, loopVars, cancelVars, CancelKept
<1>8. CASE SetCancel
    BY <1>1, <1>2, <1>8 DEF SetCancel, loopVars
<1>9. CASE PrepareAdapter \/ PreparedAll \/ CloseQuantum \/ Shutdown \/ Finalize
    BY <1>3, <1>9 DEF PrepareAdapter, Preparing, PreparedAll, CloseQuantum, Shutdown,
                      Finalize, loopVars, cancelVars
<1>10. CASE \/ Blocked \/ PrepareFails \/ Cancel \/ QuantumFails \/ StepFails
            \/ SnapshotFails \/ Judge \/ JudgeFails
    BY <1>3, <1>10 DEF Blocked, PrepareFails, Cancel, QuantumFails, StepFails, SnapshotFails,
                       Judge, JudgeFails, LeaveWith, Raise, loopVars, cancelVars
<1>11. CASE UNCHANGED schedulerVars
    BY <1>4, <1>11 DEF schedulerVars, loopVars, cancelVars
<1> QED
    BY <1>5, <1>6, <1>7, <1>8, <1>9, <1>10, <1>11 DEF Next, RunStep

------------------------------------------------------------------------------
(* Shutdown.                                                                 *)

\* No run has ended before it began.
LEMMA SafeStopInit == Init => SafeStop
BY DEF Init, SafeStop

\* Only Shutdown lets a run end, and it leaves no entered component alive.
LEMMA SafeStopStep == SafeStop /\ [Next]_schedulerVars => SafeStop'
<1> SUFFICES ASSUME SafeStop, [Next]_schedulerVars PROVE SafeStop'
    OBVIOUS
<1>1. CASE UNCHANGED <<pc, live, entered>>
    BY <1>1 DEF SafeStop
<1>2. CASE pc' \notin {"finalizing", "done"}
    BY <1>2 DEF SafeStop
<1>3. CASE Shutdown
    BY <1>3 DEF Shutdown, SafeStop
<1>4. CASE Finalize
    BY <1>4 DEF Finalize, SafeStop, adapterVars
<1> QED
    BY <1>1, <1>2, <1>3, <1>4
       DEF Next, RunStep, schedulerVars, adapterVars, LeaveWith, Raise,
           PrepareAdapter, Preparing, Blocked, PrepareFails, PreparedAll, OpenQuantum,
           OpenQuantumUnchecked, Cancel, QuantumFails, StepComponent, SkipComponent,
           StepFails, CloseQuantum, SnapshotFails, Judge, JudgeFails, SetCancel

------------------------------------------------------------------------------
(* Samples on the wires.  A component's next sample is on the way until the  *)
(* quantum that begins where the component stands has been opened.           *)

Source(wire) == wire[1]

Sample(wire, t) == [at |-> t, wire |-> wire, made |-> t]

\* The source's turn is still to come in the quantum that is open.
Awaited(c) == pc = "stepping" /\ next <= c

Delivered(wire) ==
  /\ \A p \in pending : p.wire # wire
  /\ received[wire] = local[Source(wire)]

InFlight(wire) ==
  /\ Sample(wire, local[Source(wire)]) \in pending
  /\ \A p \in pending : p.wire = wire => p = Sample(wire, local[Source(wire)])
  /\ received[wire] + StepOf(Source(wire)) = local[Source(wire)]

WireHeld(wire) ==
  IF local[Source(wire)] = 0 \/ (Awaited(Source(wire)) /\ local[Source(wire)] = now)
  THEN Delivered(wire)
  ELSE InFlight(wire)

WiresHeld == Running => \A wire \in Wires : WireHeld(wire)

\* A wire leaves a component.
LEMMA SourceIsComponent ==
  ASSUME Documents, NEW wire \in Wires
  PROVE  Source(wire) \in Components
BY ExperimentsAssumption DEF Documents, Wires, Components, Source

\* Nothing has been sampled before the run.
LEMMA WiresInit == Init => WiresHeld
<1> SUFFICES ASSUME Init, NEW wire \in Wires PROVE WireHeld(wire)
    BY DEF WiresHeld
<1>1. Source(wire) \in Components
    BY SourceIsComponent DEF Init, Documents
<1> QED BY <1>1 DEF Init, WireHeld, Delivered

\* Where the variables of the wire stay, so does what is said of it.
LEMMA SameWire ==
  ASSUME NEW wire \in Wires, WireHeld(wire), experiment' = experiment,
         local'[Source(wire)] = local[Source(wire)], received'[wire] = received[wire],
         \A p : p.wire = wire => (p \in pending' <=> p \in pending),
         now' = now, Awaited(Source(wire))' = Awaited(Source(wire))
  PROVE  WireHeld(wire)'
<1> DEFINE c == Source(wire)
<1>1. Source(wire)' = Source(wire) /\ StepOf(c)' = StepOf(c)
    BY SameDocuments DEF Source
<1>2. Sample(wire, local[c]).wire = wire
    BY DEF Sample
<1>3. Delivered(wire) => Delivered(wire)'
    BY <1>1 DEF Delivered
<1>4. InFlight(wire) => InFlight(wire)'
    BY <1>1, <1>2 DEF InFlight, Sample
<1> QED BY <1>1, <1>3, <1>4 DEF WireHeld

\* A due sample reaches its target and is no longer pending.
LEMMA OpenHolds ==
  ASSUME TypedAndPlaced, WiresHeld, OpenQuantum, NEW wire \in Wires
  PROVE  WireHeld(wire)'
<1> DEFINE c == Source(wire)
           arriving == {received[wire]} \cup {p.made : p \in {d \in Due : d.wire = wire}}
<1>1. /\ experiment' = experiment /\ now' = now /\ local' = local
      /\ pc = "opening" /\ pc' = "stepping" /\ next' = 1
      /\ pending' = pending \ Due /\ received'[wire] = Max(arriving)
    BY DEF OpenQuantum, OpenQuantumUnchecked, Opening
<1>2. /\ SchedulerTypeOK /\ Documents /\ WireHeld(wire) /\ c \in Components
      /\ StandsAt(c, now) /\ now \in Nat /\ local[c] \in Nat /\ c \in Nat \ {0}
      /\ StepOf(c) \in Nat \ {0} /\ received[wire] \in Nat /\ Horizon \in Nat
    <2>1. Documents /\ SchedulerTypeOK /\ WireHeld(wire)
        BY <1>1 DEF TypedAndPlaced, OnGrid, WiresHeld, Running
    <2>2. c \in Components /\ c \in Nat \ {0}
        BY <2>1, SourceIsComponent, Numbered
    <2>3. StandsAt(c, now)
        BY <1>1, <2>2 DEF TypedAndPlaced, Lockstep, Running, Reached
    <2> QED BY <2>1, <2>2, <2>3, Placed DEF Grid, SchedulerTypeOK
<1>3. Source(wire)' = c /\ StepOf(c)' = StepOf(c) /\ Awaited(c)'
    BY <1>1, <1>2, SameDocuments DEF Source, Awaited
<1>4. ASSUME NEW m \in Nat, m \in arriving, \A y \in arriving : y <= m /\ y \in Nat
      PROVE  received'[wire] = m
    <2>1. Max(arriving) \in arriving /\ \A y \in arriving : y <= Max(arriving)
        <3> HIDE DEF arriving
        <3> QED BY <1>4, MaxOfBounded
    <2>2. Max(arriving) <= m /\ m <= Max(arriving) /\ Max(arriving) \in Nat
        <3> HIDE DEF arriving
        <3> QED BY <1>4, <2>1
    <2> QED BY <1>1, <1>4, <2>2
<1>5. CASE local[c] = 0
    <2>1. Delivered(wire)
        BY <1>2, <1>5 DEF WireHeld
    <2>2. arriving = {0}
        BY <1>5, <2>1 DEF Delivered, Due
    <2>3. received'[wire] = 0
        BY <1>4, <2>2
    <2>4. Delivered(wire)'
        BY <1>1, <1>3, <1>5, <2>1, <2>3 DEF Delivered
    <2> QED BY <1>1, <1>3, <1>5, <2>4 DEF WireHeld
<1>6. CASE local[c] # 0 /\ local[c] = now
    <2>1. InFlight(wire)
        BY <1>1, <1>2, <1>6 DEF WireHeld, Awaited
    <2>2. Sample(wire, now) \in Due /\ \A d \in Due : d.wire = wire => d = Sample(wire, now)
        BY <1>6, <2>1 DEF InFlight, Due, Sample
    <2>3. arriving = {received[wire], now} /\ received[wire] <= now
        <3>1. {d \in Due : d.wire = wire} = {Sample(wire, now)}
            BY <2>2 DEF Sample
        <3>2. Sample(wire, now).made = now
            BY DEF Sample
        <3>3. received[wire] <= now
            BY <1>2, <1>6, <2>1 DEF InFlight
        <3> QED BY <3>1, <3>2, <3>3
    <2>4. received'[wire] = now
        BY <1>2, <1>4, <2>3
    <2>5. \A p \in pending' : p.wire # wire
        BY <1>1, <1>6, <2>1, <2>2 DEF InFlight
    <2>6. Delivered(wire)'
        BY <1>1, <1>3, <1>6, <2>4, <2>5 DEF Delivered
    <2> QED BY <1>1, <1>3, <1>6, <2>6 DEF WireHeld
<1>7. CASE local[c] # 0 /\ local[c] # now
    <2>1. InFlight(wire)
        BY <1>1, <1>2, <1>7 DEF WireHeld, Awaited
    <2>2. \A d \in Due : d.wire # wire
        BY <1>7, <2>1 DEF InFlight, Due, Sample
    <2>3. arriving = {received[wire]}
        BY <2>2
    <2>4. received'[wire] = received[wire]
        BY <1>2, <1>4, <2>3
    <2>5. Sample(wire, local[c]) \in pending'
        BY <1>1, <2>1, <2>2 DEF InFlight, Sample
    <2>6. InFlight(wire)'
        BY <1>1, <1>3, <2>1, <2>4, <2>5 DEF InFlight, Sample
    <2> QED BY <1>1, <1>3, <1>7, <2>6 DEF WireHeld
<1> QED BY <1>5, <1>6, <1>7

\* The source that steps puts its next sample on each of its wires.
LEMMA StepHolds ==
  ASSUME TypedAndPlaced, WiresHeld, StepComponent, NEW wire \in Wires
  PROVE  WireHeld(wire)'
<1> DEFINE c == Source(wire)
           end == now + StepOf(next)
           sent == {Sample(v, end) : v \in {v \in Wires : v[1] = next}}
<1>1. /\ experiment' = experiment /\ now' = now /\ received' = received
      /\ pc = "stepping" /\ pc' = "stepping" /\ next' = next + 1
      /\ next \in Components /\ TakesPart(next) /\ now < experiment.duration
      /\ local' = [local EXCEPT ![next] = end] /\ pending' = pending \cup sent
    BY DEF StepComponent, Stepping, Arrival, Sample, TypedAndPlaced, OnGrid
<1>2. /\ SchedulerTypeOK /\ Documents /\ WireHeld(wire) /\ c \in Components
      /\ c \in Nat /\ next \in Nat
    <2>1. Documents /\ SchedulerTypeOK /\ WireHeld(wire)
        BY <1>1 DEF TypedAndPlaced, OnGrid, WiresHeld, Running
    <2>2. c \in Components /\ c \in Nat
        BY <2>1, SourceIsComponent, Numbered
    <2> QED BY <2>1, <2>2, Placed
<1>3. Source(wire)' = c /\ StepOf(c)' = StepOf(c)
    BY <1>1, SameDocuments DEF Source
<1>4. CASE c = next
    <2>1. /\ now \in Nat /\ StepOf(c) \in Nat \ {0} /\ local[c] \in Nat
          /\ StandsAt(c, now) /\ now % StepOf(c) = 0 /\ end \in Nat /\ end > now
        BY <1>1, <1>2, <1>4, Placed, StepMoves
           DEF Grid, TypedAndPlaced, Lockstep, Running, Reached, TakesPart
    <2>2. local[c] = now
        BY <2>1, MultiplesApart DEF StandsAt
    <2>3. Delivered(wire)
        BY <1>1, <1>2, <1>4, <2>2 DEF WireHeld, Awaited
    <2>4. local'[c] = end /\ ~Awaited(c)'
        BY <1>1, <1>2, <1>4 DEF SchedulerTypeOK, Awaited
    <2>5. Sample(wire, end) \in sent /\ \A p \in sent : p.wire = wire => p = Sample(wire, end)
        BY <1>4 DEF Sample, Source
    <2>6. InFlight(wire)'
        <3>1. Sample(wire, end) \in pending'
              /\ \A p \in pending' : p.wire = wire => p = Sample(wire, end)
            <4> HIDE DEF sent
            <4> QED BY <1>1, <2>3, <2>5 DEF Delivered
        <3>2. received'[wire] + StepOf(c) = end
            BY <1>1, <1>4, <2>2, <2>3 DEF Delivered
        <3> QED BY <1>3, <2>4, <3>1, <3>2 DEF InFlight, Sample
    <2> QED BY <1>3, <2>1, <2>4, <2>6 DEF WireHeld
<1>5. CASE c # next
    <2>1. local'[c] = local[c]
        BY <1>1, <1>2, <1>5 DEF SchedulerTypeOK
    <2>2. Awaited(c)' = Awaited(c)
        BY <1>1, <1>2, <1>5 DEF Awaited
    <2>3. \A p \in sent : p.wire # wire
        BY <1>5 DEF Sample, Source
    <2>4. \A p : p.wire = wire => (p \in pending' <=> p \in pending)
        <3> HIDE DEF sent
        <3> QED BY <1>1, <2>3
    <2>5. Awaited(Source(wire))' = Awaited(Source(wire))
        BY <1>3, <2>2 DEF Awaited
    <2> HIDE DEF sent
    <2> QED BY <1>1, <1>2, <2>1, <2>4, <2>5, SameWire
<1> QED BY <1>4, <1>5

\* A source that skips the quantum is not where the quantum begins.
LEMMA SkipHolds ==
  ASSUME TypedAndPlaced, WiresHeld, SkipComponent, NEW wire \in Wires
  PROVE  WireHeld(wire)'
<1> DEFINE c == Source(wire)
<1>1. /\ UNCHANGED <<experiment, loopVars>> /\ next' = next + 1
      /\ pc = "stepping" /\ pc' = "stepping"
      /\ next \in Components /\ ~TakesPart(next)
    BY DEF SkipComponent, Stepping
<1>2. /\ Documents /\ WireHeld(wire) /\ c \in Components /\ c \in Nat /\ next \in Nat
    <2>1. Documents /\ WireHeld(wire)
        BY <1>1 DEF TypedAndPlaced, OnGrid, WiresHeld, Running
    <2>2. c \in Components /\ c \in Nat
        BY <2>1, SourceIsComponent, Numbered
    <2> QED BY <2>1, <2>2, Placed
<1>3. Source(wire)' = c /\ StepOf(c)' = StepOf(c)
    BY <1>1, SameDocuments DEF Source
<1>4. CASE c = next
    <2>1. StandsAt(c, now) /\ now % StepOf(c) # 0
        BY <1>1, <1>2, <1>4 DEF TypedAndPlaced, Lockstep, Running, Reached, TakesPart
    <2>2. local[c] # now
        BY <2>1 DEF StandsAt
    <2>3. local'[c] = local[c] /\ now' = now /\ pending' = pending /\ received' = received
        BY <1>1 DEF loopVars
    <2>4. Delivered(wire)' = Delivered(wire) /\ InFlight(wire)' = InFlight(wire)
        BY <1>1, <1>3 DEF Delivered, InFlight, Sample, loopVars
    <2>5. WireHeld(wire) = IF local[c] = 0 THEN Delivered(wire) ELSE InFlight(wire)
        BY <2>2 DEF WireHeld
    <2>6. WireHeld(wire)' = IF local[c] = 0 THEN Delivered(wire)' ELSE InFlight(wire)'
        BY <1>3, <2>2, <2>3 DEF WireHeld
    <2> QED BY <1>2, <2>4, <2>5, <2>6
<1>5. CASE c # next
    <2>1. Awaited(Source(wire))' = Awaited(Source(wire))
        BY <1>1, <1>2, <1>3, <1>5 DEF Awaited
    <2> QED BY <1>1, <1>2, <2>1, SameWire DEF loopVars
<1> QED BY <1>4, <1>5

\* Nothing is awaited when the quantum is closed, nor between two quanta.
LEMMA CloseHolds ==
  ASSUME TypedAndPlaced, WiresHeld, CloseQuantum, NEW wire \in Wires
  PROVE  WireHeld(wire)'
<1> DEFINE c == Source(wire)
<1>1. /\ UNCHANGED <<experiment, local, pending, received>> /\ Closing
      /\ pc = "stepping" /\ pc' = "opening" /\ next \notin Components
    BY DEF CloseQuantum, Closing
<1>2. /\ Documents /\ WireHeld(wire) /\ c \in Components /\ next \in Nat \ {0}
    BY <1>1, SourceIsComponent, Placed DEF TypedAndPlaced, OnGrid, WiresHeld, Running
<1>3. Source(wire)' = c /\ StepOf(c)' = StepOf(c)
    BY <1>1, SameDocuments DEF Source
<1>4. ~Awaited(c) /\ ~Awaited(c)'
    BY <1>1, <1>2, Numbered DEF Awaited
<1>5. Delivered(wire)' = Delivered(wire) /\ InFlight(wire)' = InFlight(wire)
    BY <1>1, <1>3 DEF Delivered, InFlight, Sample
<1> QED BY <1>1, <1>2, <1>3, <1>4, <1>5 DEF WireHeld

\* Every step keeps on every wire what its target sampled last.
LEMMA WiresStep ==
  TypedAndPlaced /\ WiresHeld /\ [Next]_schedulerVars => WiresHeld'
<1> SUFFICES ASSUME TypedAndPlaced, WiresHeld, [Next]_schedulerVars, Running',
                    NEW wire \in Wires
             PROVE  WireHeld(wire)'
    BY AlwaysSameDocuments, SameDocuments DEF WiresHeld
<1>1. CASE Stands \/ Leaves
    <2>1. UNCHANGED <<experiment, loopVars>> /\ Running
        BY <1>1 DEF Stands, Leaves, Running
    <2>2. Awaited(Source(wire))' = Awaited(Source(wire))
        BY <1>1 DEF Stands, Leaves, Running, Awaited, Source
    <2> QED BY <2>1, <2>2, SameWire DEF WiresHeld, loopVars
<1>2. CASE LoopStep
    BY <1>2, OpenHolds, StepHolds, SkipHolds, CloseHolds DEF LoopStep
<1> QED BY <1>1, <1>2, StepKinds

\* What is held on the wires when a component steps is what it should sample.
LEMMA HeldIsSampleAndHold ==
  TypedAndPlaced /\ WiresHeld => SampleAndHold
<1> SUFFICES ASSUME TypedAndPlaced, WiresHeld, pc = "stepping", NEW wire \in Wires
             PROVE  received[wire] = now - (now % StepOf(Source(wire)))
    BY DEF SampleAndHold, Source
<1> DEFINE c == Source(wire)
<1>1. /\ Documents /\ WireHeld(wire) /\ c \in Components
      /\ StandsAt(c, Reached(c))
    BY SourceIsComponent DEF TypedAndPlaced, OnGrid, WiresHeld, Running, Lockstep
<1>2. /\ now \in Nat /\ local[c] \in Nat /\ Quantum \in Nat \ {0} /\ now % Quantum = 0
      /\ StepOf(c) \in Nat \ {0} /\ StepOf(c) % Quantum = 0
      /\ received[wire] \in Nat /\ next \in Nat \ {0} /\ c \in Nat
    <2>1. SchedulerTypeOK /\ OnGrid
        BY DEF TypedAndPlaced
    <2>2. now \in Nat /\ local[c] \in Nat /\ next \in Nat \ {0} /\ Grid
        BY <1>1, Placed
    <2>3. c \in Nat
        BY <1>1, Numbered
    <2>4. received[wire] \in Nat
        BY <2>1, <2>2 DEF SchedulerTypeOK
    <2>5. now % Quantum = 0
        BY <2>1 DEF OnGrid
    <2> QED BY <1>1, <2>2, <2>3, <2>4, <2>5 DEF Grid
<1>3. CASE local[c] = now
    <2>1. Delivered(wire) /\ now % StepOf(c) = 0
        BY <1>1, <1>2, <1>3 DEF WireHeld, Awaited, StandsAt, Reached
    <2> QED BY <1>2, <1>3, <2>1 DEF Delivered
<1>4. CASE local[c] # now
    <2>1. local[c] > now /\ local[c] % StepOf(c) = 0
        BY <1>1, <1>2, <1>4 DEF StandsAt, Reached
    <2>2. InFlight(wire)
        BY <1>1, <1>2, <1>4, <2>1 DEF WireHeld
    <2>3. local[c] <= now + StepOf(c)
        <3> SUFFICES ASSUME now + StepOf(c) < local[c] PROVE FALSE
            BY <1>2
        <3>1. local[c] % Quantum = 0 /\ (now + StepOf(c)) % Quantum = 0
            BY <1>2, <2>1, DividesTransitive, SumDivides
        <3>2. now + StepOf(c) + Quantum <= local[c]
            BY <1>2, <3>1, MultiplesApart
        <3> QED BY <1>1, <1>2, <3>2 DEF StandsAt, Reached
    <2>4. received[wire] + StepOf(c) = local[c] /\ received[wire] <= now
        BY <1>2, <2>2, <2>3 DEF InFlight
    <2>5. received[wire] % StepOf(c) = 0
        BY <1>2, <2>1, <2>4, DifferenceDivides
    <2> QED BY <1>2, <2>1, <2>4, <2>5, LastMultiple
<1> QED BY <1>3, <1>4

------------------------------------------------------------------------------
(* The theorems.                                                             *)

\* The inductive invariant of the run.
SchedulerInv ==
  TypedAndPlaced /\ EvidenceKept /\ StimuliKept /\ WiresHeld /\ CheckpointsKept
  /\ CancelKept /\ SafeStop

\* The parts of the inductive invariant hold together.
LEMMA SchedulerInvariant == Spec => []SchedulerInv
<1>1. Init => StimuliKept
    BY ExperimentsAssumption DEF Init, StimuliKept
<1>2. Init => SchedulerInv
    BY <1>1, PlacedInit, EvidenceInit, WiresInit, CheckpointsInit, CancelInit, SafeStopInit
       DEF SchedulerInv
<1>3. SchedulerInv /\ [Next]_schedulerVars => SchedulerInv'
    BY PlacedStep, EvidenceStep, StimuliStep, WiresStep, CheckpointsStep, CancelStep,
       SafeStopStep DEF SchedulerInv
<1> QED BY <1>2, <1>3, PTL DEF Spec

(* Type correctness: virtual time stays on the timeline of the experiment,   *)
(* and so does all that is recorded with a time.                             *)
THEOREM SchedulerTypeCorrect == Spec => []SchedulerTypeOK
<1>1. SchedulerInv => SchedulerTypeOK
    BY DEF SchedulerInv, TypedAndPlaced
<1> QED BY <1>1, SchedulerInvariant, PTL

(* Components of any rates, wired in any way, work with the newest sample    *)
(* their sources had completed, never with one of the future.                *)
THEOREM SamplesAreHeld == Spec => []SampleAndHold
<1>1. SchedulerInv => SampleAndHold
    BY HeldIsSampleAndHold DEF SchedulerInv
<1> QED BY <1>1, SchedulerInvariant, PTL

(* Between two quanta no component lags behind or runs ahead.                *)
THEOREM ComponentsInLockstep == Spec => []InLockstep
<1>1. SchedulerInv => InLockstep
    BY DEF SchedulerInv, TypedAndPlaced, Lockstep, Running, Reached, StandsAt, InLockstep
<1> QED BY <1>1, SchedulerInvariant, PTL

(* No checkpoint is missed, and none is taken of a component that is not at  *)
(* the step end the checkpoint stands for.                                   *)
THEOREM NoCheckpointMissed == Spec => []CheckpointsTaken
<1>1. SchedulerInv => CheckpointsTaken
    BY DEF SchedulerInv, CheckpointsKept, CheckpointsTaken
<1> QED BY <1>1, SchedulerInvariant, PTL

(* A cancelled run makes no component step twice more.                       *)
THEOREM CancelStops == Spec => []CancelStopsWork
<1>1. SchedulerInv => CancelStopsWork
    BY DEF SchedulerInv, CancelKept, CancelStopsWork
<1> QED BY <1>1, SchedulerInvariant, PTL

(* No prepared component outlives its run.                                   *)
THEOREM StopsSafely == Spec => []SafeStop
<1>1. SchedulerInv => SafeStop
    BY DEF SchedulerInv
<1> QED BY <1>1, SchedulerInvariant, PTL

(* The status in bundle.json never says more than what happened.             *)
THEOREM EvidenceIsHonest == Spec => []EvidenceHonest
<1>1. SchedulerInv => EvidenceHonest
    BY DEF SchedulerInv, EvidenceKept, EvidenceHonest
<1> QED BY <1>1, SchedulerInvariant, PTL

------------------------------------------------------------------------------
(* The run descends: the half of RunEnds that needs no fairness.             *)

Stage ==
  [preparing |-> 4, opening |-> 3, stepping |-> 3, closing |-> 2, finalizing |-> 1,
   done |-> 0][pc]

\* A quantum is opened, then closed.
Half == IF pc = "opening" THEN 1 ELSE 0

\* The components the preparing or stepping loop has still before it.
Ahead == {c \in Components : next <= c}

Rank == <<Stage, <<experiment.duration - now, <<Half, Cardinality(Ahead)>>>>>>

LessThan == OpToRel(<, Nat)

\* The lexicographic order of such ranks, which has no infinite descent.
Ranks == Nat \X (Nat \X (Nat \X Nat))

Descent ==
  LexPairOrdering(LessThan,
    LexPairOrdering(LessThan, LexPairOrdering(LessThan, LessThan, Nat, Nat),
                    Nat, Nat \X Nat),
    Nat, Nat \X (Nat \X Nat))

\* No sequence of ranks descends for ever.
LEMMA DescentWellFounded == IsWellFoundedOn(Descent, Ranks)
<1>1. IsWellFoundedOn(LessThan, Nat)
    BY NatLessThanWellFounded DEF LessThan
<1>2. IsWellFoundedOn(LexPairOrdering(LessThan, LessThan, Nat, Nat), Nat \X Nat)
    BY <1>1, WFLexPairOrdering
<1>3. IsWellFoundedOn(LexPairOrdering(LessThan,
                        LexPairOrdering(LessThan, LessThan, Nat, Nat), Nat, Nat \X Nat),
                      Nat \X (Nat \X Nat))
    BY <1>1, <1>2, WFLexPairOrdering
<1> QED BY <1>1, <1>3, WFLexPairOrdering DEF Descent, Ranks

\* What it takes to descend.
LEMMA Descending ==
  ASSUME NEW a \in Nat, NEW b \in Nat, NEW c \in Nat, NEW d \in Nat,
         NEW v \in Nat, NEW w \in Nat, NEW x \in Nat, NEW y \in Nat,
         \/ v < a
         \/ v = a /\ w < b
         \/ v = a /\ w = b /\ x < c
         \/ v = a /\ w = b /\ x = c /\ y < d
  PROVE  <<<<v, <<w, <<x, y>>>>>>, <<a, <<b, <<c, d>>>>>>>> \in Descent
<1> DEFINE Inner == LexPairOrdering(LessThan, LessThan, Nat, Nat)
           Outer == LexPairOrdering(LessThan, Inner, Nat, Nat \X Nat)
<1>0. \A m, n \in Nat : m < n => <<m, n>> \in LessThan
    BY DEF LessThan, OpToRel
<1>1. x < c \/ (x = c /\ y < d) => <<<<x, y>>, <<c, d>>>> \in Inner
    BY <1>0 DEF LexPairOrdering
<1>2. w < b \/ (w = b /\ <<<<x, y>>, <<c, d>>>> \in Inner)
        => <<<<w, <<x, y>>>>, <<b, <<c, d>>>>>> \in Outer
    <2> HIDE DEF Inner
    <2> QED BY <1>0 DEF LexPairOrdering
<1>3. v < a \/ (v = a /\ <<<<w, <<x, y>>>>, <<b, <<c, d>>>>>> \in Outer)
        => <<<<v, <<w, <<x, y>>>>>>, <<a, <<b, <<c, d>>>>>>>> \in Descent
    <2> HIDE DEF Outer
    <2>1. Descent = LexPairOrdering(LessThan, Outer, Nat, Nat \X (Nat \X Nat))
        BY DEF Descent, Outer
    <2> QED BY <1>0, <2>1 DEF LexPairOrdering
<1> HIDE DEF Inner, Outer
<1> QED BY <1>1, <1>2, <1>3

\* The loop over the components comes closer to its end.
LEMMA AheadShrinks ==
  ASSUME TypedAndPlaced, next \in Components, next' = next + 1, experiment' = experiment
  PROVE  Cardinality(Ahead)' < Cardinality(Ahead)
<1>1. PICK n \in Nat \ {0} : Components = 1..n
    BY Numbered DEF TypedAndPlaced, OnGrid
<1>2. IsFiniteSet(Components)
    BY <1>1, FS_Interval
<1>3. Components' = Components
    BY SameDocuments
<1>4. IsFiniteSet(Ahead)
    BY <1>2, FS_Subset DEF Ahead
<1>5. next \in Ahead
    BY <1>1 DEF Ahead
<1>6. Ahead' = Ahead \ {next}
    BY <1>1, <1>3 DEF Ahead
<1>7. Cardinality(Ahead) \in Nat /\ Cardinality(Ahead \ {next}) = Cardinality(Ahead) - 1
    BY <1>4, <1>5, FS_RemoveElement, FS_CardinalityType
<1> QED BY <1>6, <1>7

\* The parts of a rank are numbers.
RankTyped ==
  /\ Stage \in Nat /\ Half \in Nat /\ Cardinality(Ahead) \in Nat
  /\ experiment.duration - now \in Nat

\* They always are.
LEMMA RankIsTyped == TypedAndPlaced => RankTyped
<1> SUFFICES ASSUME TypedAndPlaced PROVE RankTyped
    OBVIOUS
<1>1. PICK n \in Nat \ {0} : Components = 1..n
    BY Numbered DEF TypedAndPlaced, OnGrid
<1>2. IsFiniteSet(Ahead)
    <2>1. IsFiniteSet(Components)
        BY <1>1, FS_Interval
    <2> QED BY <2>1, FS_Subset DEF Ahead
<1>3. Cardinality(Ahead) \in Nat
    BY <1>2, FS_CardinalityType
<1>4. experiment.duration - now \in Nat
    BY Placed DEF Grid
<1>5. Stage \in Nat /\ Half \in Nat
    <2>1. pc \in {"preparing", "opening", "stepping", "closing", "finalizing", "done"}
        BY DEF TypedAndPlaced, SchedulerTypeOK
    <2> QED BY <2>1 DEF Stage, Half
<1> QED BY <1>3, <1>4, <1>5 DEF RankTyped

\* Every step of the thread descends.
LEMMA RunStepDescends ==
  ASSUME TypedAndPlaced, RankTyped, RankTyped', RunStep
  PROVE  <<Rank', Rank>> \in Descent
<1>0. /\ Stage \in Nat /\ Half \in Nat /\ Cardinality(Ahead) \in Nat
      /\ experiment.duration - now \in Nat
    BY DEF RankTyped
<1>1. /\ Stage' \in Nat /\ Half' \in Nat /\ Cardinality(Ahead)' \in Nat
      /\ (experiment.duration - now)' \in Nat
    BY DEF RankTyped
<1>2. \/ Stage' < Stage
      \/ Stage' = Stage /\ (experiment.duration - now)' < experiment.duration - now
      \/ /\ Stage' = Stage /\ (experiment.duration - now)' = experiment.duration - now
         /\ Half' < Half
      \/ /\ Stage' = Stage /\ (experiment.duration - now)' = experiment.duration - now
         /\ Half' = Half /\ Cardinality(Ahead)' < Cardinality(Ahead)
    <2>1. CASE PrepareAdapter \/ StepComponent \/ SkipComponent
        <3>1. /\ next \in Components /\ next' = next + 1
              /\ UNCHANGED <<experiment, pc, now>>
            BY <2>1 DEF PrepareAdapter, StepComponent, SkipComponent, Preparing, Stepping,
                        loopVars
        <3>2. Cardinality(Ahead)' < Cardinality(Ahead)
            BY <3>1, AheadShrinks
        <3> QED BY <3>1, <3>2 DEF Stage, Half
    <2>2. CASE OpenQuantum
        <3>1. pc = "opening" /\ pc' = "stepping" /\ UNCHANGED <<experiment, now>>
            BY <2>2 DEF OpenQuantum, OpenQuantumUnchecked, Opening
        <3> QED BY <3>1 DEF Stage, Half
    <2>3. CASE CloseQuantum
        <3>1. /\ pc = "stepping" /\ pc' = "opening"
              /\ experiment' = experiment /\ now' = now + Quantum
            BY <2>3 DEF CloseQuantum, Closing
        <3>2. Quantum \in Nat \ {0} /\ now \in Nat /\ experiment.duration \in Nat
            BY Placed DEF Grid
        <3>3. (experiment.duration - now)' < experiment.duration - now
            BY <3>1, <3>2
        <3> QED BY <3>1, <3>3 DEF Stage
    <2>4. CASE PreparedAll
        <3>1. pc = "preparing" /\ pc' = "opening"
            BY <2>4 DEF PreparedAll
        <3> QED BY <3>1 DEF Stage
    <2>5. CASE \/ Blocked \/ PrepareFails \/ Cancel \/ QuantumFails \/ StepFails
               \/ SnapshotFails \/ Judge \/ JudgeFails
        <3>1. pc \in {"preparing", "opening", "stepping"} /\ pc' = "closing"
            BY <2>5 DEF Blocked, PrepareFails, Cancel, QuantumFails, StepFails,
                        SnapshotFails, Judge, JudgeFails, Preparing, Opening, Stepping,
                        Closing, Raise, LeaveWith
        <3> QED BY <3>1 DEF Stage
    <2>6. CASE Shutdown
        <3>1. pc = "closing" /\ pc' = "finalizing"
            BY <2>6 DEF Shutdown
        <3> QED BY <3>1 DEF Stage
    <2>7. CASE Finalize
        <3>1. pc = "finalizing" /\ pc' = "done"
            BY <2>7 DEF Finalize
        <3> QED BY <3>1 DEF Stage
    <2> QED BY <2>1, <2>2, <2>3, <2>4, <2>5, <2>6, <2>7 DEF RunStep
<1>3. /\ Rank = <<Stage, <<experiment.duration - now, <<Half, Cardinality(Ahead)>>>>>>
      /\ Rank' = <<Stage', <<(experiment.duration - now)',
                             <<Half', Cardinality(Ahead)'>>>>>>
    BY DEF Rank
<1> HIDE DEF Stage, Half, Ahead
<1> QED BY <1>0, <1>1, <1>2, <1>3, Descending

\* Whatever is read from a backend, fails or is cancelled, every step of the run's
\* thread descends, and no other step ascends: the loop of run() has no infinite
\* execution, for every experiment.
RunDescends ==
  [][/\ RunStep => <<Rank', Rank>> \in Descent
     /\ ~RunStep => Rank' = Rank]_schedulerVars

(* Every run of the scheduler is finite: its steps descend in a well-founded *)
(* order.                                                                    *)
THEOREM RunIsFinite == Spec => RunDescends
<1>1. TypedAndPlaced /\ RankTyped /\ RankTyped' /\ [Next]_schedulerVars
        => [/\ RunStep => <<Rank', Rank>> \in Descent
            /\ ~RunStep => Rank' = Rank]_schedulerVars
    <2> SUFFICES ASSUME TypedAndPlaced, RankTyped, RankTyped', Next, ~RunStep
                 PROVE  Rank' = Rank
        BY RunStepDescends
    <2>1. SetCancel
        BY DEF Next
    <2>2. UNCHANGED <<experiment, pc, next, now>>
        BY <2>1 DEF SetCancel, loopVars
    <2>3. Ahead' = Ahead
        BY <2>2 DEF Ahead, Components
    <2> QED BY <2>2, <2>3 DEF Rank, Stage, Half
<1>2. SchedulerInv => TypedAndPlaced /\ RankTyped
    BY RankIsTyped DEF SchedulerInv
<1> QED BY <1>1, <1>2, SchedulerInvariant, PTL DEF Spec, RunDescends
==============================================================================
