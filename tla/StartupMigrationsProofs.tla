----------------------- MODULE StartupMigrationsProofs -----------------------
(***************************************************************************)
(* Proofs about StartupMigrations, for any number of instances, builds,    *)
(* reverts and crashes.  The statements of the migrations are executed one *)
(* by one: first the lemmas on what a sequence of statements does, then    *)
(* what each migration does to the schema of the others, then the          *)
(* invariant.                                                              *)
(***************************************************************************)
EXTENDS StartupMigrations, SequenceTheorems, WellFoundedInduction, TLAPS

-----------------------------------------------------------------------------
(* Induction over the numbers, with a set for the property.                *)
LEMMA SetInduction ==
  ASSUME NEW S, 0 \in S, \A n \in Nat : n \in S => n + 1 \in S
  PROVE  Nat \subseteq S
<1> DEFINE T == Nat \ S
           R == {p \in Nat \X Nat : p[1] < p[2]}
<1>1. IsWellFoundedOn(R, Nat)
  BY NatLessThanWellFounded, Zenon DEF OpToRel
<1>2. SUFFICES ASSUME T # {} PROVE FALSE
  OBVIOUS
<1>3. PICK x \in T : \A y \in T : ~ (<<y, x>> \in R)
  <2> HIDE DEF R
  <2> QED BY <1>1, <1>2, WFMin
<1>4. x \in Nat /\ x # 0
  OBVIOUS
<1>5. x - 1 \in Nat /\ <<x - 1, x>> \in R
  BY <1>4
<1>6. x - 1 \in S
  BY <1>3, <1>5
<1> QED BY <1>4, <1>6

LEMMA InductionUpTo ==
  ASSUME NEW N \in Nat, NEW S, 0 \in S, \A n \in 1 .. N : n - 1 \in S => n \in S
  PROVE  0 .. N \subseteq S
<1> DEFINE T == {n \in Nat : n <= N => n \in S}
<1>1. 0 \in T
  OBVIOUS
<1>2. ASSUME NEW n \in Nat, n \in T PROVE n + 1 \in T
  <2> SUFFICES ASSUME n + 1 <= N PROVE n + 1 \in S
    OBVIOUS
  <2>1. n \in S /\ n + 1 \in 1 .. N /\ (n + 1) - 1 = n
    BY <1>2
  <2> QED BY <2>1
<1>3. Nat \subseteq T
  <2> HIDE DEF T
  <2> QED BY <1>1, <1>2, SetInduction
<1> QED BY <1>3

(* The states of the schema between the statements of Execute.             *)
Runs(so, steps, schema0, data, N) ==
  so = [n \in 0 .. N |-> IF n = 0 THEN schema0
                         ELSE UNION {After(s, steps[n], data) : s \in {so[n - 1]}}]

LEMMA RunsStep ==
  ASSUME NEW so, NEW steps, NEW schema0, NEW data, NEW N \in Nat,
         Runs(so, steps, schema0, data, N)
  PROVE  /\ so[0] = schema0
         /\ \A n \in 1 .. N : so[n] = After(so[n - 1], steps[n], data)
<1>1. so[0] = schema0
  BY DEF Runs
<1>2. ASSUME NEW n \in 1 .. N PROVE so[n] = After(so[n - 1], steps[n], data)
  <2> DEFINE value(k) == IF k = 0 THEN schema0
                         ELSE UNION {After(s, steps[k], data) : s \in {so[k - 1]}}
  <2>1. so[n] = value(n)
    <3>1. so = [k \in 0 .. N |-> value(k)]
      BY Zenon DEF Runs
    <3> HIDE DEF value
    <3> QED BY <3>1
  <2>2. {After(s, steps[n], data) : s \in {so[n - 1]}} = {After(so[n - 1], steps[n], data)}
    OBVIOUS
  <2> QED BY <2>1, <2>2
<1> QED BY <1>1, <1>2

LEMMA RunsIntro ==
  ASSUME NEW so, NEW steps, NEW schema0, NEW data, NEW N \in Nat, DOMAIN so = 0 .. N,
         so = [n \in DOMAIN so |-> so[n]], so[0] = schema0,
         \A n \in 1 .. N : so[n] = After(so[n - 1], steps[n], data)
  PROVE  Runs(so, steps, schema0, data, N)
<1> DEFINE value(n) == IF n = 0 THEN schema0
                       ELSE UNION {After(s, steps[n], data) : s \in {so[n - 1]}}
<1>1. ASSUME NEW n \in 0 .. N PROVE so[n] = value(n)
  <2>1. CASE n = 0
    BY <2>1
  <2>2. CASE n # 0
    <3>1. n \in 1 .. N
      BY <2>2
    <3>2. {After(s, steps[n], data) : s \in {so[n - 1]}} = {After(so[n - 1], steps[n], data)}
      OBVIOUS
    <3>3. so[n] = After(so[n - 1], steps[n], data)
      BY <3>1
    <3> QED BY <2>2, <3>2, <3>3
  <2> QED BY <2>1, <2>2
<1>2. so = [n \in 0 .. N |-> value(n)]
  <2> HIDE DEF value
  <2> QED BY <1>1
<1> QED BY <1>2 DEF Runs

LEMMA RunsExists ==
  ASSUME NEW steps, NEW schema0, NEW data
  PROVE  \A N \in Nat : \E so : Runs(so, steps, schema0, data, N)
<1> DEFINE S == {N \in Nat : \E so : Runs(so, steps, schema0, data, N)}
<1>1. 0 \in S
  <2> DEFINE so == [n \in 0 .. 0 |-> schema0]
  <2>1. Runs(so, steps, schema0, data, 0)
    <3>1. DOMAIN so = 0 .. 0 /\ so = [n \in DOMAIN so |-> so[n]] /\ so[0] = schema0
      OBVIOUS
    <3> HIDE DEF so
    <3> QED BY <3>1, RunsIntro
  <2> QED BY <2>1
<1>2. ASSUME NEW N \in Nat, N \in S PROVE N + 1 \in S
  <2>1. PICK so : Runs(so, steps, schema0, data, N)
    BY <1>2
  <2> DEFINE more == [n \in 0 .. N + 1 |-> IF n = N + 1 THEN After(so[N], steps[n], data)
                                           ELSE so[n]]
  <2>2. /\ DOMAIN more = 0 .. N + 1 /\ more = [n \in DOMAIN more |-> more[n]]
        /\ \A n \in 0 .. N : more[n] = so[n]
        /\ more[N + 1] = After(so[N], steps[N + 1], data)
    OBVIOUS
  <2> HIDE DEF more
  <2>3. more[0] = schema0
    BY <2>1, <2>2, RunsStep
  <2>4. ASSUME NEW n \in 1 .. N + 1 PROVE more[n] = After(more[n - 1], steps[n], data)
    <3>1. CASE n = N + 1
      BY <2>2, <3>1
    <3>2. CASE n \in 1 .. N
      <4>1. n \in 0 .. N /\ n - 1 \in 0 .. N
        BY <3>2
      <4> QED BY <2>1, <2>2, <3>2, <4>1, RunsStep
    <3> QED BY <3>1, <3>2
  <2>5. Runs(more, steps, schema0, data, N + 1)
    BY N + 1 \in Nat, <2>2, <2>3, <2>4, RunsIntro, Zenon
  <2> QED BY <2>5
<1>3. Nat \subseteq S
  <2> HIDE DEF S
  <2> QED BY <1>1, <1>2, SetInduction
<1> QED BY <1>3

(* The result of Execute is the last of any states that follow each other. *)
LEMMA ExecuteStates ==
  ASSUME NEW steps, Len(steps) \in Nat, NEW data, NEW at,
         \A n \in 1 .. Len(steps) : at[n] = After(at[n - 1], steps[n], data)
  PROVE  Execute(steps, at[0], data) = at[Len(steps)]
<1> DEFINE run == CHOOSE so : Runs(so, steps, at[0], data, Len(steps))
           S == {n \in Nat : run[n] = at[n]}
<1>1. Runs(run, steps, at[0], data, Len(steps))
  BY RunsExists
<1>2. Execute(steps, at[0], data) = run[Len(steps)]
  BY DEF Execute, Runs
<1> HIDE DEF run
<1>3. 0 \in S
  BY <1>1, RunsStep
<1>4. ASSUME NEW n \in 1 .. Len(steps), n - 1 \in S PROVE n \in S
  BY <1>1, <1>4, RunsStep
<1>5. 0 .. Len(steps) \subseteq S
  <2> HIDE DEF S
  <2> QED BY <1>3, <1>4, InductionUpTo
<1> QED BY <1>2, <1>5

LEMMA ExecuteRuns ==
  ASSUME NEW steps, Len(steps) \in Nat, NEW schema0, NEW data
  PROVE  \E run : /\ Runs(run, steps, schema0, data, Len(steps))
                  /\ Execute(steps, schema0, data) = run[Len(steps)]
<1>1. PICK run : Runs(run, steps, schema0, data, Len(steps))
  BY RunsExists
<1>2. run[0] = schema0 /\ \A n \in 1 .. Len(steps) : run[n] = After(run[n - 1], steps[n], data)
  BY <1>1, RunsStep
<1>3. Execute(steps, run[0], data) = run[Len(steps)]
  BY <1>2, ExecuteStates
<1> QED BY <1>1, <1>2, <1>3

-----------------------------------------------------------------------------
(* Batches of statements one after the other.                              *)
IsSequence(s) == Len(s) \in Nat /\ s = [n \in 1 .. Len(s) |-> s[n]]

LEMMA ConcatIsSequence ==
  ASSUME NEW a, NEW b, IsSequence(a), IsSequence(b)
  PROVE  /\ IsSequence(a \o b) /\ Len(a \o b) = Len(a) + Len(b)
         /\ \A n \in 1 .. Len(a) : (a \o b)[n] = a[n]
         /\ \A n \in 1 .. Len(b) : (a \o b)[Len(a) + n] = b[n]
<1> DEFINE T == ToSet(a) \union ToSet(b)
<1>1. a \in Seq(T) /\ b \in Seq(T)
  <2>1. a \in Seq(ToSet(a)) /\ b \in Seq(ToSet(b))
    BY DEF IsSequence, ToSet
  <2> QED BY <2>1, SeqMonotonic
<1> HIDE DEF T
<1>2. a \o b \in Seq(T)
  BY <1>1
<1>3. Len(a \o b) = Len(a) + Len(b)
  BY <1>1, ConcatProperties
<1>4. \A n \in 1 .. Len(a) : (a \o b)[n] = a[n]
  BY <1>1, ConcatProperties
<1>5. \A n \in 1 .. Len(b) : (a \o b)[Len(a) + n] = b[n]
  BY <1>1, ConcatProperties
<1>6. IsSequence(a \o b)
  <2>1. Len(a \o b) \in Nat /\ (a \o b) \in [1 .. Len(a \o b) -> T]
    BY <1>2, LenProperties
  <2> QED BY <2>1 DEF IsSequence
<1> QED BY <1>3, <1>4, <1>5, <1>6

LEMMA ExecuteConcat ==
  ASSUME NEW a, NEW b, IsSequence(a), IsSequence(b), NEW schema0, NEW data
  PROVE  Execute(a \o b, schema0, data) = Execute(b, Execute(a, schema0, data), data)
<1> DEFINE A == Len(a)
           B == Len(b)
<1>1. A \in Nat /\ B \in Nat
  BY DEF IsSequence
<1>2. PICK runA : Runs(runA, a, schema0, data, A) /\ Execute(a, schema0, data) = runA[A]
  BY <1>1, ExecuteRuns
<1>3. PICK runB : Runs(runB, b, runA[A], data, B) /\ Execute(b, runA[A], data) = runB[B]
  BY <1>1, ExecuteRuns
<1>4. /\ runA[0] = schema0 /\ \A n \in 1 .. A : runA[n] = After(runA[n - 1], a[n], data)
      /\ runB[0] = runA[A] /\ \A n \in 1 .. B : runB[n] = After(runB[n - 1], b[n], data)
  BY <1>1, <1>2, <1>3, RunsStep
<1>5. /\ Len(a \o b) = A + B
      /\ \A n \in 1 .. A : (a \o b)[n] = a[n]
      /\ \A n \in 1 .. B : (a \o b)[A + n] = b[n]
  BY ConcatIsSequence
<1> HIDE DEF A, B
<1> DEFINE at == [n \in 0 .. A + B |-> IF n <= A THEN runA[n] ELSE runB[n - A]]
<1>6. /\ \A n \in 0 .. A : at[n] = runA[n]
      /\ \A n \in 0 .. B : at[A + n] = runB[n]
  BY <1>1, <1>4
<1> HIDE DEF at
<1>7. ASSUME NEW n \in 1 .. A + B PROVE at[n] = After(at[n - 1], (a \o b)[n], data)
  <2>1. CASE n \in 1 .. A
    <3>1. n \in 0 .. A /\ n - 1 \in 0 .. A
      BY <1>1, <2>1
    <3> QED BY <1>4, <1>5, <1>6, <2>1, <3>1
  <2>2. CASE n > A
    <3> DEFINE m == n - A
    <3>1. m \in 1 .. B /\ m \in 0 .. B /\ m - 1 \in 0 .. B /\ n = A + m /\ n - 1 = A + (m - 1)
      BY <1>1, <2>2
    <3> HIDE DEF m
    <3> QED BY <1>4, <1>5, <1>6, <3>1
  <2>3. n \in 1 .. A \/ n > A
    BY <1>1
  <2> QED BY <2>1, <2>2, <2>3
<1>8. Execute(a \o b, at[0], data) = at[A + B]
  <2>1. PICK steps : steps = a \o b
    OBVIOUS
  <2>2. Len(steps) \in Nat /\ Len(steps) = A + B
    BY <1>1, <1>5, <2>1
  <2>3. \A n \in 1 .. Len(steps) : at[n] = After(at[n - 1], steps[n], data)
    BY <1>7, <2>1, <2>2
  <2>4. Execute(steps, at[0], data) = at[Len(steps)]
    BY <2>2, <2>3, ExecuteStates
  <2> QED BY <2>1, <2>2, <2>4
<1>9. at[0] = schema0 /\ at[A + B] = runB[B]
  BY <1>1, <1>4, <1>6
<1> QED BY <1>2, <1>3, <1>8, <1>9

LEMMA ExecuteOne ==
  ASSUME NEW step, NEW schema0, NEW data
  PROVE  Execute(<<step>>, schema0, data) = After(schema0, step, data)
<1> DEFINE at == [n \in 0 .. 1 |-> IF n = 0 THEN schema0 ELSE After(schema0, step, data)]
<1>1. at[0] = schema0 /\ at[1] = After(schema0, step, data)
  OBVIOUS
<1> HIDE DEF at
<1>2. Len(<<step>>) = 1 /\ \A n \in 1 .. 1 : at[n] = After(at[n - 1], <<step>>[n], data)
  BY <1>1
<1>3. Execute(<<step>>, at[0], data) = at[1]
  BY <1>2, ExecuteStates
<1> QED BY <1>1, <1>3

-----------------------------------------------------------------------------
(* One statement.                                                          *)
LEMMA AfterFailure ==
  ASSUME NEW step, NEW data
  PROVE  After(Failed, step, data) = Failed
BY DEF After

LEMMA AfterCreate ==
  ASSUME NEW schema0, schema0 # Failed, NEW step, step.does = "create", NEW data
  PROVE  After(schema0, step, data) = Created(schema0, step, data)
BY Zenon DEF After

LEMMA AfterReplace ==
  ASSUME NEW schema0, schema0 # Failed, NEW step, step.does = "replace", NEW data
  PROVE  After(schema0, step, data) = schema0 \union {step.object}
BY "replace" # "create", Zenon DEF After

LEMMA AfterUpdate ==
  ASSUME NEW schema0, schema0 # Failed, NEW step, step.does = "update", NEW data
  PROVE  After(schema0, step, data) = IF step.unless \in data THEN Failed ELSE schema0
BY "update" # "create", "update" # "replace", Zenon DEF After

Other(step) == step.does \notin {"create", "replace", "update"}

LEMMA DroppedIs ==
  ASSUME NEW schema0, NEW name
  PROVE  Dropped(schema0, name) = WithoutFamily(schema0, Family(schema0, name))
BY DEF Dropped

LEMMA AfterDrop ==
  ASSUME NEW schema0, schema0 # Failed, NEW step, Other(step), NEW data
  PROVE  /\ step.name \in Names(schema0) =>
              After(schema0, step, data)
                = WithoutFamily(schema0, Family(schema0, step.name))
         /\ step.name \notin Names(schema0) =>
              After(schema0, step, data) = IF step.does = "drop" THEN Failed ELSE schema0
<1>1. After(schema0, step, data) =
        IF step.name \in Names(schema0) THEN Dropped(schema0, step.name)
        ELSE IF step.does = "drop" THEN Failed ELSE schema0
  <2>1. step.does # "create" /\ step.does # "replace" /\ step.does # "update"
    BY DEF Other
  <2> QED BY <2>1, Zenon DEF After
<1> QED BY <1>1, DroppedIs, Zenon

Making == {"create", "replace"}

(* What can be new in a schema.                                            *)
LEMMA AfterAdds ==
  ASSUME NEW schema0, schema0 # Failed, NEW step, NEW data, After(schema0, step, data) # Failed,
         NEW x \in After(schema0, step, data)
  PROVE  \/ x \in schema0
         \/ step.does \in Making /\ x = step.object
<1>1. CASE step.does = "create"
  BY <1>1, AfterCreate DEF Created, Making
<1>2. CASE step.does = "replace"
  BY <1>2, AfterReplace DEF Making
<1>3. CASE step.does = "update"
  BY <1>3, AfterUpdate
<1>4. CASE Other(step)
  <2>1. CASE step.name \in Names(schema0)
    BY <1>4, <2>1, AfterDrop DEF WithoutFamily
  <2>2. CASE step.name \notin Names(schema0)
    BY <1>4, <2>2, AfterDrop
  <2> QED BY <2>1, <2>2
<1> QED BY <1>1, <1>2, <1>3, <1>4 DEF Other

-----------------------------------------------------------------------------
(* A statement that fails fails the batch.                                 *)
LEMMA FailureStays ==
  ASSUME NEW steps, Len(steps) \in Nat, NEW run, NEW schema0, NEW data,
         Runs(run, steps, schema0, data, Len(steps)),
         NEW k \in 0 .. Len(steps), run[k] = Failed
  PROVE  run[Len(steps)] = Failed
<1> DEFINE S == {n \in Nat : n >= k => run[n] = Failed}
<1>1. 0 \in S
  OBVIOUS
<1>2. ASSUME NEW n \in 1 .. Len(steps), n - 1 \in S PROVE n \in S
  <2> SUFFICES ASSUME n > k PROVE run[n] = Failed
    OBVIOUS
  <2>1. run[n - 1] = Failed
    BY <1>2
  <2>2. run[n] = After(run[n - 1], steps[n], data)
    BY RunsStep
  <2> QED BY <2>1, <2>2, AfterFailure
<1>3. 0 .. Len(steps) \subseteq S
  <2> HIDE DEF S
  <2> QED BY <1>1, <1>2, InductionUpTo
<1> QED BY <1>3

(* An object whose owner, or another that it refers to, is neither there   *)
(* nor made by the statements before it.                                   *)
LEMMA MissingFails ==
  ASSUME NEW steps, Len(steps) \in Nat, NEW schema0, NEW data,
         NEW k \in 1 .. Len(steps), steps[k].does = "create",
         NEW name \in {steps[k].object.owner} \union steps[k].object.refs,
         name \notin Names(schema0),
         \A m \in 1 .. k - 1 : steps[m].does \in Making => steps[m].object.name # name
  PROVE  Execute(steps, schema0, data) = Failed
<1>1. PICK run : /\ Runs(run, steps, schema0, data, Len(steps))
                 /\ Execute(steps, schema0, data) = run[Len(steps)]
  BY ExecuteRuns
<1>2. run[0] = schema0 /\ \A n \in 1 .. Len(steps) : run[n] = After(run[n - 1], steps[n], data)
  BY <1>1, RunsStep
<1> DEFINE S == {n \in Nat : run[n] = Failed \/ name \notin Names(run[n])}
<1>3. 0 \in S
  BY <1>2
<1>4. ASSUME NEW n \in 1 .. k - 1, n - 1 \in S PROVE n \in S
  <2>1. run[n] = After(run[n - 1], steps[n], data)
    BY <1>2
  <2>2. CASE run[n] = Failed \/ run[n - 1] = Failed
    BY <2>1, <2>2, AfterFailure
  <2>3. CASE run[n] # Failed /\ run[n - 1] # Failed
    <3>1. name \notin Names(run[n - 1])
      BY <1>4, <2>3
    <3>2. ASSUME NEW x \in run[n] PROVE x.name # name
      BY <2>1, <2>3, <3>1, AfterAdds DEF Names
    <3> QED BY <3>1, <3>2 DEF Names
  <2> QED BY <2>2, <2>3
<1>5. 0 .. k - 1 \subseteq S
  <2> HIDE DEF S
  <2> QED BY k - 1 \in Nat, <1>3, <1>4, InductionUpTo, Zenon
<1>6. run[k] = Failed
  <2>1. run[k] = After(run[k - 1], steps[k], data) /\ k - 1 \in S
    BY <1>2, <1>5
  <2>2. CASE run[k - 1] = Failed
    BY <2>1, <2>2, AfterFailure
  <2>3. CASE run[k - 1] # Failed
    BY <2>1, <2>3, AfterCreate DEF Created
  <2> QED BY <2>2, <2>3
<1> QED BY <1>1, <1>6, FailureStays

(* An object that is there.                                                *)
LEMMA ExistingFails ==
  ASSUME NEW steps, Len(steps) \in Nat, NEW schema0, NEW data,
         NEW k \in 1 .. Len(steps), steps[k].does = "create",
         steps[k].object.name \in Names(schema0),
         \A m \in 1 .. k - 1 : steps[m].does \in Making
  PROVE  Execute(steps, schema0, data) = Failed
<1>1. PICK run : /\ Runs(run, steps, schema0, data, Len(steps))
                 /\ Execute(steps, schema0, data) = run[Len(steps)]
  BY ExecuteRuns
<1>2. run[0] = schema0 /\ \A n \in 1 .. Len(steps) : run[n] = After(run[n - 1], steps[n], data)
  BY <1>1, RunsStep
<1> DEFINE S == {n \in Nat : run[n] = Failed \/ steps[k].object.name \in Names(run[n])}
<1>3. 0 \in S
  BY <1>2
<1>4. ASSUME NEW n \in 1 .. k - 1, n - 1 \in S PROVE n \in S
  <2>1. run[n] = After(run[n - 1], steps[n], data) /\ steps[n].does \in Making
    BY <1>2
  <2>2. CASE run[n - 1] = Failed
    BY <2>1, <2>2, AfterFailure
  <2>3. CASE run[n - 1] # Failed /\ steps[n].does = "create"
    <3>1. run[n] = Failed \/ run[n] = run[n - 1] \union {steps[n].object}
      BY <2>1, <2>3, AfterCreate DEF Created
    <3> QED BY <1>4, <2>3, <3>1 DEF Names
  <2>4. CASE run[n - 1] # Failed /\ steps[n].does = "replace"
    BY <1>4, <2>1, <2>4, AfterReplace DEF Names
  <2> QED BY <2>1, <2>2, <2>3, <2>4 DEF Making
<1>5. 0 .. k - 1 \subseteq S
  <2> HIDE DEF S
  <2> QED BY k - 1 \in Nat, <1>3, <1>4, InductionUpTo, Zenon
<1>6. run[k] = Failed
  <2>1. run[k] = After(run[k - 1], steps[k], data) /\ k - 1 \in S
    BY <1>2, <1>5
  <2>2. CASE run[k - 1] = Failed
    BY <2>1, <2>2, AfterFailure
  <2>3. CASE run[k - 1] # Failed
    BY <2>1, <2>3, AfterCreate DEF Created
  <2> QED BY <2>2, <2>3
<1> QED BY <1>1, <1>6, FailureStays

(* A statement with which the data clash.                                  *)
LEMMA ClashFails ==
  ASSUME NEW steps, Len(steps) \in Nat, NEW schema0, NEW data,
         NEW k \in 1 .. Len(steps), steps[k].does \in {"create", "update"},
         steps[k].unless \in data
  PROVE  Execute(steps, schema0, data) = Failed
<1>1. PICK run : /\ Runs(run, steps, schema0, data, Len(steps))
                 /\ Execute(steps, schema0, data) = run[Len(steps)]
  BY ExecuteRuns
<1>2. run[k] = After(run[k - 1], steps[k], data)
  BY <1>1, RunsStep
<1>3. CASE run[k - 1] = Failed
  <2>1. run[k] = Failed
    BY <1>2, <1>3, AfterFailure
  <2> QED BY <1>1, <2>1, FailureStays
<1>4. CASE run[k - 1] # Failed
  <2>1. ASSUME steps[k].does = "create" PROVE run[k] = Failed
    BY <1>2, <1>4, <2>1, AfterCreate DEF Created
  <2>2. ASSUME steps[k].does = "update" PROVE run[k] = Failed
    BY <1>2, <1>4, <2>2, AfterUpdate
  <2>3. run[k] = Failed
    BY <2>1, <2>2
  <2> QED BY <1>1, <2>3, FailureStays
<1> QED BY <1>3, <1>4

-----------------------------------------------------------------------------
(* Batches that make objects and drop others to which nothing belongs any  *)
(* longer: what the up of a migration does, and the down of the third.     *)
Gone(steps, n) == {steps[m].name : m \in {k \in 1 .. n : Other(steps[k])}}
Made(steps, n) == {steps[m].object : m \in {k \in 1 .. n : steps[k].does \in Making}}
Edited(schema0, steps, n) == {x \in schema0 : x.name \notin Gone(steps, n)} \union Made(steps, n)

(* Statement n makes an object with a new name, of objects that are there. *)
Makes(steps, n, schema0) ==
  LET o == steps[n].object IN
  /\ o.name \notin Names(schema0) \union {"failed"}
  /\ \A m \in 1 .. n - 1 : steps[m].does \in Making => steps[m].object.name # o.name
  /\ \A p \in {o.owner} \union o.refs :
       \/ p \in Names(schema0) /\ p \notin Gone(steps, n)
       \/ \E m \in 1 .. n - 1 : steps[m].does \in Making /\ steps[m].object.name = p

(* Statement n drops an object to which no other that is left belongs or   *)
(* refers.                                                                 *)
DropsLeaf(steps, n, schema0) ==
  LET d == steps[n].name IN
  /\ d # "public"
  /\ \A x \in schema0 : x.name \in Gone(steps, n - 1) \/ (x.owner # d /\ d \notin x.refs)
  /\ \A m \in 1 .. n - 1 : steps[m].does \in Making =>
       steps[m].object.name # d /\ steps[m].object.owner # d /\ d \notin steps[m].object.refs
  /\ steps[n].does = "drop" =>
       d \in Names(schema0) /\ \A m \in 1 .. n - 1 : Other(steps[m]) => steps[m].name # d

LEMMA NotFailed ==
  ASSUME NEW schema0, "failed" \notin Names(schema0)
  PROVE  schema0 # Failed
BY DEF Names, Failed, Object

LEMMA LeafFamily ==
  ASSUME NEW schema0, NEW d, \A x \in schema0 : x.owner # d
  PROVE  Family(schema0, d) = {d}
BY DEF Family

LEMMA Edits ==
  ASSUME NEW steps, Len(steps) \in Nat, NEW schema0, "failed" \notin Names(schema0), NEW data,
         \A n \in 1 .. Len(steps) :
           /\ steps[n].does \in Making => Makes(steps, n, schema0)
           /\ steps[n].does \in {"create", "update"} => steps[n].unless \notin data
           /\ Other(steps[n]) => DropsLeaf(steps, n, schema0)
  PROVE  Execute(steps, schema0, data) = Edited(schema0, steps, Len(steps))
<1> DEFINE at == [n \in 0 .. Len(steps) |-> Edited(schema0, steps, n)]
<1>1. \A n \in 0 .. Len(steps) : at[n] = Edited(schema0, steps, n)
  OBVIOUS
<1> HIDE DEF at
<1>2. at[0] = schema0
  <2>1. Gone(steps, 0) = {} /\ Made(steps, 0) = {}
    BY DEF Gone, Made
  <2>2. Edited(schema0, steps, 0) = schema0
    BY <2>1 DEF Edited
  <2> QED BY <1>1, <2>2
<1>3. ASSUME NEW n \in 1 .. Len(steps) PROVE at[n] = After(at[n - 1], steps[n], data)
  <2> DEFINE s == at[n - 1]
  <2>1. at[n] = Edited(schema0, steps, n) /\ s = Edited(schema0, steps, n - 1)
    BY <1>1
  <2> HIDE DEF s
  <2>2. s # Failed
    <3>1. \A x \in Made(steps, n - 1) : x.name # "failed"
      BY DEF Made, Makes
    <3> QED BY <2>1, <3>1, NotFailed DEF Edited, Names
  <2>3. CASE steps[n].does \in Making
    <3> DEFINE o == steps[n].object
    <3>1. Gone(steps, n) = Gone(steps, n - 1) /\ Made(steps, n) = Made(steps, n - 1) \union {o}
      <4>1. ~Other(steps[n])
        BY <2>3 DEF Other, Making
      <4> QED BY <2>3, <4>1 DEF Gone, Made
    <3>2. at[n] = s \union {o}
      BY <2>1, <3>1 DEF Edited
    <3>3. Makes(steps, n, schema0)
      BY <2>3
    <3>4. o.name \notin Names(s)
      BY <2>1, <3>3 DEF Makes, Names, Edited, Made
    <3>5. ASSUME NEW p \in {o.owner} \union o.refs PROVE p \in Names(s)
      <4>1. CASE p \in Names(schema0) /\ p \notin Gone(steps, n)
        BY <2>1, <3>1, <4>1 DEF Names, Edited
      <4>2. CASE \E m \in 1 .. n - 1 : steps[m].does \in Making /\ steps[m].object.name = p
        BY <2>1, <4>2 DEF Names, Edited, Made
      <4> QED BY <3>3, <4>1, <4>2 DEF Makes
    <3>6. CASE steps[n].does = "create"
      <4>1. steps[n].unless \notin data
        BY <3>6
      <4>2. Created(s, steps[n], data) = s \union {o}
        BY <3>4, <3>5, <4>1 DEF Created
      <4> QED BY <2>2, <3>2, <3>6, <4>2, AfterCreate DEF s
    <3>7. CASE steps[n].does = "replace"
      BY <2>2, <3>2, <3>7, AfterReplace DEF s
    <3> QED BY <2>3, <3>6, <3>7 DEF Making
  <2>4. CASE steps[n].does = "update"
    <3>1. Gone(steps, n) = Gone(steps, n - 1) /\ Made(steps, n) = Made(steps, n - 1)
      <4>1. ~Other(steps[n]) /\ steps[n].does \notin Making
        BY <2>4 DEF Other, Making
      <4> QED BY <4>1 DEF Gone, Made
    <3>2. at[n] = s
      BY <2>1, <3>1 DEF Edited
    <3> QED BY <2>2, <2>4, <3>2, AfterUpdate DEF s
  <2>5. CASE Other(steps[n])
    <3> DEFINE d == steps[n].name
    <3>1. Gone(steps, n) = Gone(steps, n - 1) \union {d} /\ Made(steps, n) = Made(steps, n - 1)
      <4>1. steps[n].does \notin Making
        BY <2>5 DEF Other, Making
      <4> QED BY <2>5, <4>1 DEF Gone, Made
    <3>2. DropsLeaf(steps, n, schema0)
      BY <2>5
    <3>3. \A x \in s : x.owner # d /\ d \notin x.refs
      BY <2>1, <3>2 DEF DropsLeaf, Edited, Made
    <3>4. at[n] = {x \in s : x.name # d}
      <4>1. \A x \in Made(steps, n - 1) : x.name # d
        BY <3>2 DEF DropsLeaf, Made
      <4> QED BY <2>1, <3>1, <4>1 DEF Edited
    <3>5. CASE d \in Names(s)
      <4>1. Family(s, d) = {d}
        BY <3>3, LeafFamily
      <4>2. WithoutFamily(s, {d}) = at[n]
        BY <3>3, <3>4 DEF WithoutFamily
      <4>3. After(s, steps[n], data) = WithoutFamily(s, Family(s, d))
        BY <2>2, <2>5, <3>5, AfterDrop
      <4> QED BY <4>1, <4>2, <4>3 DEF s
    <3>6. CASE d \notin Names(s)
      <4>1. steps[n].does # "drop"
        <5>1. ASSUME steps[n].does = "drop" PROVE d \in Names(s)
          <6>1. d \in Names(schema0) /\ d \notin Gone(steps, n - 1) /\ d # "public"
            BY <3>2, <5>1 DEF DropsLeaf, Gone
          <6> QED BY <2>1, <6>1 DEF Names, Edited
        <5> QED BY <3>6, <5>1
      <4>2. at[n] = s
        BY <3>4, <3>6 DEF Names
      <4> QED BY <2>2, <2>5, <3>6, <4>1, <4>2, AfterDrop DEF s
    <3> QED BY <3>5, <3>6
  <2> QED BY <2>3, <2>4, <2>5 DEF Other, Making
<1>4. Execute(steps, at[0], data) = at[Len(steps)]
  BY <1>3, ExecuteStates
<1> QED BY <1>1, <1>2, <1>4

-----------------------------------------------------------------------------
(* Batches of drops: what the down of a migration does.                    *)
Families(schema0, names, n) == UNION {Family(schema0, names[m]) : m \in 1 .. n}
Left(schema0, names, n) == {x \in schema0 : x.name \notin Families(schema0, names, n)}

LEMMA FamilyIs ==
  ASSUME NEW schema0, NEW d, NEW name
  PROVE  name \in Family(schema0, d) <=>
           \/ name = d
           \/ \E x \in schema0 : /\ x.name = name
                                 /\ \/ x.owner = d
                                     \/ \E y \in schema0 : y.name = x.owner /\ y.owner = d
<1> DEFINE one == {d} \union {x.name : x \in {y \in schema0 : y.owner \in {d}}}
           two == one \union {x.name : x \in {y \in schema0 : y.owner \in one}}
<1>1. Family(schema0, d) = two
  BY DEF Family
<1>2. name \in one <=> name = d \/ \E x \in schema0 : x.name = name /\ x.owner = d
  OBVIOUS
<1>3. \A x \in schema0 :
        x.owner \in one <=> x.owner = d \/ \E y \in schema0 : y.name = x.owner /\ y.owner = d
  OBVIOUS
<1>4. name \in two <=> name \in one \/ \E x \in schema0 : x.name = name /\ x.owner \in one
  <2> HIDE DEF one
  <2> QED OBVIOUS
<1> HIDE DEF one, two
<1> QED BY <1>1, <1>2, <1>3, <1>4

(* The drops before statement n have taken whatever refers to a family or  *)
(* belongs to one of it.                                                   *)
DropsFamily(schema0, names, n) ==
  /\ names[n] # "public"
  /\ \A x \in schema0 : x.owner \in Family(schema0, names[n]) =>
          x.name \in Family(schema0, names[n])
  /\ \A x \in schema0 : x.refs \intersect Families(schema0, names, n) # {}
                          => x.name \in Families(schema0, names, n)

LEMMA DropsStep ==
  ASSUME NEW names, Len(names) \in Nat, NEW schema0, "failed" \notin Names(schema0), NEW data,
         \A x \in schema0 : x.owner \in Names(schema0),
         \A n \in 1 .. Len(names) : DropsFamily(schema0, names, n),
         NEW n \in 1 .. Len(names)
  PROVE  After(Left(schema0, names, n - 1), DropIfExists(names[n]), data)
           = Left(schema0, names, n)
<1> DEFINE s == Left(schema0, names, n - 1)
           d == names[n]
           G == Families(schema0, names, n - 1)
           F == Family(schema0, d)
<1>1. \A x : x \in s <=> x \in schema0 /\ x.name \notin G
  BY DEF Left
<1>2. Families(schema0, names, n) = G \union F
  BY DEF Families
<1>3. \A x \in schema0 : x.owner \in G => x.name \in G
  <2>1. ASSUME NEW x \in schema0, x.owner \in G PROVE x.name \in G
    <3>1. PICK m \in 1 .. n - 1 : x.owner \in Family(schema0, names[m])
      BY <2>1 DEF Families
    <3>2. DropsFamily(schema0, names, m)
      OBVIOUS
    <3>3. x.name \in Family(schema0, names[m])
      BY <3>1, <3>2 DEF DropsFamily
    <3> QED BY <3>3 DEF Families
  <2> QED BY <2>1
<1>4. Left(schema0, names, n) = {x \in s : x.name \notin F}
  BY <1>1, <1>2 DEF Left
<1>5. d # "public" /\ \A x \in schema0 : x.refs \intersect (G \union F) # {} =>
          x.name \in G \union F
  BY <1>2 DEF DropsFamily
<1>6. s # Failed
  BY <1>1, NotFailed DEF Names
<1>7. /\ DropIfExists(d).does = "drop_if_exists" /\ DropIfExists(d).name = d
      /\ Other(DropIfExists(d))
  BY DEF DropIfExists, Other
<1> HIDE DEF s, d, G, F
<1>8. CASE d \in Names(s)
  <2> DEFINE E == Family(s, d)
  <2>1. \A x \in s : x.name \in E => x.name \in F
    BY <1>1, FamilyIs DEF F
  <2>2. ASSUME NEW x \in s, x.name \in F PROVE x.name \in E
    <3>1. CASE x.name = d
      BY <3>1, FamilyIs
    <3>2. CASE x.name # d
      <4>1. PICK z \in schema0 :
              /\ z.name = x.name
              /\ z.owner = d \/ \E y \in schema0 : y.name = z.owner /\ y.owner = d
        BY <2>2, <3>2, FamilyIs DEF F
      <4>2. z \in s
        BY <1>1, <4>1
      <4>3. \A y \in schema0 : y.name = z.owner => y \in s
        BY <1>1, <1>3, <4>2
      <4> QED BY <4>1, <4>2, <4>3, FamilyIs
    <3> QED BY <3>1, <3>2
  <2>3. E \subseteq F
    <3>1. ASSUME NEW name \in E PROVE name \in F
      BY <1>1, FamilyIs DEF F
    <3> QED BY <3>1
  <2>4. ASSUME NEW x \in s, x.name \notin E PROVE x.refs \intersect E = {}
    BY <1>1, <1>5, <2>2, <2>3, <2>4
  <2> HIDE DEF E
  <2>5. WithoutFamily(s, E) = {x \in s : x.name \notin E}
    BY <2>4 DEF WithoutFamily
  <2>6. WithoutFamily(s, E) = {x \in s : x.name \notin F}
    BY <2>1, <2>2, <2>5
  <2>7. After(s, DropIfExists(d), data) = WithoutFamily(s, E)
    BY <1>6, <1>7, <1>8, AfterDrop DEF E
  <2> QED BY <1>4, <2>6, <2>7 DEF s, d
<1>9. CASE d \notin Names(s)
  <2>1. ASSUME NEW x \in s, x.name \in F PROVE FALSE
    <3>1. x.name # d
      BY <1>9 DEF Names
    <3>2. PICK z \in schema0 :
              /\ z.name = x.name
              /\ z.owner = d \/ \E y \in schema0 : y.name = z.owner /\ y.owner = d
      BY <2>1, <3>1, FamilyIs DEF F
    <3>3. z.name \notin G
      BY <1>1, <3>2
    <3>4. d \in Names(schema0)
      BY <3>2
    <3>5. d \in G
      BY <1>1, <1>5, <1>9, <3>4 DEF Names
    <3> QED BY <1>3, <3>2, <3>3, <3>5
  <2>2. Left(schema0, names, n) = s
    BY <1>4, <2>1
  <2>3. After(s, DropIfExists(d), data) = s
    BY <1>6, <1>7, <1>9, AfterDrop
  <2> QED BY <2>2, <2>3 DEF s, d
<1> QED BY <1>8, <1>9

LEMMA Drops ==
  ASSUME NEW names, IsSequence(names), NEW schema0, "failed" \notin Names(schema0), NEW data,
         \A x \in schema0 : x.owner \in Names(schema0),
         \A n \in 1 .. Len(names) : DropsFamily(schema0, names, n)
  PROVE  Execute(DropAll(names), schema0, data) = Left(schema0, names, Len(names))
<1> DEFINE at == [n \in 0 .. Len(names) |-> Left(schema0, names, n)]
<1>1. Len(names) \in Nat /\ Len(DropAll(names)) = Len(names)
      /\ \A n \in 1 .. Len(names) : DropAll(names)[n] = DropIfExists(names[n])
  <2>1. Len(names) \in Nat /\ DOMAIN names = 1 .. Len(names)
    BY DEF IsSequence
  <2>2. DropAll(names) = [n \in 1 .. Len(names) |-> DropIfExists(names[n])]
    BY <2>1 DEF DropAll
  <2> QED BY <2>1, <2>2
<1>2. /\ \A n \in 0 .. Len(names) : at[n] = Left(schema0, names, n)
      /\ \A n \in 1 .. Len(names) : n - 1 \in 0 .. Len(names)
  BY <1>1
<1> HIDE DEF at
<1>3. at[0] = schema0
  <2>1. Families(schema0, names, 0) = {}
    BY DEF Families
  <2>2. Left(schema0, names, 0) = schema0
    BY <2>1 DEF Left
  <2> QED BY <1>1, <1>2, <2>2
<1>4. ASSUME NEW n \in 1 .. Len(names) PROVE at[n] = After(at[n - 1], DropAll(names)[n], data)
  <2>1. at[n - 1] = Left(schema0, names, n - 1) /\ at[n] = Left(schema0, names, n)
    BY <1>1, <1>2
  <2>2. After(Left(schema0, names, n - 1), DropIfExists(names[n]), data)
          = Left(schema0, names, n)
    BY <1>1, DropsStep, Zenon
  <2>3. DropAll(names)[n] = DropIfExists(names[n])
    BY <1>1
  <2> QED BY <2>1, <2>2, <2>3
<1>5. Execute(DropAll(names), at[0], data) = at[Len(names)]
  BY <1>1, <1>4, ExecuteStates
<1> QED BY <1>1, <1>2, <1>3, <1>5

-----------------------------------------------------------------------------
(* The statements of the migrations in twelve batches: six of the first    *)
(* migration, and one for each of the others.                              *)
FunctionsUp == << Replace(Object("set_updated_at", "public", {})),
                  Replace(Object("prevent_audit_mutation", "public", {})) >>

Batches == 1 .. 12
Batch(k) == <<FunctionsUp, IdentityTables, ListingTables, BillingTables, OperationTables,
              UpdatedAtTriggers, IdentityAuthUp, EmailIdentityUp, PasswordRecoveryUp,
              RecoveryOutboxUp, ActiveLifecycleUp, SupersessionUp>>[k]

(* The batches that make what the objects of batch k belong or refer to.   *)
Requires(k) == <<{}, {}, {2}, {2, 3}, {1, 2, 3}, {1, 2, 3, 4, 5},
                 {1, 2}, {2, 7}, {2, 7}, {5}, {3}, {5}>>[k]

(* The names that the batches make, without the triggers of the sixth.     *)
NamesOf(k) == <<
  {"set_updated_at", "prevent_audit_mutation"},
  {"roles", "users", "uq_users_phone", "users.display_name.not_null", "user_roles",
   "owner_profiles", "renter_profiles"},
  {"properties", "rooms", "bookings", "contracts"},
  {"invoices", "invoice_items", "payments", "payment_events", "payment_allocations"},
  {"maintenance_reports", "notifications", "media_files", "audit_logs",
   "trg_audit_logs_append_only", "outbox_events"},
  {},
  {"social_identities", "otp_challenges", "otp_challenges.phone.not_null", "auth_sessions",
   "auth_throttle_buckets", "trg_social_identities_updated_at"},
  {"users.phone_login_enabled", "uq_users_legacy_phone_login", "idx_users_phone_contact",
   "chk_users_email_normalized", "otp_challenges.email", "otp_challenges.verified_at",
   "chk_otp_challenges_recipient", "chk_otp_challenges_email_normalized",
   "uq_otp_challenges_active_email", "idx_otp_challenges_email_created"},
  {"password_reset_tokens", "idx_password_reset_tokens_active_user",
   "idx_password_reset_tokens_cleanup"},
  {"outbox_events.locked_at", "outbox_events.lock_token", "idx_outbox_recovery_claim"},
  {"chk_contracts_active_lifecycle"},
  {"outbox_events.superseded_at", "idx_outbox_registration_unsuperseded"}>>[k]

(* The batch that makes the object with a name.                            *)
PlaceOf(name) ==
  IF name \in NamesOf(1) THEN 1 ELSE IF name \in NamesOf(2) THEN 2
  ELSE IF name \in NamesOf(3) THEN 3 ELSE IF name \in NamesOf(4) THEN 4
  ELSE IF name \in NamesOf(5) THEN 5 ELSE IF name \in NamesOf(7) THEN 7
  ELSE IF name \in NamesOf(8) THEN 8 ELSE IF name \in NamesOf(9) THEN 9
  ELSE IF name \in NamesOf(10) THEN 10 ELSE IF name \in NamesOf(11) THEN 11
  ELSE IF name \in NamesOf(12) THEN 12 ELSE 6

(* What the third migration drops, to which nothing belongs.               *)
Removed == {"users.display_name.not_null", "uq_users_phone", "otp_challenges.phone.not_null"}

(* Tables, columns and functions to which others belong or refer: what is  *)
(* not of the whole schema belongs to a table or to one of its columns.    *)
Parents == {"users", "roles", "audit_logs", "owner_profiles", "renter_profiles", "properties",
            "rooms", "bookings", "contracts", "invoices", "payments", "maintenance_reports",
            "notifications", "media_files", "social_identities", "otp_challenges",
            "password_reset_tokens", "outbox_events", "set_updated_at", "prevent_audit_mutation"}
Columns == {"users.phone_login_enabled", "otp_challenges.email", "outbox_events.superseded_at"}

(* What a batch finds made by others.                                      *)
Targets == Parents \ {"audit_logs", "social_identities", "password_reset_tokens"}

Shaped(o) ==
  /\ o.name \notin {"public", "failed"}
  /\ o.owner \in {"public"} \union Parents \union Columns
  /\ o.refs \subseteq Parents
  /\ o.name \in Parents => o.owner = "public"
  /\ o.name \in Columns => o.owner \in Parents

Placed(steps, k) ==
  \A n \in 1 .. Len(steps) : steps[n].does \in Making =>
    LET o == steps[n].object IN
    /\ PlaceOf(o.name) = k
    /\ Shaped(o)
    /\ \A m \in 1 .. n - 1 : steps[m].does \in Making => steps[m].object.name # o.name
    /\ \A p \in {o.owner} \union o.refs :
         \/ p = "public"
         \/ p \in Targets /\ PlaceOf(p) \in Requires(k)
         \/ PlaceOf(p) = k /\ \E m \in 1 .. n - 1 : steps[m].does \in Making
                                                    /\ steps[m].object.name = p

(* Every batch makes new objects, of objects that it finds or has made.    *)
LEMMA BatchesPlaced == \A k \in Batches : Placed(Batch(k), k)
<1>1. Placed(Batch(1), 1)
  BY DEF Placed, PlaceOf, NamesOf, Shaped, Parents, Columns, Targets, Requires, Making, Batch,
           FunctionsUp, Object, Replace
<1>2. Placed(Batch(2), 2)
  BY DEF Placed, PlaceOf, NamesOf, Shaped, Parents, Columns, Targets, Requires, Making, Batch,
           IdentityTables, Object, Table, Part, Create
<1>3. Placed(Batch(3), 3)
  BY DEF Placed, PlaceOf, NamesOf, Shaped, Parents, Columns, Targets, Requires, Making, Batch,
           ListingTables, Object, Table, Create
<1>4. Placed(Batch(4), 4)
  BY DEF Placed, PlaceOf, NamesOf, Shaped, Parents, Columns, Targets, Requires, Making, Batch,
           BillingTables, Object, Table, Create
<1>5. Placed(Batch(5), 5)
  BY DEF Placed, PlaceOf, NamesOf, Shaped, Parents, Columns, Targets, Requires, Making, Batch,
           OperationTables, Object, Table, Create
<1>6. Placed(Batch(6), 6)
  BY DEF Placed, PlaceOf, NamesOf, Shaped, Parents, Columns, Targets, Requires, Making, Batch,
           UpdatedAtTriggers, Object, Create
<1>7. Placed(Batch(7), 7)
  BY DEF Placed, PlaceOf, NamesOf, Shaped, Parents, Columns, Targets, Requires, Making, Batch,
           IdentityAuthUp, Object, Table, Part, Create
<1>8. Placed(Batch(8), 8)
  BY DEF Placed, PlaceOf, NamesOf, Shaped, Parents, Columns, Targets, Requires, Making, Batch,
           EmailIdentityUp, Object, Part, Create, Update, Drop,
           DropIfExists
<1>9. Placed(Batch(9), 9)
  BY DEF Placed, PlaceOf, NamesOf, Shaped, Parents, Columns, Targets, Requires, Making, Batch,
           PasswordRecoveryUp, Object, Table, Part, Create
<1>10. Placed(Batch(10), 10)
  BY DEF Placed, PlaceOf, NamesOf, Shaped, Parents, Columns, Targets, Requires, Making, Batch,
           RecoveryOutboxUp, Object, Part, Create
<1>11. Placed(Batch(11), 11)
  BY DEF Placed, PlaceOf, NamesOf, Shaped, Parents, Columns, Targets, Requires, Making, Batch,
           ActiveLifecycleUp, Object, Part, Create
<1>12. Placed(Batch(12), 12)
  BY DEF Placed, PlaceOf, NamesOf, Shaped, Parents, Columns, Targets, Requires, Making, Batch,
           SupersessionUp, Object, Part, Create
<1> HIDE DEF Placed, Batch
<1> QED BY <1>1, <1>2, <1>3, <1>4, <1>5, <1>6, <1>7, <1>8, <1>9, <1>10, <1>11, <1>12 DEF Batches

(* What the statements of a batch do: only the third migration drops and   *)
(* updates.                                                                *)
Kinds(steps, k) ==
  /\ IsSequence(steps)
  /\ \A n \in 1 .. Len(steps) :
       /\ steps[n].does = "create" => steps[n].unless = "nothing"
       /\ steps[n].does = "update" => k = 8 /\ steps[n].unless = "emails"
       /\ Other(steps[n]) => k = 8 /\ steps[n].name \in Removed
       /\ Other(steps[n]) /\ steps[n].does = "drop" =>
            /\ steps[n].name = "uq_users_phone"
            /\ \A m \in 1 .. n - 1 : Other(steps[m]) => steps[m].name # "uq_users_phone"

LEMMA BatchesKinds == \A k \in Batches : Kinds(Batch(k), k)
<1>1. Kinds(Batch(1), 1)
  BY DEF Kinds, IsSequence, Other, Batch, FunctionsUp, Object, Replace
<1>2. Kinds(Batch(2), 2)
  BY DEF Kinds, IsSequence, Other, Batch, IdentityTables, Object, Table, Part, Create
<1>3. Kinds(Batch(3), 3)
  BY DEF Kinds, IsSequence, Other, Batch, ListingTables, Object, Table, Create
<1>4. Kinds(Batch(4), 4)
  BY DEF Kinds, IsSequence, Other, Batch, BillingTables, Object, Table, Create
<1>5. Kinds(Batch(5), 5)
  BY DEF Kinds, IsSequence, Other, Batch, OperationTables, Object, Table, Create
<1>6. Kinds(Batch(6), 6)
  BY DEF Kinds, IsSequence, Other, Batch, UpdatedAtTriggers, Object, Create
<1>7. Kinds(Batch(7), 7)
  BY DEF Kinds, IsSequence, Other, Batch, IdentityAuthUp, Object, Table, Part, Create
<1>8. Kinds(Batch(8), 8)
  BY DEF Kinds, IsSequence, Other, Removed, Batch, EmailIdentityUp, Object, Part, Create, Update,
          Drop, DropIfExists
<1>9. Kinds(Batch(9), 9)
  BY DEF Kinds, IsSequence, Other, Batch, PasswordRecoveryUp, Object, Table, Part, Create
<1>10. Kinds(Batch(10), 10)
  BY DEF Kinds, IsSequence, Other, Batch, RecoveryOutboxUp, Object, Part, Create
<1>11. Kinds(Batch(11), 11)
  BY DEF Kinds, IsSequence, Other, Batch, ActiveLifecycleUp, Object, Part, Create
<1>12. Kinds(Batch(12), 12)
  BY DEF Kinds, IsSequence, Other, Batch, SupersessionUp, Object, Part, Create
<1> HIDE DEF Kinds, Batch
<1> QED BY <1>1, <1>2, <1>3, <1>4, <1>5, <1>6, <1>7, <1>8, <1>9, <1>10, <1>11, <1>12 DEF Batches

-----------------------------------------------------------------------------
(* The schema that some of the batches make.                               *)
MadeBy(k) == Made(Batch(k), Len(Batch(k)))
SchemaAt(K) == {x \in UNION {MadeBy(k) : k \in K} : 8 \in K => x.name \notin Removed}

(* Every batch comes with those that it requires.                          *)
Closed(K) == K \subseteq Batches /\ \A k \in K : Requires(k) \subseteq K

LEMMA MadeAt ==
  ASSUME NEW k, NEW n \in 1 .. Len(Batch(k)), Batch(k)[n].does \in Making
  PROVE  Batch(k)[n].object \in MadeBy(k)
BY Zenon DEF MadeBy, Made

LEMMA MadeIs ==
  ASSUME NEW k, NEW x \in MadeBy(k)
  PROVE  \E n \in 1 .. Len(Batch(k)) : Batch(k)[n].does \in Making /\ Batch(k)[n].object = x
BY Zenon DEF MadeBy, Made

LEMMA RemovedApart ==
  /\ "public" \notin Removed /\ Parents \intersect Removed = {} /\ Columns \intersect Removed = {}
  /\ "public" \notin Parents /\ "public" \notin Columns /\ Targets \subseteq Parents
  /\ \A p \in Removed : PlaceOf(p) \in {2, 7}
BY DEF Removed, Parents, Columns, Targets, PlaceOf, NamesOf

(* An object that a batch makes.                                           *)
LEMMA MadeShape ==
  ASSUME NEW k \in Batches, NEW x \in MadeBy(k)
  PROVE  /\ Shaped(x) /\ PlaceOf(x.name) = k
         /\ \A p \in {x.owner} \union x.refs :
              /\ p \in {"public"} \union Parents \union Columns /\ p \notin Removed
              /\ \/ p = "public"
                 \/ p \in Targets /\ PlaceOf(p) \in Requires(k)
                 \/ PlaceOf(p) = k /\ \E y \in MadeBy(k) : y.name = p
<1>1. PICK n \in 1 .. Len(Batch(k)) : Batch(k)[n].does \in Making /\ Batch(k)[n].object = x
  BY MadeIs
<1>2. Placed(Batch(k), k)
  BY BatchesPlaced
<1>3. Shaped(x) /\ PlaceOf(x.name) = k
  BY <1>1, <1>2 DEF Placed
<1>4. ASSUME NEW p \in {x.owner} \union x.refs
      PROVE  /\ p \in {"public"} \union Parents \union Columns /\ p \notin Removed
             /\ \/ p = "public"
                \/ p \in Targets /\ PlaceOf(p) \in Requires(k)
                \/ PlaceOf(p) = k /\ \E y \in MadeBy(k) : y.name = p
  <2>1. p \in {"public"} \union Parents \union Columns
    BY <1>3 DEF Shaped
  <2>2. p \notin Removed
    BY <2>1, RemovedApart
  <2>3. \/ p = "public"
        \/ p \in Targets /\ PlaceOf(p) \in Requires(k)
        \/ PlaceOf(p) = k /\ \E m \in 1 .. n - 1 : Batch(k)[m].does \in Making
                                                   /\ Batch(k)[m].object.name = p
    BY <1>1, <1>2 DEF Placed
  <2>4. ASSUME NEW m \in 1 .. n - 1, Batch(k)[m].does \in Making
        PROVE  Batch(k)[m].object \in MadeBy(k)
    <3>1. Len(Batch(k)) \in Nat
      BY BatchesKinds DEF Kinds, IsSequence
    <3>2. m \in 1 .. Len(Batch(k))
      BY <3>1
    <3> QED BY <2>4, <3>2, MadeAt
  <2> QED BY <2>1, <2>2, <2>3, <2>4
<1> QED BY <1>3, <1>4

LEMMA NamesMade ==
  \A k \in Batches : \A p \in NamesOf(k) : PlaceOf(p) = k /\ \E x \in MadeBy(k) : x.name = p
<1>1. \A p \in NamesOf(1) : PlaceOf(p) = 1 /\ \E x \in MadeBy(1) : x.name = p
  <2>1. \A p \in NamesOf(1) : PlaceOf(p) = 1
    BY DEF NamesOf, PlaceOf
  <2>2. /\ 1 \in 1 .. Len(Batch(1)) /\ Batch(1)[1].does \in Making
           /\ Batch(1)[1].object.name = "set_updated_at"
        /\ 2 \in 1 .. Len(Batch(1)) /\ Batch(1)[2].does \in Making
           /\ Batch(1)[2].object.name = "prevent_audit_mutation"
    BY DEF Batch, FunctionsUp, Object, Replace, Making
  <2>3. /\ \E x \in MadeBy(1) : x.name = "set_updated_at"
        /\ \E x \in MadeBy(1) : x.name = "prevent_audit_mutation"
    BY <2>2, MadeAt
  <2> QED BY <2>1, <2>3 DEF NamesOf
<1>2. \A p \in NamesOf(2) : PlaceOf(p) = 2 /\ \E x \in MadeBy(2) : x.name = p
  <2>1. \A p \in NamesOf(2) : PlaceOf(p) = 2
    BY DEF NamesOf, PlaceOf
  <2>2. /\ 1 \in 1 .. Len(Batch(2)) /\ Batch(2)[1].does \in Making
           /\ Batch(2)[1].object.name = "roles"
        /\ 2 \in 1 .. Len(Batch(2)) /\ Batch(2)[2].does \in Making
           /\ Batch(2)[2].object.name = "users"
        /\ 3 \in 1 .. Len(Batch(2)) /\ Batch(2)[3].does \in Making
           /\ Batch(2)[3].object.name = "uq_users_phone"
        /\ 4 \in 1 .. Len(Batch(2)) /\ Batch(2)[4].does \in Making
           /\ Batch(2)[4].object.name = "users.display_name.not_null"
        /\ 5 \in 1 .. Len(Batch(2)) /\ Batch(2)[5].does \in Making
           /\ Batch(2)[5].object.name = "user_roles"
        /\ 6 \in 1 .. Len(Batch(2)) /\ Batch(2)[6].does \in Making
           /\ Batch(2)[6].object.name = "owner_profiles"
        /\ 7 \in 1 .. Len(Batch(2)) /\ Batch(2)[7].does \in Making
           /\ Batch(2)[7].object.name = "renter_profiles"
    BY DEF Batch, IdentityTables, Object, Table, Part, Create, Making
  <2>3. /\ \E x \in MadeBy(2) : x.name = "roles"
        /\ \E x \in MadeBy(2) : x.name = "users"
        /\ \E x \in MadeBy(2) : x.name = "uq_users_phone"
        /\ \E x \in MadeBy(2) : x.name = "users.display_name.not_null"
        /\ \E x \in MadeBy(2) : x.name = "user_roles"
        /\ \E x \in MadeBy(2) : x.name = "owner_profiles"
        /\ \E x \in MadeBy(2) : x.name = "renter_profiles"
    BY <2>2, MadeAt
  <2> QED BY <2>1, <2>3 DEF NamesOf
<1>3. \A p \in NamesOf(3) : PlaceOf(p) = 3 /\ \E x \in MadeBy(3) : x.name = p
  <2>1. \A p \in NamesOf(3) : PlaceOf(p) = 3
    BY DEF NamesOf, PlaceOf
  <2>2. /\ 1 \in 1 .. Len(Batch(3)) /\ Batch(3)[1].does \in Making
           /\ Batch(3)[1].object.name = "properties"
        /\ 2 \in 1 .. Len(Batch(3)) /\ Batch(3)[2].does \in Making
           /\ Batch(3)[2].object.name = "rooms"
        /\ 3 \in 1 .. Len(Batch(3)) /\ Batch(3)[3].does \in Making
           /\ Batch(3)[3].object.name = "bookings"
        /\ 4 \in 1 .. Len(Batch(3)) /\ Batch(3)[4].does \in Making
           /\ Batch(3)[4].object.name = "contracts"
    BY DEF Batch, ListingTables, Object, Table, Create, Making
  <2>3. /\ \E x \in MadeBy(3) : x.name = "properties"
        /\ \E x \in MadeBy(3) : x.name = "rooms"
        /\ \E x \in MadeBy(3) : x.name = "bookings"
        /\ \E x \in MadeBy(3) : x.name = "contracts"
    BY <2>2, MadeAt
  <2> QED BY <2>1, <2>3 DEF NamesOf
<1>4. \A p \in NamesOf(4) : PlaceOf(p) = 4 /\ \E x \in MadeBy(4) : x.name = p
  <2>1. \A p \in NamesOf(4) : PlaceOf(p) = 4
    BY DEF NamesOf, PlaceOf
  <2>2. /\ 1 \in 1 .. Len(Batch(4)) /\ Batch(4)[1].does \in Making
           /\ Batch(4)[1].object.name = "invoices"
        /\ 2 \in 1 .. Len(Batch(4)) /\ Batch(4)[2].does \in Making
           /\ Batch(4)[2].object.name = "invoice_items"
        /\ 3 \in 1 .. Len(Batch(4)) /\ Batch(4)[3].does \in Making
           /\ Batch(4)[3].object.name = "payments"
        /\ 4 \in 1 .. Len(Batch(4)) /\ Batch(4)[4].does \in Making
           /\ Batch(4)[4].object.name = "payment_events"
        /\ 5 \in 1 .. Len(Batch(4)) /\ Batch(4)[5].does \in Making
           /\ Batch(4)[5].object.name = "payment_allocations"
    BY DEF Batch, BillingTables, Object, Table, Create, Making
  <2>3. /\ \E x \in MadeBy(4) : x.name = "invoices"
        /\ \E x \in MadeBy(4) : x.name = "invoice_items"
        /\ \E x \in MadeBy(4) : x.name = "payments"
        /\ \E x \in MadeBy(4) : x.name = "payment_events"
        /\ \E x \in MadeBy(4) : x.name = "payment_allocations"
    BY <2>2, MadeAt
  <2> QED BY <2>1, <2>3 DEF NamesOf
<1>5. \A p \in NamesOf(5) : PlaceOf(p) = 5 /\ \E x \in MadeBy(5) : x.name = p
  <2>1. \A p \in NamesOf(5) : PlaceOf(p) = 5
    BY DEF NamesOf, PlaceOf
  <2>2. /\ 1 \in 1 .. Len(Batch(5)) /\ Batch(5)[1].does \in Making
           /\ Batch(5)[1].object.name = "maintenance_reports"
        /\ 2 \in 1 .. Len(Batch(5)) /\ Batch(5)[2].does \in Making
           /\ Batch(5)[2].object.name = "notifications"
        /\ 3 \in 1 .. Len(Batch(5)) /\ Batch(5)[3].does \in Making
           /\ Batch(5)[3].object.name = "media_files"
        /\ 4 \in 1 .. Len(Batch(5)) /\ Batch(5)[4].does \in Making
           /\ Batch(5)[4].object.name = "audit_logs"
        /\ 5 \in 1 .. Len(Batch(5)) /\ Batch(5)[5].does \in Making
           /\ Batch(5)[5].object.name = "trg_audit_logs_append_only"
        /\ 6 \in 1 .. Len(Batch(5)) /\ Batch(5)[6].does \in Making
           /\ Batch(5)[6].object.name = "outbox_events"
    BY DEF Batch, OperationTables, Object, Table, Create, Making
  <2>3. /\ \E x \in MadeBy(5) : x.name = "maintenance_reports"
        /\ \E x \in MadeBy(5) : x.name = "notifications"
        /\ \E x \in MadeBy(5) : x.name = "media_files"
        /\ \E x \in MadeBy(5) : x.name = "audit_logs"
        /\ \E x \in MadeBy(5) : x.name = "trg_audit_logs_append_only"
        /\ \E x \in MadeBy(5) : x.name = "outbox_events"
    BY <2>2, MadeAt
  <2> QED BY <2>1, <2>3 DEF NamesOf
<1>6. \A p \in NamesOf(6) : PlaceOf(p) = 6 /\ \E x \in MadeBy(6) : x.name = p
  BY DEF NamesOf
<1>7. \A p \in NamesOf(7) : PlaceOf(p) = 7 /\ \E x \in MadeBy(7) : x.name = p
  <2>1. \A p \in NamesOf(7) : PlaceOf(p) = 7
    BY DEF NamesOf, PlaceOf
  <2>2. /\ 1 \in 1 .. Len(Batch(7)) /\ Batch(7)[1].does \in Making
           /\ Batch(7)[1].object.name = "social_identities"
        /\ 2 \in 1 .. Len(Batch(7)) /\ Batch(7)[2].does \in Making
           /\ Batch(7)[2].object.name = "otp_challenges"
        /\ 3 \in 1 .. Len(Batch(7)) /\ Batch(7)[3].does \in Making
           /\ Batch(7)[3].object.name = "otp_challenges.phone.not_null"
        /\ 4 \in 1 .. Len(Batch(7)) /\ Batch(7)[4].does \in Making
           /\ Batch(7)[4].object.name = "auth_sessions"
        /\ 5 \in 1 .. Len(Batch(7)) /\ Batch(7)[5].does \in Making
           /\ Batch(7)[5].object.name = "auth_throttle_buckets"
        /\ 6 \in 1 .. Len(Batch(7)) /\ Batch(7)[6].does \in Making
           /\ Batch(7)[6].object.name = "trg_social_identities_updated_at"
    BY DEF Batch, IdentityAuthUp, Object, Table, Part, Create, Making
  <2>3. /\ \E x \in MadeBy(7) : x.name = "social_identities"
        /\ \E x \in MadeBy(7) : x.name = "otp_challenges"
        /\ \E x \in MadeBy(7) : x.name = "otp_challenges.phone.not_null"
        /\ \E x \in MadeBy(7) : x.name = "auth_sessions"
        /\ \E x \in MadeBy(7) : x.name = "auth_throttle_buckets"
        /\ \E x \in MadeBy(7) : x.name = "trg_social_identities_updated_at"
    BY <2>2, MadeAt
  <2> QED BY <2>1, <2>3 DEF NamesOf
<1>8. \A p \in NamesOf(8) : PlaceOf(p) = 8 /\ \E x \in MadeBy(8) : x.name = p
  <2>1. \A p \in NamesOf(8) : PlaceOf(p) = 8
    BY DEF NamesOf, PlaceOf
  <2>2. /\ 1 \in 1 .. Len(Batch(8)) /\ Batch(8)[1].does \in Making
           /\ Batch(8)[1].object.name = "users.phone_login_enabled"
        /\ 5 \in 1 .. Len(Batch(8)) /\ Batch(8)[5].does \in Making
           /\ Batch(8)[5].object.name = "uq_users_legacy_phone_login"
        /\ 6 \in 1 .. Len(Batch(8)) /\ Batch(8)[6].does \in Making
           /\ Batch(8)[6].object.name = "idx_users_phone_contact"
        /\ 7 \in 1 .. Len(Batch(8)) /\ Batch(8)[7].does \in Making
           /\ Batch(8)[7].object.name = "chk_users_email_normalized"
        /\ 9 \in 1 .. Len(Batch(8)) /\ Batch(8)[9].does \in Making
           /\ Batch(8)[9].object.name = "otp_challenges.email"
        /\ 10 \in 1 .. Len(Batch(8)) /\ Batch(8)[10].does \in Making
           /\ Batch(8)[10].object.name = "otp_challenges.verified_at"
        /\ 11 \in 1 .. Len(Batch(8)) /\ Batch(8)[11].does \in Making
           /\ Batch(8)[11].object.name = "chk_otp_challenges_recipient"
        /\ 12 \in 1 .. Len(Batch(8)) /\ Batch(8)[12].does \in Making
           /\ Batch(8)[12].object.name = "chk_otp_challenges_email_normalized"
        /\ 13 \in 1 .. Len(Batch(8)) /\ Batch(8)[13].does \in Making
           /\ Batch(8)[13].object.name = "uq_otp_challenges_active_email"
        /\ 14 \in 1 .. Len(Batch(8)) /\ Batch(8)[14].does \in Making
           /\ Batch(8)[14].object.name = "idx_otp_challenges_email_created"
    BY DEF Batch, EmailIdentityUp, Object, Part, Create, Making, Update, Drop, DropIfExists
  <2>3. /\ \E x \in MadeBy(8) : x.name = "users.phone_login_enabled"
        /\ \E x \in MadeBy(8) : x.name = "uq_users_legacy_phone_login"
        /\ \E x \in MadeBy(8) : x.name = "idx_users_phone_contact"
        /\ \E x \in MadeBy(8) : x.name = "chk_users_email_normalized"
        /\ \E x \in MadeBy(8) : x.name = "otp_challenges.email"
        /\ \E x \in MadeBy(8) : x.name = "otp_challenges.verified_at"
        /\ \E x \in MadeBy(8) : x.name = "chk_otp_challenges_recipient"
        /\ \E x \in MadeBy(8) : x.name = "chk_otp_challenges_email_normalized"
        /\ \E x \in MadeBy(8) : x.name = "uq_otp_challenges_active_email"
        /\ \E x \in MadeBy(8) : x.name = "idx_otp_challenges_email_created"
    BY <2>2, MadeAt
  <2> QED BY <2>1, <2>3 DEF NamesOf
<1>9. \A p \in NamesOf(9) : PlaceOf(p) = 9 /\ \E x \in MadeBy(9) : x.name = p
  <2>1. \A p \in NamesOf(9) : PlaceOf(p) = 9
    BY DEF NamesOf, PlaceOf
  <2>2. /\ 1 \in 1 .. Len(Batch(9)) /\ Batch(9)[1].does \in Making
           /\ Batch(9)[1].object.name = "password_reset_tokens"
        /\ 2 \in 1 .. Len(Batch(9)) /\ Batch(9)[2].does \in Making
           /\ Batch(9)[2].object.name = "idx_password_reset_tokens_active_user"
        /\ 3 \in 1 .. Len(Batch(9)) /\ Batch(9)[3].does \in Making
           /\ Batch(9)[3].object.name = "idx_password_reset_tokens_cleanup"
    BY DEF Batch, PasswordRecoveryUp, Object, Table, Part, Create, Making
  <2>3. /\ \E x \in MadeBy(9) : x.name = "password_reset_tokens"
        /\ \E x \in MadeBy(9) : x.name = "idx_password_reset_tokens_active_user"
        /\ \E x \in MadeBy(9) : x.name = "idx_password_reset_tokens_cleanup"
    BY <2>2, MadeAt
  <2> QED BY <2>1, <2>3 DEF NamesOf
<1>10. \A p \in NamesOf(10) : PlaceOf(p) = 10 /\ \E x \in MadeBy(10) : x.name = p
  <2>1. \A p \in NamesOf(10) : PlaceOf(p) = 10
    BY DEF NamesOf, PlaceOf
  <2>2. /\ 1 \in 1 .. Len(Batch(10)) /\ Batch(10)[1].does \in Making
           /\ Batch(10)[1].object.name = "outbox_events.locked_at"
        /\ 2 \in 1 .. Len(Batch(10)) /\ Batch(10)[2].does \in Making
           /\ Batch(10)[2].object.name = "outbox_events.lock_token"
        /\ 3 \in 1 .. Len(Batch(10)) /\ Batch(10)[3].does \in Making
           /\ Batch(10)[3].object.name = "idx_outbox_recovery_claim"
    BY DEF Batch, RecoveryOutboxUp, Object, Part, Create, Making
  <2>3. /\ \E x \in MadeBy(10) : x.name = "outbox_events.locked_at"
        /\ \E x \in MadeBy(10) : x.name = "outbox_events.lock_token"
        /\ \E x \in MadeBy(10) : x.name = "idx_outbox_recovery_claim"
    BY <2>2, MadeAt
  <2> QED BY <2>1, <2>3 DEF NamesOf
<1>11. \A p \in NamesOf(11) : PlaceOf(p) = 11 /\ \E x \in MadeBy(11) : x.name = p
  <2>1. \A p \in NamesOf(11) : PlaceOf(p) = 11
    BY DEF NamesOf, PlaceOf
  <2>2. /\ 1 \in 1 .. Len(Batch(11)) /\ Batch(11)[1].does \in Making
           /\ Batch(11)[1].object.name = "chk_contracts_active_lifecycle"
    BY DEF Batch, ActiveLifecycleUp, Object, Part, Create, Making
  <2>3. /\ \E x \in MadeBy(11) : x.name = "chk_contracts_active_lifecycle"
    BY <2>2, MadeAt
  <2> QED BY <2>1, <2>3 DEF NamesOf
<1>12. \A p \in NamesOf(12) : PlaceOf(p) = 12 /\ \E x \in MadeBy(12) : x.name = p
  <2>1. \A p \in NamesOf(12) : PlaceOf(p) = 12
    BY DEF NamesOf, PlaceOf
  <2>2. /\ 1 \in 1 .. Len(Batch(12)) /\ Batch(12)[1].does \in Making
           /\ Batch(12)[1].object.name = "outbox_events.superseded_at"
        /\ 2 \in 1 .. Len(Batch(12)) /\ Batch(12)[2].does \in Making
           /\ Batch(12)[2].object.name = "idx_outbox_registration_unsuperseded"
    BY DEF Batch, SupersessionUp, Object, Part, Create, Making
  <2>3. /\ \E x \in MadeBy(12) : x.name = "outbox_events.superseded_at"
        /\ \E x \in MadeBy(12) : x.name = "idx_outbox_registration_unsuperseded"
    BY <2>2, MadeAt
  <2> QED BY <2>1, <2>3 DEF NamesOf
<1> QED BY <1>1, <1>2, <1>3, <1>4, <1>5, <1>6, <1>7, <1>8, <1>9, <1>10, <1>11, <1>12 DEF Batches

LEMMA TargetsNamed == \A p \in Targets : PlaceOf(p) \in Batches /\ p \in NamesOf(PlaceOf(p))
<1> DEFINE ok(p) == \E k \in Batches : p \in NamesOf(k)
<1>1. \A p \in Targets : ok(p)
  <2>1. Targets \subseteq NamesOf(1) \union NamesOf(2) \union NamesOf(3) \union NamesOf(4)
                          \union NamesOf(5) \union NamesOf(7)
    BY DEF Targets, Parents, NamesOf
  <2>2. \A k \in {1, 2, 3, 4, 5, 7} : k \in Batches
    BY DEF Batches
  <2> QED BY <2>1, <2>2
<1> QED BY <1>1, NamesMade

LEMMA InSchema ==
  ASSUME NEW K, Closed(K), NEW x \in SchemaAt(K)
  PROVE  \E k \in K : k \in Batches /\ x \in MadeBy(k)
BY DEF SchemaAt, Closed

LEMMA NameThere ==
  ASSUME NEW K, Closed(K), NEW k \in K, NEW p \in NamesOf(k), 8 \in K => p \notin Removed
  PROVE  p \in Names(SchemaAt(K))
BY NamesMade DEF SchemaAt, Names, Closed

LEMMA NamePlaced ==
  ASSUME NEW K, Closed(K), NEW p \in Names(SchemaAt(K)), p # "public"
  PROVE  PlaceOf(p) \in K /\ p # "failed" /\ (8 \in K => p \notin Removed)
<1>1. PICK x \in SchemaAt(K) : x.name = p
  BY DEF Names
<1>2. PICK k \in K : k \in Batches /\ x \in MadeBy(k)
  BY <1>1, InSchema
<1>3. Shaped(x) /\ PlaceOf(x.name) = k
  BY <1>2, MadeShape
<1> QED BY <1>1, <1>2, <1>3 DEF Shaped, SchemaAt

LEMMA NothingFailed ==
  ASSUME NEW K, Closed(K)
  PROVE  "failed" \notin Names(SchemaAt(K)) /\ SchemaAt(K) # Failed
<1>1. "failed" \notin Names(SchemaAt(K))
  <2>1. "failed" # "public"
    OBVIOUS
  <2> QED BY <2>1, NamePlaced
<1> QED BY <1>1, NotFailed

(* What an object of a schema belongs and refers to.                       *)
LEMMA SchemaShape ==
  ASSUME NEW K, Closed(K), NEW x \in SchemaAt(K)
  PROVE  /\ Shaped(x) /\ PlaceOf(x.name) \in K
         /\ \A p \in {x.owner} \union x.refs :
              /\ p \in Names(SchemaAt(K)) /\ p \notin Removed
              /\ \/ p = "public" \/ PlaceOf(p) = PlaceOf(x.name)
                 \/ PlaceOf(p) \in Requires(PlaceOf(x.name))
<1>1. PICK k \in K : k \in Batches /\ x \in MadeBy(k)
  BY InSchema
<1>2. Shaped(x) /\ PlaceOf(x.name) = k
  BY <1>1, MadeShape
<1>3. Requires(k) \subseteq K
  BY <1>1 DEF Closed
<1>4. ASSUME NEW p \in {x.owner} \union x.refs
      PROVE  /\ p \in Names(SchemaAt(K)) /\ p \notin Removed
             /\ p = "public" \/ PlaceOf(p) = k \/ PlaceOf(p) \in Requires(k)
  <2>1. /\ p \notin Removed
        /\ \/ p = "public"
           \/ p \in Targets /\ PlaceOf(p) \in Requires(k)
           \/ PlaceOf(p) = k /\ \E y \in MadeBy(k) : y.name = p
    BY <1>1, MadeShape, Zenon
  <2>2. CASE p = "public"
    BY <2>1, <2>2 DEF Names
  <2>3. CASE p \in Targets /\ PlaceOf(p) \in Requires(k)
    <3>1. PlaceOf(p) \in K /\ p \in NamesOf(PlaceOf(p))
      BY <1>3, <2>3, TargetsNamed
    <3> QED BY <2>1, <2>3, <3>1, NameThere
  <2>4. CASE PlaceOf(p) = k /\ \E y \in MadeBy(k) : y.name = p
    BY <1>1, <2>1, <2>4 DEF SchemaAt, Names
  <2> QED BY <2>1, <2>2, <2>3, <2>4
<1> QED BY <1>1, <1>2, <1>4

LEMMA RequiresOfThird == Requires(8) = {2, 7} /\ 8 \in Batches
BY DEF Requires, Batches

LEMMA GoneOf ==
  /\ \A k \in Batches : k # 8 => Gone(Batch(k), Len(Batch(k))) = {}
  /\ Gone(Batch(8), Len(Batch(8))) = Removed
<1>1. ASSUME NEW k \in Batches, k # 8 PROVE Gone(Batch(k), Len(Batch(k))) = {}
  BY <1>1, BatchesKinds DEF Kinds, Gone
<1>2. Gone(Batch(8), Len(Batch(8))) \subseteq Removed
  <2>1. Kinds(Batch(8), 8)
    BY BatchesKinds, RequiresOfThird
  <2> QED BY <2>1 DEF Kinds, Gone
<1>3. /\ 2 \in 1 .. Len(Batch(8)) /\ Other(Batch(8)[2])
         /\ Batch(8)[2].name = "users.display_name.not_null"
      /\ 4 \in 1 .. Len(Batch(8)) /\ Other(Batch(8)[4])
         /\ Batch(8)[4].name = "uq_users_phone"
      /\ 8 \in 1 .. Len(Batch(8)) /\ Other(Batch(8)[8])
         /\ Batch(8)[8].name = "otp_challenges.phone.not_null"
  BY DEF Batch, EmailIdentityUp, Other, Drop, DropIfExists, Object, Part, Create
<1>4. \A n \in 1 .. Len(Batch(8)) :
        Other(Batch(8)[n]) => Batch(8)[n].name \in Gone(Batch(8), Len(Batch(8)))
  BY DEF Gone
<1>5. Removed \subseteq Gone(Batch(8), Len(Batch(8)))
  BY <1>3, <1>4 DEF Removed
<1> QED BY <1>1, <1>2, <1>5

(* A batch adds to the schema of those that it requires.                   *)
LEMMA BatchUp ==
  ASSUME NEW K, Closed(K), NEW k \in Batches, k \notin K, Requires(k) \subseteq K,
         NEW data, "nothing" \notin data, k = 8 => "emails" \notin data
  PROVE  Execute(Batch(k), SchemaAt(K), data) = SchemaAt(K \union {k})
<1> DEFINE steps == Batch(k)
           s == SchemaAt(K)
<1>1. Len(steps) \in Nat /\ Kinds(steps, k) /\ Placed(steps, k)
  BY BatchesKinds, BatchesPlaced DEF Kinds, IsSequence
<1>2. "failed" \notin Names(s)
  BY NothingFailed
<1>3. ASSUME NEW n \in 1 .. Len(steps), NEW m \in 1 .. n - 1
      PROVE  m \in 1 .. Len(steps)
  BY <1>1
<1>4. \A n \in 0 .. Len(steps) : Gone(steps, n) \subseteq Removed
  BY <1>1 DEF Gone, Kinds
<1>5. \A n \in 1 .. Len(steps) : steps[n].does \in Making =>
        /\ steps[n].object \in MadeBy(k) /\ Shaped(steps[n].object)
        /\ PlaceOf(steps[n].object.name) = k
  BY <1>1, MadeAt DEF Placed
<1> HIDE DEF s
<1>6. ASSUME NEW n \in 1 .. Len(steps), steps[n].does \in Making PROVE Makes(steps, n, s)
  <2> DEFINE o == steps[n].object
  <2>1. o.name \notin Names(s) \union {"failed"}
    <3>1. o.name \notin {"public", "failed"} /\ PlaceOf(o.name) = k
      BY <1>5, <1>6 DEF Shaped
    <3> QED BY <3>1, NamePlaced DEF s
  <2>2. \A m \in 1 .. n - 1 : steps[m].does \in Making => steps[m].object.name # o.name
    BY <1>1, <1>6 DEF Placed
  <2>3. ASSUME NEW p \in {o.owner} \union o.refs
        PROVE  \/ p \in Names(s) /\ p \notin Gone(steps, n)
               \/ \E m \in 1 .. n - 1 : steps[m].does \in Making /\ steps[m].object.name = p
    <3>1. p \notin Removed
      BY <1>5, <1>6, RemovedApart DEF Shaped
    <3>2. p \notin Gone(steps, n)
      BY <1>4, <3>1
    <3>3. CASE p = "public"
      BY <3>2, <3>3 DEF Names
    <3>4. CASE p \in Targets /\ PlaceOf(p) \in Requires(k)
      <4>1. p \in NamesOf(PlaceOf(p)) /\ PlaceOf(p) \in K
        BY <3>4, TargetsNamed
      <4> QED BY <3>1, <3>2, <4>1, NameThere DEF s
    <3> QED BY <1>1, <1>6, <3>3, <3>4 DEF Placed
  <2> QED BY <2>1, <2>2, <2>3 DEF Makes
<1>7. ASSUME NEW n \in 1 .. Len(steps), Other(steps[n]) PROVE DropsLeaf(steps, n, s)
  <2> DEFINE d == steps[n].name
  <2>1. k = 8 /\ d \in Removed
    BY <1>1, <1>7 DEF Kinds
  <2>2. d # "public" /\ PlaceOf(d) \in {2, 7}
    BY <2>1, RemovedApart
  <2>3. \A x \in s : x.owner # d /\ d \notin x.refs
    BY <2>1, SchemaShape DEF s
  <2>4. ASSUME NEW m \in 1 .. n - 1, steps[m].does \in Making
        PROVE  steps[m].object.name # d /\ steps[m].object.owner # d /\ d \notin steps[m].object.refs
    <3>1. Shaped(steps[m].object) /\ PlaceOf(steps[m].object.name) = k
      BY <1>3, <1>5, <2>4
    <3> QED BY <2>1, <2>2, <3>1, RemovedApart DEF Shaped
  <2>5. ASSUME steps[n].does = "drop"
        PROVE  d \in Names(s) /\ \A m \in 1 .. n - 1 : Other(steps[m]) => steps[m].name # d
    <3>1. /\ d = "uq_users_phone"
          /\ \A m \in 1 .. n - 1 : Other(steps[m]) => steps[m].name # "uq_users_phone"
      BY <1>1, <1>7, <2>5 DEF Kinds
    <3>2. d \in NamesOf(2) /\ 2 \in K /\ 8 \notin K
      <4>1. d \in NamesOf(2)
        BY <3>1 DEF NamesOf
      <4> QED BY <2>1, <4>1, RequiresOfThird
    <3>3. d \in Names(s)
      BY <3>2, NameThere DEF s
    <3> QED BY <3>1, <3>3
  <2> QED BY <2>2, <2>3, <2>4, <2>5 DEF DropsLeaf
<1>8. \A n \in 1 .. Len(steps) :
        steps[n].does \in {"create", "update"} => steps[n].unless \notin data
  BY <1>1 DEF Kinds
<1>9. Execute(steps, s, data) = Edited(s, steps, Len(steps))
  BY <1>1, <1>2, <1>6, <1>7, <1>8, Edits
<1>10. \A x \in MadeBy(k) : PlaceOf(x.name) = k
  BY MadeShape
<1>11. Edited(s, steps, Len(steps)) = {x \in s : x.name \notin Gone(steps, Len(steps))} \union MadeBy(k)
  BY DEF Edited, MadeBy
<1>12. \A x : x \in SchemaAt(K \union {k}) <=>
                /\ x \in MadeBy(k) \/ \E j \in K : x \in MadeBy(j)
                /\ k = 8 \/ 8 \in K => x.name \notin Removed
  BY DEF SchemaAt
<1>13. \A x : x \in s <=> (\E j \in K : x \in MadeBy(j)) /\ (8 \in K => x.name \notin Removed)
  BY DEF SchemaAt, s
<1>14. \A x \in MadeBy(k) : k = 8 \/ 8 \in K => x.name \notin Removed
  <2>1. 8 \in K => {2, 7} \subseteq K
    BY RequiresOfThird DEF Closed
  <2> QED BY <1>10, <2>1, RemovedApart
<1>15. {x \in s : x.name \notin Gone(steps, Len(steps))} \union MadeBy(k) = SchemaAt(K \union {k})
  <2>1. CASE k = 8
    <3>1. Gone(steps, Len(steps)) = Removed
      BY <2>1, GoneOf
    <3> HIDE DEF steps
    <3> QED BY <1>12, <1>13, <1>14, <2>1, <3>1
  <2>2. CASE k # 8
    <3>1. Gone(steps, Len(steps)) = {}
      BY <2>2, GoneOf
    <3> HIDE DEF steps
    <3> QED BY <1>12, <1>13, <1>14, <2>2, <3>1
  <2> QED BY <2>1, <2>2
<1> QED BY <1>9, <1>11, <1>15 DEF s

-----------------------------------------------------------------------------
(* The migrations as batches.                                              *)
LEMMA VersionsAre == Versions = 1 .. 7 /\ Len(Migrations) = 7
BY DEF Versions, Migrations

LEMMA UpIs ==
  /\ Migrations[1].up = InitialUp
  /\ \A v \in 2 .. 7 : Migrations[v].up = Batch(v + 5) /\ v + 5 \in Batches
BY DEF Migrations, Migration, Batch, Batches

(* What a migration builds on, and what some migrations make of an empty   *)
(* database.                                                               *)
Needs(v) == IF v = 1 THEN {} ELSE IF v \in {3, 4} THEN {1, 2} ELSE {1}
Good(A) == A \subseteq Versions /\ \A v \in A : Needs(v) \subseteq A

BatchesOf(A) == {k \in Batches : (IF k <= 6 THEN 1 ELSE k - 5) \in A}
SchemaOf(A) == SchemaAt(BatchesOf(A))

LEMMA BatchesOfGood ==
  ASSUME NEW A, Good(A)
  PROVE  /\ Closed(BatchesOf(A))
         /\ \A k \in 1 .. 6 : k \in BatchesOf(A) <=> 1 \in A
         /\ \A v \in 2 .. 7 : v + 5 \in BatchesOf(A) <=> v \in A
         /\ 1 \notin A => BatchesOf(A) = {}
<1>1. /\ \A k \in 1 .. 6 : k \in BatchesOf(A) <=> 1 \in A
      /\ \A v \in 2 .. 7 : v + 5 \in BatchesOf(A) <=> v \in A
  BY DEF BatchesOf, Batches
<1>2. \A v \in A : v # 1 => 1 \in A
  BY DEF Good, Needs
<1>3. 1 \notin A => BatchesOf(A) = {}
  BY <1>2 DEF BatchesOf, Batches
<1>4. ASSUME NEW k \in BatchesOf(A) PROVE Requires(k) \subseteq BatchesOf(A)
  <2>1. k \in Batches /\ 1 \in A
    BY <1>3, <1>4 DEF BatchesOf
  <2>2. k \in {8, 9} => 2 \in A
    BY <1>4 DEF BatchesOf, Good, Needs
  <2>3. Requires(k) \subseteq 1 .. 6 \union (IF k \in {8, 9} THEN {7} ELSE {})
    BY <2>1 DEF Requires, Batches
  <2>4. 2 \in A => 7 \in BatchesOf(A)
    BY <1>1, 2 + 5 = 7
  <2> QED BY <1>1, <2>1, <2>2, <2>3, <2>4
<1>5. Closed(BatchesOf(A))
  BY <1>4 DEF Closed, BatchesOf
<1> QED BY <1>1, <1>3, <1>5

(* One migration more is one batch more, but for the first.                *)
LEMMA BatchesOfMore ==
  ASSUME NEW A, NEW v \in 2 .. 7
  PROVE  BatchesOf(A \union {v}) = BatchesOf(A) \union {v + 5}
BY DEF BatchesOf, Batches

LEMMA NeedsAre ==
  ASSUME NEW A, Good(A), NEW v \in 2 .. 7
  PROVE  /\ Good(A \union {v}) <=> Needs(v) \subseteq A
         /\ Needs(v) \subseteq A <=> Requires(v + 5) \subseteq BatchesOf(A)
<1>1. Good(A \union {v}) <=> Needs(v) \subseteq A
  BY VersionsAre DEF Good, Needs
<1>2. Requires(v + 5) = IF v \in {3, 4} THEN {2, 7} ELSE IF v = 2 THEN {1, 2}
                        ELSE IF v = 6 THEN {3} ELSE {5}
  <2>1. /\ Requires(7) = {1, 2} /\ Requires(8) = {2, 7} /\ Requires(9) = {2, 7}
        /\ Requires(10) = {5} /\ Requires(11) = {3} /\ Requires(12) = {5}
    BY DEF Requires
  <2>2. v \in {2, 3, 4, 5, 6, 7} /\ v + 5 \in {7, 8, 9, 10, 11, 12} /\ (v + 5) - 5 = v
    OBVIOUS
  <2> QED BY <2>1, <2>2
<1>3. /\ \A k \in 1 .. 6 : k \in BatchesOf(A) <=> 1 \in A
      /\ 7 \in BatchesOf(A) <=> 2 \in A
  BY BatchesOfGood, 2 + 5 = 7
<1>4. Needs(v) = IF v \in {3, 4} THEN {1, 2} ELSE {1}
  BY DEF Needs
<1> QED BY <1>1, <1>2, <1>3, <1>4

(* What fails.                                                             *)
LEMMA ExecuteFailed ==
  ASSUME NEW steps, Len(steps) \in Nat, NEW data
  PROVE  Execute(steps, Failed, data) = Failed
<1>1. PICK run : /\ Runs(run, steps, Failed, data, Len(steps))
                 /\ Execute(steps, Failed, data) = run[Len(steps)]
  BY ExecuteRuns
<1>2. run[0] = Failed
  BY <1>1, RunsStep
<1> QED BY <1>1, <1>2, FailureStays

LEMMA MissingBatch ==
  ASSUME NEW K, Closed(K), NEW k \in Batches, NEW n \in 1 .. Len(Batch(k)),
         Batch(k)[n].does = "create",
         NEW p \in {Batch(k)[n].object.owner} \union Batch(k)[n].object.refs, p # "public",
         PlaceOf(p) \notin K \union {k}, NEW data
  PROVE  Execute(Batch(k), SchemaAt(K), data) = Failed
<1>1. Len(Batch(k)) \in Nat /\ Placed(Batch(k), k)
  BY BatchesKinds, BatchesPlaced DEF Kinds, IsSequence
<1>2. p \notin Names(SchemaAt(K))
  BY NamePlaced
<1>3. \A m \in 1 .. n - 1 : Batch(k)[m].does \in Making => Batch(k)[m].object.name # p
  <2>1. \A m \in 1 .. n - 1 : m \in 1 .. Len(Batch(k))
    BY <1>1
  <2> QED BY <1>1, <2>1 DEF Placed
<1> QED BY <1>1, <1>2, <1>3, MissingFails

(* The first statement of a batch, and the first of the third migration    *)
(* that needs the second.                                                  *)
LEMMA FirstStatements ==
  /\ \A k \in 7 .. 12 :
       /\ 1 \in 1 .. Len(Batch(k)) /\ Batch(k)[1].does = "create"
       /\ Batch(k)[1].object.name \in NamesOf(k) \ Removed
  /\ "users" \in Batch(7)[1].object.refs
  /\ "users" = Batch(8)[1].object.owner
  /\ {"users", "otp_challenges"} \subseteq Batch(9)[1].object.refs
  /\ "outbox_events" = Batch(10)[1].object.owner
  /\ "contracts" = Batch(11)[1].object.owner
  /\ "outbox_events" = Batch(12)[1].object.owner
  /\ 9 \in 1 .. Len(Batch(8)) /\ Batch(8)[9].does = "create"
  /\ "otp_challenges" = Batch(8)[9].object.owner
<1>1. /\ 1 \in 1 .. Len(Batch(7)) /\ Batch(7)[1].does = "create"
      /\ Batch(7)[1].object.name \in NamesOf(7) \ Removed
      /\ "users" \in Batch(7)[1].object.refs
  BY DEF Batch, IdentityAuthUp, Object, Table, Part, Create, NamesOf, Removed
<1>2. /\ 1 \in 1 .. Len(Batch(8)) /\ Batch(8)[1].does = "create"
      /\ Batch(8)[1].object.name \in NamesOf(8) \ Removed
      /\ "users" = Batch(8)[1].object.owner
      /\ 9 \in 1 .. Len(Batch(8)) /\ Batch(8)[9].does = "create"
      /\ "otp_challenges" = Batch(8)[9].object.owner
  BY DEF Batch, EmailIdentityUp, Object, Part, Create, Update, Drop, DropIfExists,
         NamesOf, Removed
<1>3. /\ 1 \in 1 .. Len(Batch(9)) /\ Batch(9)[1].does = "create"
      /\ Batch(9)[1].object.name \in NamesOf(9) \ Removed
      /\ {"users", "otp_challenges"} \subseteq Batch(9)[1].object.refs
  BY DEF Batch, PasswordRecoveryUp, Object, Table, Part, Create, NamesOf, Removed
<1>4. /\ 1 \in 1 .. Len(Batch(10)) /\ Batch(10)[1].does = "create"
      /\ Batch(10)[1].object.name \in NamesOf(10) \ Removed
      /\ "outbox_events" = Batch(10)[1].object.owner
  BY DEF Batch, RecoveryOutboxUp, Object, Part, Create, NamesOf, Removed
<1>5. /\ 1 \in 1 .. Len(Batch(11)) /\ Batch(11)[1].does = "create"
      /\ Batch(11)[1].object.name \in NamesOf(11) \ Removed
      /\ "contracts" = Batch(11)[1].object.owner
  BY DEF Batch, ActiveLifecycleUp, Object, Part, Create, NamesOf, Removed
<1>6. /\ 1 \in 1 .. Len(Batch(12)) /\ Batch(12)[1].does = "create"
      /\ Batch(12)[1].object.name \in NamesOf(12) \ Removed
      /\ "outbox_events" = Batch(12)[1].object.owner
  BY DEF Batch, SupersessionUp, Object, Part, Create, NamesOf, Removed
<1> HIDE DEF Batch, NamesOf, Removed
<1> QED BY <1>1, <1>2, <1>3, <1>4, <1>5, <1>6

(* The first migration, batch by batch.                                    *)
LEMMA InitialUpBatches ==
  ASSUME NEW schema0, NEW data
  PROVE  Execute(InitialUp, schema0, data) =
           Execute(Batch(6), Execute(Batch(5), Execute(Batch(4),
             Execute(Batch(3), Execute(Batch(1) \o Batch(2), schema0, data), data), data), data), data)
<1>1. InitialUp = ((((Batch(1) \o Batch(2)) \o Batch(3)) \o Batch(4)) \o Batch(5)) \o Batch(6)
  BY DEF InitialUp, Batch, FunctionsUp
<1>2. /\ IsSequence(Batch(1)) /\ IsSequence(Batch(2)) /\ IsSequence(Batch(3))
      /\ IsSequence(Batch(4)) /\ IsSequence(Batch(5)) /\ IsSequence(Batch(6))
  BY BatchesKinds DEF Kinds, Batches
<1> DEFINE b2 == Batch(1) \o Batch(2)
           b3 == b2 \o Batch(3)
           b4 == b3 \o Batch(4)
           b5 == b4 \o Batch(5)
<1>3. IsSequence(b2)
  BY <1>2, ConcatIsSequence
<1>4. IsSequence(b3) /\ Execute(b3, schema0, data) = Execute(Batch(3), Execute(b2, schema0, data), data)
  <2> HIDE DEF b2
  <2> QED BY <1>2, <1>3, ConcatIsSequence, ExecuteConcat
<1>5. IsSequence(b4) /\ Execute(b4, schema0, data) = Execute(Batch(4), Execute(b3, schema0, data), data)
  <2> HIDE DEF b3
  <2> QED BY <1>2, <1>4, ConcatIsSequence, ExecuteConcat
<1>6. IsSequence(b5) /\ Execute(b5, schema0, data) = Execute(Batch(5), Execute(b4, schema0, data), data)
  <2> HIDE DEF b4
  <2> QED BY <1>2, <1>5, ConcatIsSequence, ExecuteConcat
<1>7. Execute(b5 \o Batch(6), schema0, data) = Execute(Batch(6), Execute(b5, schema0, data), data)
  <2> HIDE DEF b5
  <2> QED BY <1>2, <1>6, ExecuteConcat
<1>8. InitialUp = b5 \o Batch(6)
  BY <1>1
<1> HIDE DEF b5, b4, b3
<1> QED BY <1>4, <1>5, <1>6, <1>7, <1>8

LEMMA InitialUpIsSequence == IsSequence(InitialUp)
<1>1. InitialUp = ((((Batch(1) \o Batch(2)) \o Batch(3)) \o Batch(4)) \o Batch(5)) \o Batch(6)
  BY DEF InitialUp, Batch, FunctionsUp
<1>2. /\ IsSequence(Batch(1)) /\ IsSequence(Batch(2)) /\ IsSequence(Batch(3))
      /\ IsSequence(Batch(4)) /\ IsSequence(Batch(5)) /\ IsSequence(Batch(6))
  BY BatchesKinds DEF Kinds, Batches
<1> QED BY <1>1, <1>2, ConcatIsSequence

LEMMA ClosedMore ==
  ASSUME NEW K, Closed(K), NEW k \in Batches, Requires(k) \subseteq K
  PROVE  Closed(K \union {k})
BY DEF Closed

LEMMA FirstUp ==
  ASSUME NEW data, "nothing" \notin data
  PROVE  Execute(InitialUp, SchemaAt({}), data) = SchemaAt(1 .. 6)
<1>1. /\ Requires(1) = {} /\ Requires(2) = {} /\ Requires(3) = {2} /\ Requires(4) = {2, 3}
      /\ Requires(5) = {1, 2, 3} /\ Requires(6) = {1, 2, 3, 4, 5}
  BY DEF Requires
<1>2. \A k \in 1 .. 6 : k \in Batches /\ k # 8
  BY DEF Batches
<1>3. Closed({})
  BY DEF Closed
<1>4. Execute(Batch(1), SchemaAt({}), data) = SchemaAt({1}) /\ Closed({1})
  <2>1. {} \union {1} = {1}
    OBVIOUS
  <2> QED BY <1>1, <1>2, <1>3, <2>1, BatchUp, ClosedMore, 1 \notin {}, 1 \in 1 .. 6
<1>5. Execute(Batch(2), SchemaAt({1}), data) = SchemaAt({1, 2}) /\ Closed({1, 2})
  <2>1. {1} \union {2} = {1, 2} /\ 2 \in 1 .. 6 /\ 2 \notin {1} /\ Requires(2) \subseteq {1}
    BY <1>1
  <2> QED BY <1>2, <1>4, <2>1, BatchUp, ClosedMore
<1>6. Execute(Batch(3), SchemaAt({1, 2}), data) = SchemaAt({1, 2, 3}) /\ Closed({1, 2, 3})
  <2>1. {1, 2} \union {3} = {1, 2, 3} /\ 3 \in 1 .. 6 /\ 3 \notin {1, 2}
        /\ Requires(3) \subseteq {1, 2}
    BY <1>1
  <2> QED BY <1>2, <1>5, <2>1, BatchUp, ClosedMore
<1>7. Execute(Batch(4), SchemaAt({1, 2, 3}), data) = SchemaAt(1 .. 4) /\ Closed(1 .. 4)
  <2>1. {1, 2, 3} \union {4} = 1 .. 4 /\ 4 \in 1 .. 6 /\ 4 \notin {1, 2, 3}
            /\ Requires(4) \subseteq {1, 2, 3}
    BY <1>1
  <2> QED BY <1>2, <1>6, <2>1, BatchUp, ClosedMore
<1>8. Execute(Batch(5), SchemaAt(1 .. 4), data) = SchemaAt(1 .. 5) /\ Closed(1 .. 5)
  <2>1. 1 .. 4 \union {5} = 1 .. 5 /\ 5 \in 1 .. 6 /\ 5 \notin 1 .. 4
        /\ Requires(5) \subseteq 1 .. 4
    BY <1>1
  <2> QED BY <1>2, <1>7, <2>1, BatchUp, ClosedMore
<1>9. Execute(Batch(6), SchemaAt(1 .. 5), data) = SchemaAt(1 .. 6)
  <2>1. 1 .. 5 \union {6} = 1 .. 6 /\ 6 \in 1 .. 6 /\ 6 \notin 1 .. 5
        /\ Requires(6) \subseteq 1 .. 5
    BY <1>1
  <2> QED BY <1>2, <1>8, <2>1, BatchUp
<1>10. Execute(Batch(1) \o Batch(2), SchemaAt({}), data) = SchemaAt({1, 2})
  <2>1. IsSequence(Batch(1)) /\ IsSequence(Batch(2))
    BY <1>2, BatchesKinds DEF Kinds
  <2> QED BY <1>4, <1>5, <2>1, ExecuteConcat
<1> QED BY <1>6, <1>7, <1>8, <1>9, <1>10, InitialUpBatches

LEMMA FirstAgain ==
  ASSUME NEW schema0, "roles" \in Names(schema0), NEW data
  PROVE  Execute(InitialUp, schema0, data) = Failed
<1> DEFINE b2 == Batch(1) \o Batch(2)
<1>1. /\ Len(Batch(1)) = 2 /\ Len(Batch(2)) = 7
      /\ Batch(1)[1].does \in Making /\ Batch(1)[2].does \in Making
      /\ Batch(2)[1].does = "create" /\ Batch(2)[1].object.name = "roles"
  BY DEF Batch, FunctionsUp, IdentityTables, Making, Object, Replace, Table, Part, Create
<1>2. \A k \in 1 .. 6 : IsSequence(Batch(k)) /\ Len(Batch(k)) \in Nat
  <2>1. \A k \in 1 .. 6 : k \in Batches
    BY DEF Batches
  <2>2. \A k \in Batches : IsSequence(Batch(k))
    BY BatchesKinds DEF Kinds
  <2> QED BY <2>1, <2>2 DEF IsSequence
<1>3. /\ Len(b2) = 9 /\ b2[1] = Batch(1)[1] /\ b2[2] = Batch(1)[2] /\ b2[3] = Batch(2)[1]
  <2>1. Len(b2) = Len(Batch(1)) + Len(Batch(2)) /\ \A n \in 1 .. Len(Batch(1)) : b2[n] = Batch(1)[n]
    BY <1>2, ConcatIsSequence
  <2>2. \A n \in 1 .. Len(Batch(2)) : b2[Len(Batch(1)) + n] = Batch(2)[n]
    BY <1>2, ConcatIsSequence
  <2> HIDE DEF b2
  <2>3. b2[2 + 1] = Batch(2)[1]
    BY <1>1, <2>2, 1 \in 1 .. 7
  <2>4. 2 + 1 = 3 /\ 2 + 7 = 9 /\ 1 \in 1 .. 2 /\ 2 \in 1 .. 2
    OBVIOUS
  <2> QED BY <1>1, <2>1, <2>3, <2>4
<1> HIDE DEF b2
<1>4. Execute(b2, schema0, data) = Failed
  <2>1. 3 \in 1 .. Len(b2) /\ Len(b2) \in Nat /\ \A m \in 1 .. 3 - 1 : b2[m].does \in Making
    BY <1>1, <1>3
  <2>2. b2[3].does = "create" /\ b2[3].object.name \in Names(schema0)
    BY <1>1, <1>3
  <2> QED BY <2>1, <2>2, ExistingFails
<1> QED BY <1>2, <1>4, InitialUpBatches, ExecuteFailed, 3 \in 1 .. 6, 4 \in 1 .. 6, 5 \in 1 .. 6,
       6 \in 1 .. 6 DEF b2

(* What a migration does to the schema of any others.                      *)
LEMMA Up ==
  ASSUME NEW A, Good(A), NEW v \in Versions, NEW data, "nothing" \notin data
  PROVE  Execute(Migrations[v].up, SchemaOf(A), data) =
           IF v \notin A /\ Needs(v) \subseteq A /\ ~ (v = 3 /\ "emails" \in data)
             THEN SchemaOf(A \union {v}) ELSE Failed
<1> DEFINE K == BatchesOf(A)
<1>1. /\ Closed(K) /\ \A k \in 1 .. 6 : k \in K <=> 1 \in A
      /\ \A w \in 2 .. 7 : w + 5 \in K <=> w \in A
      /\ 1 \notin A => K = {}
  BY BatchesOfGood
<1> HIDE DEF K
<1>2. CASE v = 1
  <2>1. Migrations[v].up = InitialUp /\ Needs(v) = {}
    BY <1>2, UpIs DEF Needs
  <2>2. CASE 1 \in A
    <3>1. "roles" \in Names(SchemaAt(K))
      <4>1. 2 \in K /\ "roles" \in NamesOf(2) /\ "roles" \notin Removed
        BY <1>1, <2>2 DEF NamesOf, Removed
      <4> QED BY <1>1, <4>1, NameThere
    <3> QED BY <1>2, <2>1, <2>2, <3>1, FirstAgain DEF SchemaOf, K
  <2>3. CASE 1 \notin A
    <3>1. A = {}
      BY <2>3 DEF Good, Needs
    <3>2. SchemaOf(A) = SchemaAt({}) /\ SchemaOf(A \union {v}) = SchemaAt(1 .. 6)
      <4>1. BatchesOf({1}) = 1 .. 6
        BY DEF BatchesOf, Batches
      <4> QED BY <1>1, <1>2, <2>3, <3>1, <4>1 DEF SchemaOf, K
    <3> QED BY <1>2, <2>1, <2>3, <3>2, FirstUp
  <2> QED BY <2>2, <2>3
<1>3. CASE v \in 2 .. 7
  <2>0. PICK k \in 7 .. 12 : k = v + 5
    BY <1>3
  <2>1. /\ Migrations[v].up = Batch(k) /\ k \in Batches
        /\ k \in K <=> v \in A
        /\ k = 8 <=> v = 3
    <3>1. Migrations[v].up = Batch(k) /\ k \in Batches
      BY <1>3, <2>0, UpIs
    <3>2. k \in K <=> v \in A
      BY <1>1, <1>3, <2>0
    <3> QED BY <1>3, <2>0, <3>1, <3>2
  <2>2. Needs(v) \subseteq A <=> Requires(k) \subseteq K
    BY <1>3, <2>0, NeedsAre DEF K
  <2>3. Len(Batch(k)) \in Nat
    BY <2>1, BatchesKinds DEF Kinds, IsSequence
  <2>4. SchemaOf(A) = SchemaAt(K) /\ SchemaOf(A \union {v}) = SchemaAt(K \union {k})
    BY <1>3, <2>0, BatchesOfMore DEF SchemaOf, K
  <2>5. /\ 1 \in 1 .. Len(Batch(k)) /\ Batch(k)[1].does = "create"
        /\ Batch(k)[1].object.name \in NamesOf(k) \ Removed
    BY <2>1, FirstStatements
  <2>6. CASE v \in A
    <3>1. Batch(k)[1].object.name \in Names(SchemaAt(K))
      BY <1>1, <2>1, <2>5, <2>6, NameThere
    <3>2. Execute(Batch(k), SchemaAt(K), data) = Failed
      <4>1. \A m \in 1 .. 1 - 1 : Batch(k)[m].does \in Making
        OBVIOUS
      <4> QED BY <2>3, <2>5, <3>1, <4>1, ExistingFails
    <3> QED BY <2>1, <2>4, <2>6, <3>2
  <2>7. CASE v = 3 /\ "emails" \in data
    <3>1. /\ 3 \in 1 .. Len(Batch(8)) /\ Batch(8)[3].does = "update"
          /\ Batch(8)[3].unless = "emails"
      BY DEF Batch, EmailIdentityUp, Update, Drop, DropIfExists, Object, Part, Create
    <3>2. Execute(Batch(8), SchemaAt(K), data) = Failed
      BY <2>1, <2>3, <2>7, <3>1, ClashFails
    <3> QED BY <2>1, <2>4, <2>7, <3>2
  <2>8. CASE ~ (Needs(v) \subseteq A) /\ v \notin A
    <3>1. CASE 1 \notin A
      <4>1. PICK p \in {Batch(k)[1].object.owner} \union Batch(k)[1].object.refs :
              p \in {"users", "outbox_events", "contracts"}
        <5>1. CASE k \in {7, 9}
          BY <5>1, FirstStatements
        <5>2. CASE k \in {8, 10, 11, 12}
          BY <5>2, FirstStatements
        <5>3. k \in {7, 9} \/ k \in {8, 10, 11, 12}
          OBVIOUS
        <5> QED BY <5>1, <5>2, <5>3
      <4>2. p # "public" /\ PlaceOf(p) \notin K \union {k}
        <5>1. PlaceOf(p) \in {2, 3, 5} /\ p # "public"
          BY <4>1 DEF PlaceOf, NamesOf
        <5> QED BY <1>1, <2>1, <3>1, <5>1
      <4>3. Execute(Batch(k), SchemaAt(K), data) = Failed
        <5> QED BY <1>1, <2>1, <2>5, <4>2, MissingBatch
      <4> QED BY <2>1, <2>4, <2>8, <4>3
    <3>2. CASE 1 \in A
      <4>1. v \in {3, 4} /\ 2 \notin A /\ 7 \notin K /\ k \in {8, 9}
        <5>1. v \in {3, 4} /\ 2 \notin A
          BY <1>3, <2>8, <3>2 DEF Needs
        <5> QED BY <1>1, <2>0, <5>1, 2 + 5 = 7, 3 + 5 = 8, 4 + 5 = 9, 2 \in 2 .. 7
      <4>2. PlaceOf("otp_challenges") = 7 /\ "otp_challenges" # "public"
        BY DEF PlaceOf, NamesOf
      <4>3. \E n \in 1 .. Len(Batch(k)) : /\ Batch(k)[n].does = "create"
              /\ "otp_challenges" \in {Batch(k)[n].object.owner} \union Batch(k)[n].object.refs
        BY <2>5, <4>1, FirstStatements
      <4>4. Execute(Batch(k), SchemaAt(K), data) = Failed
        <5>1. 7 \notin K \union {k}
          BY <4>1
        <5> QED BY <1>1, <2>1, <4>2, <4>3, <5>1, MissingBatch
      <4> QED BY <2>1, <2>4, <2>8, <4>4
    <3> QED BY <3>1, <3>2
  <2>9. CASE v \notin A /\ Needs(v) \subseteq A /\ ~ (v = 3 /\ "emails" \in data)
    <3>1. Execute(Batch(k), SchemaAt(K), data) = SchemaAt(K \union {k})
      <4> QED BY <1>1, <2>1, <2>2, <2>9, BatchUp
    <3> QED BY <2>1, <2>4, <2>9, <3>1
  <2> QED BY <2>6, <2>7, <2>8, <2>9
<1> QED BY <1>2, <1>3, VersionsAre

-----------------------------------------------------------------------------
(* The way down.  A family has no more members than Family looks for.      *)
LEMMA FamilyClosed ==
  ASSUME NEW K, Closed(K), NEW d, d # "public", NEW x \in SchemaAt(K),
         x.owner \in Family(SchemaAt(K), d)
  PROVE  x.name \in Family(SchemaAt(K), d)
<1> DEFINE s == SchemaAt(K)
<1>1. \A y \in s : Shaped(y)
  BY SchemaShape
<1> HIDE DEF s
<1>2. CASE x.owner = d
  BY <1>2, FamilyIs DEF s
<1>3. CASE \E y \in s : y.name = x.owner /\ y.owner = d
  BY <1>3, FamilyIs DEF s
<1>4. ASSUME NEW y \in s, y.name = x.owner, NEW z \in s, z.name = y.owner, z.owner = d
      PROVE  FALSE
  <2>1. y.name # "public" /\ z.name # "public"
    BY <1>1 DEF Shaped
  <2>2. y.name \in Parents \union Columns
    BY <1>1, <1>4, <2>1 DEF Shaped, s
  <2>3. y.owner \in Parents
    BY <1>1, <1>4, <2>1, <2>2 DEF Shaped
  <2> QED BY <1>1, <1>4, <2>3 DEF Shaped
<1> QED BY <1>2, <1>3, <1>4, FamilyIs DEF s

LEMMA FamilyPlaced ==
  ASSUME NEW K, Closed(K), NEW k \in 7 .. 12, \A j \in K : k \notin Requires(j),
         NEW d, PlaceOf(d) = k, NEW name \in Family(SchemaAt(K), d)
  PROVE  PlaceOf(name) = k
<1> DEFINE s == SchemaAt(K)
<1>1. PlaceOf("public") = 6
  BY DEF PlaceOf, NamesOf
<1>2. ASSUME NEW x \in s, PlaceOf(x.owner) = k PROVE PlaceOf(x.name) = k
  BY <1>1, <1>2, SchemaShape
<1> HIDE DEF s
<1>3. CASE name = d
  BY <1>3
<1>4. CASE name # d
  <2>1. PICK x \in s :
          /\ x.name = name
          /\ x.owner = d \/ \E y \in s : y.name = x.owner /\ y.owner = d
    BY <1>4, FamilyIs DEF s
  <2> QED BY <1>2, <2>1
<1> QED BY <1>3, <1>4

(* The names to drop are what a batch has made, or own it.                 *)
Covers(names, k) ==
  /\ IsSequence(names)
  /\ \A n \in 1 .. Len(names) : PlaceOf(names[n]) = k
  /\ \A n \in 1 .. Len(Batch(k)) :
       /\ {names[m] : m \in 1 .. Len(names)} \intersect
            {Batch(k)[n].object.name, Batch(k)[n].object.owner} # {}
       /\ \A p \in Batch(k)[n].object.refs : PlaceOf(p) # k

(* Dropping what a batch has made, when no other requires it.              *)
LEMMA LastDown ==
  ASSUME NEW K, Closed(K), NEW k \in 7 .. 12, k # 8, \A j \in K : k \notin Requires(j),
         NEW names, Covers(names, k), NEW data
  PROVE  Execute(DropAll(names), SchemaAt(K), data) = SchemaAt(K \ {k})
<1> DEFINE s == SchemaAt(K)
           N == Len(names)
<1>1. IsSequence(names) /\ \A n \in 1 .. N : PlaceOf(names[n]) = k
  BY DEF Covers
<1>2. PlaceOf("public") = 6
  BY DEF PlaceOf, NamesOf
<1>3. ASSUME NEW x \in MadeBy(k)
       PROVE  /\ \E n \in 1 .. N : names[n] \in {x.name, x.owner}
              /\ \A p \in x.refs : PlaceOf(p) # k
  <2>1. PICK n \in 1 .. Len(Batch(k)) : Batch(k)[n].object = x
    BY MadeIs
  <2> QED BY <2>1 DEF Covers
<1>4. "failed" \notin Names(s) /\ \A x \in s : x.owner \in Names(s)
  BY NothingFailed, SchemaShape
<1>5. \A n \in 0 .. N : \A name \in Families(s, names, n) : PlaceOf(name) = k
  <2>1. N \in Nat
    BY <1>1 DEF IsSequence
  <2>2. ASSUME NEW n \in 0 .. N, NEW name \in Families(s, names, n) PROVE PlaceOf(name) = k
    <3>1. PICK m \in 1 .. n : name \in Family(s, names[m])
      BY DEF Families
    <3>2. m \in 1 .. N
      BY <2>1
    <3> QED BY <1>1, <3>1, <3>2, FamilyPlaced
  <2> QED BY <2>2
<1>6. \A x \in s : x.refs \subseteq {p \in x.refs : PlaceOf(p) # k}
  <2>1. ASSUME NEW x \in s, NEW p \in x.refs, PlaceOf(p) = k PROVE FALSE
    <3>1. PICK j \in K : j \in Batches /\ x \in MadeBy(j)
      BY InSchema
    <3>2. PlaceOf(x.name) = j
      BY <3>1, MadeShape
    <3>3. p = "public" \/ PlaceOf(p) = j \/ PlaceOf(p) \in Requires(j)
      BY <3>2, SchemaShape
    <3>4. j # k
      BY <1>3, <2>1, <3>1
    <3> QED BY <1>2, <2>1, <3>3, <3>4
  <2> QED BY <2>1
<1>7. ASSUME NEW n \in 1 .. N PROVE DropsFamily(s, names, n)
  <2>1. names[n] # "public"
    BY <1>1, <1>2
  <2>2. \A x \in s : x.owner \in Family(s, names[n]) => x.name \in Family(s, names[n])
    BY <2>1, FamilyClosed
  <2>3. n \in 0 .. N
    OBVIOUS
  <2>4. \A x \in s : x.refs \intersect Families(s, names, n) = {}
    BY <1>5, <1>6, <2>3
  <2> QED BY <2>1, <2>2, <2>4 DEF DropsFamily
<1>8. Execute(DropAll(names), s, data) = Left(s, names, N)
  BY <1>1, <1>4, <1>7, Drops
<1>9. ASSUME NEW x \in s PROVE x.name \in Families(s, names, N) <=> PlaceOf(x.name) = k
  <2>1. N \in 0 .. N
    BY <1>1 DEF IsSequence
  <2>2. ASSUME PlaceOf(x.name) = k PROVE x.name \in Families(s, names, N)
    <3>1. PICK j \in K : j \in Batches /\ x \in MadeBy(j)
      BY InSchema
    <3>2. PlaceOf(x.name) = j
      BY <3>1, MadeShape
    <3>3. PICK n \in 1 .. N : names[n] \in {x.name, x.owner}
      BY <1>3, <2>2, <3>1, <3>2
    <3>4. x.name \in Family(s, names[n])
      BY <3>3, FamilyIs
    <3> QED BY <3>4 DEF Families
  <2> QED BY <1>5, <2>1, <2>2
<1>10. Left(s, names, N) = {x \in s : PlaceOf(x.name) # k}
  BY <1>9 DEF Left
<1>11. {x \in s : PlaceOf(x.name) # k} = SchemaAt(K \ {k})
  <2>1. \A j \in K : \A x \in MadeBy(j) : PlaceOf(x.name) = j
    BY MadeShape DEF Closed
  <2>2. \A x : x \in s <=> (\E j \in K : x \in MadeBy(j)) /\ (8 \in K => x.name \notin Removed)
    BY DEF SchemaAt
  <2>3. \A x : x \in SchemaAt(K \ {k}) <=> /\ \E j \in K : j # k /\ x \in MadeBy(j)
                                           /\ 8 \in K => x.name \notin Removed
    BY DEF SchemaAt
  <2> HIDE DEF s
  <2>4. ASSUME NEW x \in s, PlaceOf(x.name) # k PROVE x \in SchemaAt(K \ {k})
    <3>1. PICK j \in K : x \in MadeBy(j)
      BY <2>2
    <3>2. j # k
      BY <2>1, <2>4, <3>1
    <3> QED BY <2>2, <2>3, <3>1, <3>2
  <2>5. ASSUME NEW x \in SchemaAt(K \ {k}) PROVE x \in s /\ PlaceOf(x.name) # k
    <3>1. PICK j \in K : j # k /\ x \in MadeBy(j)
      BY <2>3
    <3> QED BY <2>1, <2>2, <2>3, <3>1
  <2> QED BY <2>4, <2>5
<1> QED BY <1>8, <1>10, <1>11 DEF s

LEMMA IdentityAuthDownIs ==
  \E names : Covers(names, 7) /\ Migrations[2].down = DropAll(names)
<1> DEFINE names == <<"auth_throttle_buckets", "auth_sessions", "otp_challenges",
                   "social_identities">>
           T == {"auth_throttle_buckets", "auth_sessions", "otp_challenges",
                 "social_identities"}
<1>1. Migrations[2].down = DropAll(names)
  BY DEF Migrations, Migration, IdentityAuthDown
<1>2. IsSequence(names)
  BY DEF IsSequence
<1>3. \A n \in 1 .. Len(names) : PlaceOf(names[n]) = 7
  BY DEF PlaceOf, NamesOf
<1>4. {names[m] : m \in 1 .. Len(names)} = T
  OBVIOUS
<1>5. \A n \in 1 .. Len(Batch(7)) :
        \/ Batch(7)[n].object.name \in T
        \/ Batch(7)[n].object.owner \in T
  BY DEF Batch, IdentityAuthUp, Object, Table, Part, Create
<1>6. \A n \in 1 .. Len(Batch(7)) : \A p \in Batch(7)[n].object.refs : PlaceOf(p) # 7
  BY DEF Batch, IdentityAuthUp, Object, Table, Part, Create, PlaceOf, NamesOf
<1> HIDE DEF names, T
<1>7. Covers(names, 7)
  BY <1>2, <1>3, <1>4, <1>5, <1>6 DEF Covers, T
<1> QED BY <1>1, <1>7

LEMMA PasswordRecoveryDownIs ==
  \E names : Covers(names, 9) /\ Migrations[4].down = DropAll(names)
<1> DEFINE names == <<"password_reset_tokens">>
           T == {"password_reset_tokens"}
<1>1. Migrations[4].down = DropAll(names)
  BY DEF Migrations, Migration, PasswordRecoveryDown, DropAll
<1>2. IsSequence(names)
  BY DEF IsSequence
<1>3. \A n \in 1 .. Len(names) : PlaceOf(names[n]) = 9
  BY DEF PlaceOf, NamesOf
<1>4. {names[m] : m \in 1 .. Len(names)} = T
  OBVIOUS
<1>5. \A n \in 1 .. Len(Batch(9)) :
        \/ Batch(9)[n].object.name \in T
        \/ Batch(9)[n].object.owner \in T
  BY DEF Batch, PasswordRecoveryUp, Object, Table, Part, Create
<1>6. \A n \in 1 .. Len(Batch(9)) : \A p \in Batch(9)[n].object.refs : PlaceOf(p) # 9
  BY DEF Batch, PasswordRecoveryUp, Object, Table, Part, Create, PlaceOf, NamesOf
<1> HIDE DEF names, T
<1>7. Covers(names, 9)
  BY <1>2, <1>3, <1>4, <1>5, <1>6 DEF Covers, T
<1> QED BY <1>1, <1>7

LEMMA RecoveryOutboxDownIs ==
  \E names : Covers(names, 10) /\ Migrations[5].down = DropAll(names)
<1> DEFINE names == <<"idx_outbox_recovery_claim", "outbox_events.lock_token",
                   "outbox_events.locked_at">>
           T == {"idx_outbox_recovery_claim", "outbox_events.lock_token",
                 "outbox_events.locked_at"}
<1>1. Migrations[5].down = DropAll(names)
  BY DEF Migrations, Migration, RecoveryOutboxDown
<1>2. IsSequence(names)
  BY DEF IsSequence
<1>3. \A n \in 1 .. Len(names) : PlaceOf(names[n]) = 10
  BY DEF PlaceOf, NamesOf
<1>4. {names[m] : m \in 1 .. Len(names)} = T
  OBVIOUS
<1>5. \A n \in 1 .. Len(Batch(10)) :
        \/ Batch(10)[n].object.name \in T
        \/ Batch(10)[n].object.owner \in T
  BY DEF Batch, RecoveryOutboxUp, Object, Part, Create
<1>6. \A n \in 1 .. Len(Batch(10)) : \A p \in Batch(10)[n].object.refs : PlaceOf(p) # 10
  BY DEF Batch, RecoveryOutboxUp, Object, Part, Create, PlaceOf, NamesOf
<1> HIDE DEF names, T
<1>7. Covers(names, 10)
  BY <1>2, <1>3, <1>4, <1>5, <1>6 DEF Covers, T
<1> QED BY <1>1, <1>7

LEMMA ActiveLifecycleDownIs ==
  \E names : Covers(names, 11) /\ Migrations[6].down = DropAll(names)
<1> DEFINE names == <<"chk_contracts_active_lifecycle">>
           T == {"chk_contracts_active_lifecycle"}
<1>1. Migrations[6].down = DropAll(names)
  BY DEF Migrations, Migration, ActiveLifecycleDown, DropAll
<1>2. IsSequence(names)
  BY DEF IsSequence
<1>3. \A n \in 1 .. Len(names) : PlaceOf(names[n]) = 11
  BY DEF PlaceOf, NamesOf
<1>4. {names[m] : m \in 1 .. Len(names)} = T
  OBVIOUS
<1>5. \A n \in 1 .. Len(Batch(11)) :
        \/ Batch(11)[n].object.name \in T
        \/ Batch(11)[n].object.owner \in T
  BY DEF Batch, ActiveLifecycleUp, Object, Part, Create
<1>6. \A n \in 1 .. Len(Batch(11)) : \A p \in Batch(11)[n].object.refs : PlaceOf(p) # 11
  BY DEF Batch, ActiveLifecycleUp, Object, Part, Create, PlaceOf, NamesOf
<1> HIDE DEF names, T
<1>7. Covers(names, 11)
  BY <1>2, <1>3, <1>4, <1>5, <1>6 DEF Covers, T
<1> QED BY <1>1, <1>7

LEMMA SupersessionDownIs ==
  \E names : Covers(names, 12) /\ Migrations[7].down = DropAll(names)
<1> DEFINE names == <<"idx_outbox_registration_unsuperseded", "outbox_events.superseded_at">>
           T == {"idx_outbox_registration_unsuperseded", "outbox_events.superseded_at"}
<1>1. Migrations[7].down = DropAll(names)
  BY DEF Migrations, Migration, SupersessionDown
<1>2. IsSequence(names)
  BY DEF IsSequence
<1>3. \A n \in 1 .. Len(names) : PlaceOf(names[n]) = 12
  BY DEF PlaceOf, NamesOf
<1>4. {names[m] : m \in 1 .. Len(names)} = T
  OBVIOUS
<1>5. \A n \in 1 .. Len(Batch(12)) :
        \/ Batch(12)[n].object.name \in T
        \/ Batch(12)[n].object.owner \in T
  BY DEF Batch, SupersessionUp, Object, Part, Create
<1>6. \A n \in 1 .. Len(Batch(12)) : \A p \in Batch(12)[n].object.refs : PlaceOf(p) # 12
  BY DEF Batch, SupersessionUp, Object, Part, Create, PlaceOf, NamesOf
<1> HIDE DEF names, T
<1>7. Covers(names, 12)
  BY <1>2, <1>3, <1>4, <1>5, <1>6 DEF Covers, T
<1> QED BY <1>1, <1>7

(* The first statements of a batch.                                        *)
Starts(a, t, k) == IsSequence(a) /\ Len(a) = k /\ \A n \in 1 .. k : a[n] = t[n]
Follows(b, t, k, m) == IsSequence(b) /\ Len(b) = m /\ \A n \in 1 .. m : b[n] = t[k + n]

LEMMA StartsMore ==
  ASSUME NEW a, NEW b, NEW t, NEW k \in Nat, NEW m \in Nat, Starts(a, t, k), Follows(b, t, k, m)
  PROVE  Starts(a \o b, t, k + m)
<1> DEFINE c == a \o b
<1>1. Len(a) = k /\ Len(b) = m /\ IsSequence(a) /\ IsSequence(b)
  BY DEF Starts, Follows
<1>2. /\ IsSequence(c) /\ Len(c) = k + m
      /\ \A n \in 1 .. k : c[n] = a[n]
      /\ \A n \in 1 .. m : c[k + n] = b[n]
  <2>1. /\ IsSequence(c) /\ Len(c) = Len(a) + Len(b)
        /\ \A n \in 1 .. Len(a) : c[n] = a[n]
        /\ \A n \in 1 .. Len(b) : c[Len(a) + n] = b[n]
    BY <1>1, ConcatIsSequence
  <2> HIDE DEF c
  <2> QED BY <1>1, <2>1
<1> HIDE DEF c
<1>3. ASSUME NEW n \in 1 .. k + m PROVE c[n] = t[n]
  <2>1. CASE n \in 1 .. k
    BY <1>2, <2>1 DEF Starts
  <2>2. CASE n \notin 1 .. k
    <3>1. PICK i \in 1 .. m : n = k + i
      <4>1. n - k \in 1 .. m /\ n = k + (n - k)
        BY <2>2
      <4> QED BY <4>1
    <3> QED BY <1>2, <3>1 DEF Follows
  <2> QED BY <2>1, <2>2
<1> QED BY <1>2, <1>3 DEF Starts, c

(* The down of the third migration, statement by statement.                *)
ColumnDrops == DropAll(<<
  "idx_otp_challenges_email_created", "uq_otp_challenges_active_email",
  "chk_otp_challenges_email_normalized", "chk_otp_challenges_recipient",
  "otp_challenges.verified_at", "otp_challenges.email">>)
PhoneAgain == << Part("otp_challenges.phone.not_null", "otp_challenges") >>
UserDrops == DropAll(<<"idx_users_phone_contact", "uq_users_legacy_phone_login",
                       "chk_users_email_normalized", "users.phone_login_enabled">>)
UsersAgain == << Part("users.display_name.not_null", "users"),
                 UniqueOver("uq_users_phone", "users", "phones") >>

ThirdDown == <<
  DropIfExists("idx_otp_challenges_email_created"),
  DropIfExists("uq_otp_challenges_active_email"),
  DropIfExists("chk_otp_challenges_email_normalized"),
  DropIfExists("chk_otp_challenges_recipient"),
  DropIfExists("otp_challenges.verified_at"), DropIfExists("otp_challenges.email"),
  Part("otp_challenges.phone.not_null", "otp_challenges"),
  DropIfExists("idx_users_phone_contact"), DropIfExists("uq_users_legacy_phone_login"),
  DropIfExists("chk_users_email_normalized"), DropIfExists("users.phone_login_enabled"),
  Part("users.display_name.not_null", "users"),
  UniqueOver("uq_users_phone", "users", "phones") >>

LEMMA ThirdDownIs == Migrations[3].down = ThirdDown
<1>1. Migrations[3].down = ((ColumnDrops \o PhoneAgain) \o UserDrops) \o UsersAgain
  BY DEF Migrations, Migration, EmailIdentityDown, ColumnDrops, PhoneAgain, UserDrops, UsersAgain
<1>2. Starts(ColumnDrops, ThirdDown, 6)
  BY DEF Starts, ThirdDown, ColumnDrops, DropAll, IsSequence
<1>3. Follows(PhoneAgain, ThirdDown, 6, 1)
  BY DEF Follows, ThirdDown, PhoneAgain, IsSequence
<1>4. Follows(UserDrops, ThirdDown, 7, 4)
  BY DEF Follows, ThirdDown, UserDrops, DropAll, IsSequence
<1>5. Follows(UsersAgain, ThirdDown, 11, 2)
  BY DEF Follows, ThirdDown, UsersAgain, IsSequence
<1>6. Len(ThirdDown) = 13 /\ IsSequence(ThirdDown)
  BY DEF ThirdDown, IsSequence
<1> DEFINE b2 == ColumnDrops \o PhoneAgain
           b3 == b2 \o UserDrops
           b4 == b3 \o UsersAgain
<1>7. Starts(b2, ThirdDown, 7)
  BY <1>2, <1>3, StartsMore, 6 \in Nat, 1 \in Nat, 6 + 1 = 7
<1> HIDE DEF b2
<1>8. Starts(b3, ThirdDown, 11)
  BY <1>4, <1>7, StartsMore, 7 \in Nat, 4 \in Nat, 7 + 4 = 11
<1> HIDE DEF b3
<1>9. Starts(b4, ThirdDown, 13)
  BY <1>5, <1>8, StartsMore, 11 \in Nat, 2 \in Nat, 11 + 2 = 13
<1> HIDE DEF b4
<1>10. b4 = ThirdDown
  BY <1>6, <1>9 DEF Starts, IsSequence
<1> QED BY <1>1, <1>10 DEF b2, b3, b4

(* What the third migration drops, as its down makes it again.             *)
Again == {Object("otp_challenges.phone.not_null", "otp_challenges", {}),
          Object("users.display_name.not_null", "users", {}),
          Object("uq_users_phone", "users", {})}

LEMMA AgainIs ==
  /\ \A k \in Batches : \A x \in MadeBy(k) : x.name \in Removed => x \in Again
  /\ \A x \in Again : x.name \in Removed /\ (x \in MadeBy(2) \/ x \in MadeBy(7))
<1>1. /\ 3 \in 1 .. Len(Batch(2)) /\ Batch(2)[3].does \in Making
         /\ Batch(2)[3].object = Object("uq_users_phone", "users", {})
      /\ 4 \in 1 .. Len(Batch(2)) /\ Batch(2)[4].does \in Making
         /\ Batch(2)[4].object = Object("users.display_name.not_null", "users", {})
  BY DEF Batch, IdentityTables, Object, Table, Part, Create, Making
<1>2. /\ 3 \in 1 .. Len(Batch(7)) /\ Batch(7)[3].does \in Making
      /\ Batch(7)[3].object = Object("otp_challenges.phone.not_null", "otp_challenges", {})
  BY DEF Batch, IdentityAuthUp, Object, Table, Part, Create, Making
<1>3. /\ Object("uq_users_phone", "users", {}) \in MadeBy(2)
      /\ Object("users.display_name.not_null", "users", {}) \in MadeBy(2)
      /\ Object("otp_challenges.phone.not_null", "otp_challenges", {}) \in MadeBy(7)
  <2>1. Batch(2)[3].object \in MadeBy(2) /\ Batch(2)[4].object \in MadeBy(2)
    BY <1>1, MadeAt
  <2>2. Batch(7)[3].object \in MadeBy(7)
    BY <1>2, MadeAt
  <2> QED BY <1>1, <1>2, <2>1, <2>2
<1>4. \A x \in Again : x.name \in Removed
  BY DEF Again, Removed, Object
<1>5. \A n \in 1 .. Len(Batch(2)) : Batch(2)[n].object.name \in Removed =>
          Batch(2)[n].object \in Again
  BY DEF Batch, IdentityTables, Object, Table, Part, Create, Removed, Again
<1>6. \A n \in 1 .. Len(Batch(7)) : Batch(7)[n].object.name \in Removed =>
          Batch(7)[n].object \in Again
  BY DEF Batch, IdentityAuthUp, Object, Table, Part, Create, Removed, Again
<1>7. ASSUME NEW k \in Batches, NEW x \in MadeBy(k), x.name \in Removed PROVE x \in Again
  <2>1. k \in {2, 7}
    BY <1>7, MadeShape, RemovedApart
  <2>2. PICK n \in 1 .. Len(Batch(k)) : Batch(k)[n].object = x
    BY MadeIs
  <2> QED BY <1>5, <1>6, <1>7, <2>1, <2>2
<1> QED BY <1>3, <1>4, <1>7 DEF Again

(* What belongs to what in the third migration.                            *)
EmailParts == {"chk_otp_challenges_recipient", "chk_otp_challenges_email_normalized",
               "uq_otp_challenges_active_email", "idx_otp_challenges_email_created"}

LEMMA ThirdOwners ==
  ASSUME NEW K, Closed(K), NEW x \in SchemaAt(K), NEW p \in {x.owner} \union x.refs, PlaceOf(p) = 8
  PROVE  \/ p = "users.phone_login_enabled" /\ x.name = "uq_users_legacy_phone_login"
         \/ p = "otp_challenges.email" /\ x.name \in EmailParts
<1>1. PICK k \in K : k \in Batches /\ x \in MadeBy(k)
  BY InSchema
<1>2. PlaceOf("public") # 8 /\ \A j \in Batches : 8 \notin Requires(j)
  BY DEF PlaceOf, NamesOf, Requires, Batches
<1>3. k = 8
  BY <1>1, <1>2, MadeShape
<1>4. PICK n \in 1 .. Len(Batch(8)) : Batch(8)[n].does \in Making /\ Batch(8)[n].object = x
  BY <1>1, <1>3, MadeIs
<1>5. PlaceOf("users") # 8 /\ PlaceOf("otp_challenges") # 8
  BY DEF PlaceOf, NamesOf
<1>6. \A i \in 1 .. Len(Batch(8)) : Batch(8)[i].does \in Making =>
        /\ Batch(8)[i].object.refs = {}
        /\ \/ Batch(8)[i].object.owner \in {"users", "otp_challenges"}
           \/ /\ Batch(8)[i].object.owner = "users.phone_login_enabled"
              /\ Batch(8)[i].object.name = "uq_users_legacy_phone_login"
           \/ /\ Batch(8)[i].object.owner = "otp_challenges.email"
              /\ Batch(8)[i].object.name \in EmailParts
  BY DEF Batch, EmailIdentityUp, Object, Part, Create, Update, Drop, DropIfExists, Making,
         EmailParts
<1> QED BY <1>4, <1>5, <1>6

(* The statements of that down: what is dropped before what it belongs to, *)
(* and what is made.                                                       *)
LEMMA ThirdDownStatements ==
  /\ Len(ThirdDown) = 13
  /\ \A n \in 1 .. 13 :
       /\ Other(ThirdDown[n]) <=> n \notin {7, 12, 13}
       /\ Other(ThirdDown[n]) => /\ ThirdDown[n].does = "drop_if_exists"
                                 /\ ThirdDown[n].name \in NamesOf(8)
       /\ n \in {7, 12, 13} => /\ ThirdDown[n].does = "create"
                               /\ ThirdDown[n].unless = IF n = 13 THEN "phones" ELSE "nothing"
       /\ ThirdDown[n].does \notin Making \/ n \in {7, 12, 13}
       /\ ThirdDown[n].does # "update"
       /\ Other(ThirdDown[n]) /\ ThirdDown[n].name = "otp_challenges.email" => n = 6
       /\ Other(ThirdDown[n]) /\ ThirdDown[n].name = "users.phone_login_enabled" => n = 11
  /\ ThirdDown[7].object = Object("otp_challenges.phone.not_null", "otp_challenges", {})
  /\ ThirdDown[12].object = Object("users.display_name.not_null", "users", {})
  /\ ThirdDown[13].object = Object("uq_users_phone", "users", {})
  /\ EmailParts \subseteq {ThirdDown[1].name, ThirdDown[2].name, ThirdDown[3].name, ThirdDown[4].name}
  /\ ThirdDown[9].name = "uq_users_legacy_phone_login"
  /\ NamesOf(8) = {ThirdDown[1].name, ThirdDown[2].name, ThirdDown[3].name, ThirdDown[4].name,
                   ThirdDown[5].name, ThirdDown[6].name, ThirdDown[8].name, ThirdDown[9].name,
                   ThirdDown[10].name, ThirdDown[11].name}
<1>1. /\ Len(ThirdDown) = 13
      /\ \A n \in 1 .. 13 :
           /\ Other(ThirdDown[n]) <=> n \notin {7, 12, 13}
           /\ n \in {7, 12, 13} => /\ ThirdDown[n].does = "create"
                                   /\ ThirdDown[n].unless = IF n = 13 THEN "phones" ELSE "nothing"
           /\ ThirdDown[n].does \notin Making \/ n \in {7, 12, 13}
           /\ ThirdDown[n].does # "update"
  BY DEF ThirdDown, Other, Object, Part, Create, UniqueOver, DropIfExists, Making
<1>2. /\ ThirdDown[7].object = Object("otp_challenges.phone.not_null", "otp_challenges", {})
      /\ ThirdDown[12].object = Object("users.display_name.not_null", "users", {})
      /\ ThirdDown[13].object = Object("uq_users_phone", "users", {})
  BY DEF ThirdDown, Part, Create, UniqueOver
<1>3. /\ ThirdDown[1].name = "idx_otp_challenges_email_created"
      /\ ThirdDown[2].name = "uq_otp_challenges_active_email"
      /\ ThirdDown[3].name = "chk_otp_challenges_email_normalized"
      /\ ThirdDown[4].name = "chk_otp_challenges_recipient"
      /\ ThirdDown[5].name = "otp_challenges.verified_at"
      /\ ThirdDown[6].name = "otp_challenges.email"
      /\ ThirdDown[8].name = "idx_users_phone_contact"
      /\ ThirdDown[9].name = "uq_users_legacy_phone_login"
      /\ ThirdDown[10].name = "chk_users_email_normalized"
      /\ ThirdDown[11].name = "users.phone_login_enabled"
  BY DEF ThirdDown, DropIfExists
<1>4. NamesOf(8) = {ThirdDown[1].name, ThirdDown[2].name, ThirdDown[3].name, ThirdDown[4].name,
                    ThirdDown[5].name, ThirdDown[6].name, ThirdDown[8].name, ThirdDown[9].name,
                    ThirdDown[10].name, ThirdDown[11].name}
  BY <1>3 DEF NamesOf
<1>5. \A n \in 1 .. 13 : n \notin {7, 12, 13} => ThirdDown[n].does = "drop_if_exists"
  BY DEF ThirdDown, DropIfExists
<1>6. \A n \in 1 .. 13 : n \notin {7, 12, 13} =>
        /\ ThirdDown[n].name \in NamesOf(8)
        /\ ThirdDown[n].name = "otp_challenges.email" => n = 6
        /\ ThirdDown[n].name = "users.phone_login_enabled" => n = 11
  BY DEF ThirdDown, DropIfExists, NamesOf
<1>7. EmailParts \subseteq {ThirdDown[1].name, ThirdDown[2].name, ThirdDown[3].name, ThirdDown[4].name}
  BY <1>3 DEF EmailParts
<1> QED BY <1>1, <1>2, <1>3, <1>4, <1>5, <1>6, <1>7

(* The third migration undone.                                             *)
LEMMA ThirdDownUndoes ==
  ASSUME NEW K, Closed(K), 8 \in K, NEW data, "nothing" \notin data, "phones" \notin data
  PROVE  Execute(ThirdDown, SchemaAt(K), data) = SchemaAt(K \ {8})
<1> DEFINE s == SchemaAt(K)
           steps == ThirdDown
<1>1. Len(steps) = 13 /\ Len(steps) \in Nat
  BY ThirdDownStatements
<1>2. "failed" \notin Names(s)
  BY NothingFailed
<1>3. \A n \in 1 .. 13 : n \notin {7, 12, 13} => PlaceOf(steps[n].name) = 8
  BY ThirdDownStatements, NamesMade, RequiresOfThird
<1>4. \A n \in {7, 12, 13} :
        /\ steps[n].object \in Again /\ steps[n].object.name \in Removed
        /\ steps[n].object.owner \in {"users", "otp_challenges"} /\ steps[n].object.refs = {}
  <2>1. \A o \in Again : o.owner \in {"users", "otp_challenges"} /\ o.refs = {}
    BY DEF Again, Object
  <2>2. \A n \in {7, 12, 13} : steps[n].object \in Again
    BY ThirdDownStatements DEF Again
  <2> QED BY <2>1, <2>2, AgainIs
<1>5. \A n \in 0 .. 13 : Gone(steps, n) \subseteq NamesOf(8)
  BY <1>1, ThirdDownStatements DEF Gone
<1>6. /\ PlaceOf("users") = 2 /\ PlaceOf("otp_challenges") = 7 /\ {2, 7} \subseteq K
      /\ {"users", "otp_challenges"} \subseteq Names(s)
      /\ {"users", "otp_challenges"} \intersect NamesOf(8) = {}
  <2>1. PlaceOf("users") = 2 /\ PlaceOf("otp_challenges") = 7
    BY DEF PlaceOf, NamesOf
  <2>2. {2, 7} \subseteq K
    BY RequiresOfThird DEF Closed
  <2>3. /\ "users" \in NamesOf(2) /\ "users" \notin Removed
        /\ "otp_challenges" \in NamesOf(7) /\ "otp_challenges" \notin Removed
    BY DEF NamesOf, Removed
  <2>4. {"users", "otp_challenges"} \subseteq Names(s)
    BY <2>2, <2>3, NameThere
  <2>5. \A p \in NamesOf(8) : PlaceOf(p) = 8
    BY NamesMade, RequiresOfThird
  <2> QED BY <2>1, <2>2, <2>4, <2>5
<1> HIDE DEF s, steps
<1>7. ASSUME NEW n \in 1 .. 13, steps[n].does \in Making PROVE Makes(steps, n, s)
  <2> DEFINE o == steps[n].object
  <2>1. n \in {7, 12, 13}
    BY <1>7, ThirdDownStatements DEF steps
  <2>2. o.name \notin Names(s) \union {"failed"}
    <3>1. o.name \in Removed /\ o.name # "public"
      BY <1>4, <2>1, RemovedApart
    <3>2. o.name # "failed"
      BY <3>1 DEF Removed
    <3> QED BY <3>1, <3>2, NamePlaced DEF s
  <2>3. \A m \in 1 .. n - 1 : steps[m].does \in Making => steps[m].object.name # o.name
    <3>1. /\ steps[7].object.name = "otp_challenges.phone.not_null"
          /\ steps[12].object.name = "users.display_name.not_null"
          /\ steps[13].object.name = "uq_users_phone"
      BY ThirdDownStatements DEF steps, Object
    <3>2. ASSUME NEW m \in 1 .. n - 1, steps[m].does \in Making PROVE m \in {7, 12, 13} /\ m # n
      BY <3>2, ThirdDownStatements DEF steps
    <3> QED BY <2>1, <3>1, <3>2
  <2>4. \A p \in {o.owner} \union o.refs : p \in Names(s) /\ p \notin Gone(steps, n)
    BY <1>4, <1>5, <1>6, <2>1
  <2> QED BY <2>2, <2>3, <2>4 DEF Makes
<1>8. ASSUME NEW n \in 1 .. 13, Other(steps[n]) PROVE DropsLeaf(steps, n, s)
  <2> DEFINE d == steps[n].name
  <2>1. n \notin {7, 12, 13} /\ PlaceOf(d) = 8 /\ steps[n].does # "drop"
    BY <1>3, <1>8, ThirdDownStatements DEF steps
  <2>2. d # "public" /\ d \notin {"users", "otp_challenges"} /\ d \notin Removed
    <3>1. PlaceOf("public") = 6
      BY DEF PlaceOf, NamesOf
    <3> QED BY <1>6, <2>1, <3>1, RemovedApart
  <2>3. ASSUME NEW x \in s, x.owner = d \/ d \in x.refs PROVE x.name \in Gone(steps, n - 1)
    <3>1. \/ d = "users.phone_login_enabled" /\ x.name = "uq_users_legacy_phone_login"
          \/ d = "otp_challenges.email" /\ x.name \in EmailParts
      BY <2>1, <2>3, ThirdOwners DEF s
    <3>2. CASE d = "users.phone_login_enabled" /\ x.name = "uq_users_legacy_phone_login"
      <4>1. n = 11 /\ 9 \in 1 .. n - 1 /\ Other(steps[9]) /\ steps[9].name = x.name
        BY <1>8, <3>2, ThirdDownStatements DEF steps
      <4> QED BY <4>1 DEF Gone
    <3>3. CASE d = "otp_challenges.email" /\ x.name \in EmailParts
      <4>1. n = 6 /\ \A m \in 1 .. 4 : m \in 1 .. n - 1 /\ Other(steps[m])
        BY <1>8, <3>3, ThirdDownStatements DEF steps
      <4>2. x.name \in {steps[1].name, steps[2].name, steps[3].name, steps[4].name}
        BY <3>3, ThirdDownStatements DEF steps
      <4> QED BY <4>1, <4>2 DEF Gone
    <3> QED BY <3>1, <3>2, <3>3
  <2>4. ASSUME NEW m \in 1 .. n - 1, steps[m].does \in Making
        PROVE  /\ steps[m].object.name # d /\ steps[m].object.owner # d
               /\ d \notin steps[m].object.refs
    <3>1. m \in {7, 12, 13}
      BY <2>4, ThirdDownStatements DEF steps
    <3> QED BY <1>4, <2>2, <3>1
  <2> QED BY <2>1, <2>2, <2>3, <2>4 DEF DropsLeaf
<1>9. \A n \in 1 .. 13 : steps[n].does \in {"create", "update"} => steps[n].unless \notin data
  <2>1. ASSUME NEW n \in 1 .. 13, steps[n].does \in {"create", "update"}
        PROVE  steps[n].unless \notin data
    <3>1. n \in {7, 12, 13}
      BY <2>1, ThirdDownStatements DEF steps, Making
    <3> QED BY <3>1, ThirdDownStatements DEF steps
  <2> QED BY <2>1
<1>10. Execute(steps, s, data) = Edited(s, steps, 13)
  BY <1>1, <1>2, <1>7, <1>8, <1>9, Edits
<1>11. Gone(steps, 13) = NamesOf(8)
  <2>1. \A n \in {1, 2, 3, 4, 5, 6, 8, 9, 10, 11} : steps[n].name \in Gone(steps, 13)
    BY ThirdDownStatements DEF Gone, steps
  <2>2. NamesOf(8) \subseteq Gone(steps, 13)
    BY <2>1, ThirdDownStatements DEF steps
  <2> QED BY <1>5, <2>2, 13 \in 0 .. 13
<1>12. Made(steps, 13) = Again
  <2>1. Made(steps, 13) = {steps[7].object, steps[12].object, steps[13].object}
    <3>1. \A n \in 1 .. 13 : steps[n].does \in Making <=> n \in {7, 12, 13}
      BY ThirdDownStatements DEF Making, steps
    <3> QED BY <3>1 DEF Made
  <2> QED BY <2>1, ThirdDownStatements DEF Again, steps
<1>13. \A k \in Batches : \A x \in MadeBy(k) : k = 8 <=> x.name \in NamesOf(8)
  <2>1. ASSUME NEW x \in MadeBy(8) PROVE x.name \in NamesOf(8)
    <3>1. \A n \in 1 .. Len(Batch(8)) : Batch(8)[n].does \in Making =>
              Batch(8)[n].object.name \in NamesOf(8)
      BY DEF Batch, EmailIdentityUp, Object, Part, Create, Update, Drop, DropIfExists, Making,
              NamesOf
    <3> QED BY <3>1, MadeIs
  <2>2. \A k \in Batches : \A x \in MadeBy(k) : PlaceOf(x.name) = k
    BY MadeShape
  <2>3. \A p \in NamesOf(8) : PlaceOf(p) = 8
    BY NamesMade, RequiresOfThird
  <2> QED BY <2>1, <2>2, <2>3
<1>14. SchemaAt(K \ {8}) = {x \in s : x.name \notin NamesOf(8)} \union Again
  <2>1. \A x : x \in SchemaAt(K \ {8}) <=> \E k \in K : k # 8 /\ x \in MadeBy(k)
    BY DEF SchemaAt
  <2>2. \A x : x \in s <=> x.name \notin Removed /\ \E k \in K : x \in MadeBy(k)
    BY DEF SchemaAt, s
  <2>3. ASSUME NEW x \in SchemaAt(K \ {8})
        PROVE  x \in Again \/ (x \in s /\ x.name \notin NamesOf(8))
    <3>1. PICK k \in K : k # 8 /\ x \in MadeBy(k) /\ k \in Batches
      BY <2>1 DEF Closed
    <3> QED BY <1>13, <2>2, <3>1, AgainIs
  <2>4. ASSUME NEW x \in s, x.name \notin NamesOf(8) PROVE x \in SchemaAt(K \ {8})
    <3>1. PICK k \in K : x \in MadeBy(k) /\ k \in Batches
      BY <2>2 DEF Closed
    <3> QED BY <1>13, <2>1, <2>4, <3>1
  <2>5. ASSUME NEW x \in Again PROVE x \in SchemaAt(K \ {8})
    <3>1. x \in MadeBy(2) \/ x \in MadeBy(7)
      BY AgainIs
    <3>2. 2 \in K /\ 7 \in K /\ 2 # 8 /\ 7 # 8
      BY <1>6
    <3> QED BY <2>1, <3>1, <3>2
  <2> QED BY <2>3, <2>4, <2>5
<1>15. Edited(s, steps, 13) = {x \in s : x.name \notin NamesOf(8)} \union Again
  BY <1>11, <1>12 DEF Edited
<1> QED BY <1>10, <1>14, <1>15 DEF s, steps

LEMMA ThirdDownClashes ==
  ASSUME NEW schema0, NEW data, "phones" \in data
  PROVE  Execute(ThirdDown, schema0, data) = Failed
<1>1. /\ Len(ThirdDown) \in Nat /\ 13 \in 1 .. Len(ThirdDown)
      /\ ThirdDown[13].does \in {"create", "update"} /\ ThirdDown[13].unless \in data
  BY ThirdDownStatements
<1> QED BY <1>1, ClashFails

(* The first migration undone: the order in which its down drops.          *)
DownNames == <<
  "outbox_events", "audit_logs", "media_files", "notifications",
  "maintenance_reports", "payment_allocations", "payment_events", "payments",
  "invoice_items", "invoices", "contracts", "bookings", "rooms", "properties",
  "renter_profiles", "owner_profiles", "user_roles", "users", "roles",
  "prevent_audit_mutation", "set_updated_at" >>

DownAt(name) ==
  IF name = "outbox_events" THEN 1 ELSE IF name = "audit_logs" THEN 2 ELSE IF name =
  "media_files" THEN 3 ELSE IF name = "notifications" THEN 4 ELSE IF name =
  "maintenance_reports" THEN 5 ELSE IF name = "payment_allocations" THEN 6 ELSE IF
  name = "payment_events" THEN 7 ELSE IF name = "payments" THEN 8 ELSE IF name =
  "invoice_items" THEN 9 ELSE IF name = "invoices" THEN 10 ELSE IF name = "contracts"
  THEN 11 ELSE IF name = "bookings" THEN 12 ELSE IF name = "rooms" THEN 13 ELSE IF
  name = "properties" THEN 14 ELSE IF name = "renter_profiles" THEN 15 ELSE IF name =
  "owner_profiles" THEN 16 ELSE IF name = "user_roles" THEN 17 ELSE IF name = "users"
  THEN 18 ELSE IF name = "roles" THEN 19 ELSE IF name = "prevent_audit_mutation" THEN
  20 ELSE IF name = "set_updated_at" THEN 21 ELSE 0

(* The table that an object of the first migration is or belongs to.       *)
TableOf(o) == IF o.owner = "public" THEN o.name ELSE o.owner

Downward(steps) ==
  \A n \in 1 .. Len(steps) :
    LET o == steps[n].object IN
    /\ DownAt(TableOf(o)) \in 1 .. 21
    /\ \A p \in o.refs : DownAt(TableOf(o)) <= DownAt(p)

LEMMA DownNamesAre ==
  /\ Len(DownNames) = 21 /\ IsSequence(DownNames) /\ Migrations[1].down = DropAll(DownNames)
  /\ \A n \in 1 .. 21 : DownAt(DownNames[n]) = n /\ DownNames[n] # "public"
  /\ \A name : DownAt(name) \in 1 .. 21 => DownNames[DownAt(name)] = name
<1>1. Len(DownNames) = 21 /\ IsSequence(DownNames)
  BY DEF DownNames, IsSequence
<1>2. Migrations[1].down = DropAll(DownNames)
  BY DEF Migrations, Migration, InitialDown, DownNames
<1>3. \A n \in 1 .. 21 : DownAt(DownNames[n]) = n /\ DownNames[n] # "public"
  BY DEF DownNames, DownAt
<1>4. \A name : DownAt(name) \in 1 .. 21 => DownNames[DownAt(name)] = name
  BY DEF DownNames, DownAt
<1> QED BY <1>1, <1>2, <1>3, <1>4

LEMMA DownAtIs ==
  /\ DownAt("outbox_events") = 1
  /\ DownAt("audit_logs") = 2
  /\ DownAt("media_files") = 3
  /\ DownAt("notifications") = 4
  /\ DownAt("maintenance_reports") = 5
  /\ DownAt("payment_allocations") = 6
  /\ DownAt("payment_events") = 7
  /\ DownAt("payments") = 8
  /\ DownAt("invoice_items") = 9
  /\ DownAt("invoices") = 10
  /\ DownAt("contracts") = 11
  /\ DownAt("bookings") = 12
  /\ DownAt("rooms") = 13
  /\ DownAt("properties") = 14
  /\ DownAt("renter_profiles") = 15
  /\ DownAt("owner_profiles") = 16
  /\ DownAt("user_roles") = 17
  /\ DownAt("users") = 18
  /\ DownAt("roles") = 19
  /\ DownAt("prevent_audit_mutation") = 20
  /\ DownAt("set_updated_at") = 21
BY DEF DownAt

LEMMA FirstDownward == \A k \in 1 .. 6 : Downward(Batch(k))
<1>1. Downward(Batch(1))
  BY DownAtIs DEF Downward, TableOf, Batch, FunctionsUp, Object, Replace
<1>2. Downward(Batch(2))
  BY DownAtIs DEF Downward, TableOf, Batch, IdentityTables, Object, Table, Part, Create
<1>3. Downward(Batch(3))
  BY DownAtIs DEF Downward, TableOf, Batch, ListingTables, Object, Table, Create
<1>4. Downward(Batch(4))
  BY DownAtIs DEF Downward, TableOf, Batch, BillingTables, Object, Table, Create
<1>5. Downward(Batch(5))
  BY DownAtIs DEF Downward, TableOf, Batch, OperationTables, Object, Table, Create
<1>6. Downward(Batch(6))
  BY DownAtIs DEF Downward, TableOf, Batch, UpdatedAtTriggers, Object, Create
<1> HIDE DEF Downward, Batch
<1> QED BY <1>1, <1>2, <1>3, <1>4, <1>5, <1>6

LEMMA FirstDownUndoes ==
  ASSUME NEW data
  PROVE  Execute(Migrations[1].down, SchemaAt(1 .. 6), data) = SchemaAt({})
<1> DEFINE K == 1 .. 6
           s == SchemaAt(K)
<1>1. Closed(K)
  <2>1. \A k \in K : Requires(k) \subseteq 1 .. 6 /\ k \in Batches
    BY DEF Requires, Batches
  <2> QED BY <2>1 DEF Closed
<1>2. "failed" \notin Names(s) /\ \A x \in s : x.owner \in Names(s) /\ Shaped(x)
  BY <1>1, NothingFailed, SchemaShape
<1>3. \A x \in s : /\ DownAt(TableOf(x)) \in 1 .. 21
                   /\ \A p \in x.refs : DownAt(TableOf(x)) <= DownAt(p)
  <2>1. ASSUME NEW x \in s
        PROVE  /\ DownAt(TableOf(x)) \in 1 .. 21
               /\ \A p \in x.refs : DownAt(TableOf(x)) <= DownAt(p)
    <3>1. PICK k \in K : x \in MadeBy(k)
      BY <1>1, InSchema
    <3>2. PICK n \in 1 .. Len(Batch(k)) : Batch(k)[n].object = x
      BY <3>1, MadeIs
    <3> QED BY <3>2, FirstDownward DEF Downward
  <2> QED BY <2>1
<1>4. \A x \in s : x.name \in Family(s, TableOf(x))
  BY FamilyIs DEF TableOf
<1> HIDE DEF s, K
<1>5. ASSUME NEW n \in 1 .. 21 PROVE DropsFamily(s, DownNames, n)
  <2>1. DownNames[n] # "public"
    BY DownNamesAre
  <2>2. \A x \in s : x.owner \in Family(s, DownNames[n]) => x.name \in Family(s, DownNames[n])
    BY <1>1, <2>1, FamilyClosed DEF s
  <2>3. ASSUME NEW x \in s, x.refs \intersect Families(s, DownNames, n) # {}
        PROVE  x.name \in Families(s, DownNames, n)
    <3>1. PICK p \in x.refs, m \in 1 .. n : p \in Family(s, DownNames[m])
      BY <2>3 DEF Families
    <3>2. m \in 1 .. 21 /\ DownNames[m] # "public" /\ DownAt(DownNames[m]) = m
      BY DownNamesAre
    <3>3. p \in Parents
      BY <1>2 DEF Shaped
    <3>4. \A y \in s : y.name # "public" /\ (y.name = p => y.owner = "public")
      BY <1>2, <3>3 DEF Shaped
    <3>5. p = DownNames[m]
      BY <3>1, <3>2, <3>4, FamilyIs
    <3> DEFINE i == DownAt(TableOf(x))
    <3>6. i \in 1 .. n /\ DownNames[i] = TableOf(x)
      <4>1. i \in 1 .. 21 /\ i <= m
        BY <1>3, <3>2, <3>5
      <4> QED BY <4>1, DownNamesAre
    <3> QED BY <1>4, <3>6 DEF Families
  <2> QED BY <2>1, <2>2, <2>3 DEF DropsFamily
<1>6. Execute(DropAll(DownNames), s, data) = Left(s, DownNames, 21)
  BY <1>2, <1>5, DownNamesAre, Drops
<1>7. Left(s, DownNames, 21) = {}
  <2>1. ASSUME NEW x \in s PROVE x.name \in Families(s, DownNames, 21)
    <3>1. DownAt(TableOf(x)) \in 1 .. 21 /\ DownNames[DownAt(TableOf(x))] = TableOf(x)
      BY <1>3, DownNamesAre
    <3> QED BY <1>4, <3>1 DEF Families
  <2> QED BY <2>1 DEF Left
<1>8. SchemaAt({}) = {}
  BY DEF SchemaAt
<1> QED BY <1>6, <1>7, <1>8, DownNamesAre DEF s, K

LEMMA BatchesOfLess ==
  ASSUME NEW A, NEW v \in 2 .. 7
  PROVE  BatchesOf(A \ {v}) = BatchesOf(A) \ {v + 5}
BY DEF BatchesOf, Batches

(* What the down of a migration that no other needs does.                  *)
LEMMA Down ==
  ASSUME NEW A, Good(A), NEW v \in A, \A w \in A : v \notin Needs(w),
         NEW data, "nothing" \notin data
  PROVE  /\ Good(A \ {v})
         /\ Execute(Migrations[v].down, SchemaOf(A), data) =
              IF v = 3 /\ "phones" \in data THEN Failed ELSE SchemaOf(A \ {v})
<1> DEFINE K == BatchesOf(A)
<1>1. /\ Closed(K) /\ \A w \in 2 .. 7 : w + 5 \in K <=> w \in A
  BY BatchesOfGood
<1> HIDE DEF K
<1>2. v \in 1 .. 7 /\ A \subseteq 1 .. 7
  BY VersionsAre DEF Good
<1>3. Good(A \ {v})
  BY DEF Good
<1>4. CASE v = 1
  <2>1. A = {1}
    BY <1>4 DEF Good, Needs
  <2>2. BatchesOf(A) = 1 .. 6 /\ BatchesOf(A \ {v}) = {}
    BY <1>4, <2>1 DEF BatchesOf, Batches
  <2>3. Execute(Migrations[v].down, SchemaAt(1 .. 6), data) = SchemaAt({})
    BY <1>4, FirstDownUndoes
  <2> QED BY <1>3, <1>4, <2>2, <2>3 DEF SchemaOf
<1>5. CASE v \in 2 .. 7
  <2>1. PICK k \in 7 .. 12 : k = v + 5
    BY <1>5
  <2>2. k \in K /\ (k = 8 <=> v = 3)
    BY <1>1, <1>5, <2>1
  <2>3. SchemaOf(A) = SchemaAt(K) /\ SchemaOf(A \ {v}) = SchemaAt(K \ {k})
    BY <1>5, <2>1, BatchesOfLess DEF SchemaOf, K
  <2>4. CASE v = 3
    <3>1. CASE "phones" \in data
      BY <1>3, <2>4, <3>1, ThirdDownIs, ThirdDownClashes
    <3>2. CASE "phones" \notin data
      <4>1. Execute(ThirdDown, SchemaAt(K), data) = SchemaAt(K \ {8})
        BY <1>1, <2>2, <2>4, <3>2, ThirdDownUndoes
      <4> QED BY <1>3, <2>2, <2>3, <2>4, <3>2, <4>1, ThirdDownIs
    <3> QED BY <3>1, <3>2
  <2>5. CASE v # 3
    <3>1. \A j \in K : k \notin Requires(j)
      <4>1. \A j \in Batches : Requires(j) \subseteq 1 .. 5 \union (IF j \in {8, 9} THEN {7} ELSE {})
        BY DEF Requires, Batches
      <4>2. k = 7 => 8 \notin K /\ 9 \notin K
        <5>1. 2 \in Needs(3) /\ 2 \in Needs(4)
          BY DEF Needs
        <5>2. k = 7 => v = 2
          BY <1>5, <2>1
        <5>3. 3 + 5 = 8 /\ 4 + 5 = 9 /\ 3 \in 2 .. 7 /\ 4 \in 2 .. 7
          OBVIOUS
        <5> QED BY <1>1, <5>1, <5>2, <5>3
      <4> QED BY <1>1, <4>1, <4>2 DEF Closed
    <3>2. PICK names : Covers(names, k) /\ Migrations[v].down = DropAll(names)
      <4>1. \/ v = 2 /\ k = 7
            \/ v = 4 /\ k = 9
            \/ v = 5 /\ k = 10
            \/ v = 6 /\ k = 11
            \/ v = 7 /\ k = 12
        BY <1>5, <2>1, <2>5
      <4> QED BY <4>1, IdentityAuthDownIs, PasswordRecoveryDownIs, RecoveryOutboxDownIs,
                 ActiveLifecycleDownIs, SupersessionDownIs, Zenon
    <3>3. Execute(Migrations[v].down, SchemaAt(K), data) = SchemaAt(K \ {k})
      <4>1. k # 8
        BY <2>2, <2>5
      <4>2. Execute(DropAll(names), SchemaAt(K), data) = SchemaAt(K \ {k})
        BY <1>1, <3>1, <3>2, <4>1, LastDown, Zenon
      <4> QED BY <3>2, <4>2
    <3> QED BY <1>3, <2>3, <2>5, <3>3
  <2> QED BY <2>4, <2>5
<1> QED BY <1>2, <1>4, <1>5

-----------------------------------------------------------------------------
(* Versions in order.                                                      *)
Collects(so, versions, N) ==
  so = [n \in 0 .. N |-> IF n = 0 THEN <<>>
                         ELSE IF n \in versions THEN Append(so[n - 1], n) ELSE so[n - 1]]

LEMMA CollectsExists ==
  ASSUME NEW versions
  PROVE  \A N \in Nat : \E so : Collects(so, versions, N)
<1> DEFINE S == {N \in Nat : \E so : Collects(so, versions, N)}
<1>1. 0 \in S
  <2> DEFINE so == [n \in 0 .. 0 |-> <<>>]
  <2>1. so = [n \in 0 .. 0 |-> IF n = 0 THEN <<>>
                               ELSE IF n \in versions THEN Append(so[n - 1], n) ELSE so[n - 1]]
    OBVIOUS
  <2>2. Collects(so, versions, 0)
    BY <2>1, Zenon DEF Collects
  <2> QED BY <2>2
<1>2. ASSUME NEW N \in Nat, N \in S PROVE N + 1 \in S
  <2>1. PICK so : Collects(so, versions, N)
    BY <1>2
  <2> DEFINE next == IF N + 1 \in versions THEN Append(so[N], N + 1) ELSE so[N]
             more == [n \in 0 .. N + 1 |-> IF n = N + 1 THEN next ELSE so[n]]
             value(f, n) == IF n = 0 THEN <<>>
                            ELSE IF n \in versions THEN Append(f[n - 1], n) ELSE f[n - 1]
  <2>2. \A n \in 0 .. N : so[n] = value(so, n)
    <3>1. so = [n \in 0 .. N |-> value(so, n)]
      BY <2>1, Zenon DEF Collects
    <3> HIDE DEF value
    <3> QED BY <3>1
  <2> HIDE DEF next
  <2>3. \A n \in 0 .. N : more[n] = so[n]
    OBVIOUS
  <2>4. more[N + 1] = next
    OBVIOUS
  <2>5. more = [n \in 0 .. N + 1 |-> more[n]]
    OBVIOUS
  <2> HIDE DEF more
  <2>6. ASSUME NEW n \in 0 .. N + 1 PROVE more[n] = value(more, n)
    <3>1. CASE n = N + 1
      BY <2>3, <2>4, <3>1 DEF next
    <3>2. CASE n = 0
      BY <2>2, <2>3, <3>2
    <3>3. CASE n \in 1 .. N
      <4>1. n \in 0 .. N /\ n - 1 \in 0 .. N
        BY <3>3
      <4> QED BY <2>2, <2>3, <3>3, <4>1
    <3> QED BY <3>1, <3>2, <3>3
  <2>7. more = [n \in 0 .. N + 1 |-> value(more, n)]
    <3> HIDE DEF value
    <3> QED BY <2>5, <2>6
  <2>8. Collects(more, versions, N + 1)
    BY <2>7, Zenon DEF Collects
  <2> QED BY <2>8
<1>3. Nat \subseteq S
  <2> HIDE DEF S
  <2> QED BY <1>1, <1>2, SetInduction
<1> QED BY <1>3

(* InOrder gives the versions of a set, each once, the lowest first.       *)
LEMMA InOrderIs ==
  ASSUME NEW A \in SUBSET Versions
  PROVE  /\ IsSequence(InOrder(A)) /\ ToSet(InOrder(A)) = A
         /\ \A n \in 1 .. Len(InOrder(A)) : \A m \in 1 .. n - 1 : InOrder(A)[m] < InOrder(A)[n]
<1> DEFINE so == CHOOSE f : Collects(f, A, 7)
           Fine(s, n) == /\ s \in Seq(Nat) /\ ToSet(s) = A \intersect 1 .. n
                         /\ \A i \in 1 .. Len(s) : \A m \in 1 .. i - 1 : s[m] < s[i]
           S == {n \in Nat : Fine(so[n], n)}
<1>1. Collects(so, A, 7)
  BY CollectsExists, 7 \in Nat
<1>2. InOrder(A) = so[7]
  BY VersionsAre DEF InOrder, Collects
<1> HIDE DEF so
<1>3. so[0] = <<>> /\ \A n \in 1 .. 7 : so[n] = IF n \in A THEN Append(so[n - 1], n) ELSE so[n - 1]
  <2> DEFINE value(n) == IF n = 0 THEN <<>>
                         ELSE IF n \in A THEN Append(so[n - 1], n) ELSE so[n - 1]
  <2>1. \A n \in 0 .. 7 : so[n] = value(n)
    <3>1. so = [n \in 0 .. 7 |-> value(n)]
      BY <1>1, Zenon DEF Collects
    <3> HIDE DEF value
    <3> QED BY <3>1
  <2>2. 0 \in 0 .. 7 /\ \A n \in 1 .. 7 : n \in 0 .. 7 /\ n # 0
    OBVIOUS
  <2> QED BY <2>1, <2>2
<1>4. 0 \in S
  <2>1. ToSet(<<>>) = {} /\ <<>> \in Seq(Nat) /\ Len(<<>>) = 0 /\ A \intersect 1 .. 0 = {}
    BY DEF ToSet
  <2>2. Fine(<<>>, 0)
    BY <2>1
  <2> HIDE DEF Fine
  <2> QED BY <1>3, <2>2
<1>5. ASSUME NEW n \in 1 .. 7, n - 1 \in S PROVE n \in S
  <2> DEFINE s == so[n - 1]
  <2>1. /\ s \in Seq(Nat) /\ ToSet(s) = A \intersect 1 .. n - 1
        /\ \A i \in 1 .. Len(s) : \A m \in 1 .. i - 1 : s[m] < s[i]
    BY <1>5
  <2> HIDE DEF s
  <2>2. CASE n \notin A
    <3>1. so[n] = s /\ A \intersect 1 .. n = A \intersect 1 .. n - 1
      BY <1>3, <2>2 DEF s
    <3> QED BY <2>1, <3>1
  <2>3. CASE n \in A
    <3> DEFINE t == Append(s, n)
    <3>1. so[n] = t
      BY <1>3, <2>3 DEF s
    <3>2. /\ t \in Seq(Nat) /\ Len(t) = Len(s) + 1 /\ Len(s) \in Nat
          /\ t[Len(s) + 1] = n /\ \A i \in 1 .. Len(s) : t[i] = s[i]
      BY <2>1
    <3>3. \A i \in 1 .. Len(s) : s[i] \in 1 .. n - 1
      BY <2>1 DEF ToSet
    <3> HIDE DEF t
    <3>4. \A i \in 1 .. Len(t) : \A m \in 1 .. i - 1 : t[m] < t[i]
      <4>1. ASSUME NEW i \in 1 .. Len(t), NEW m \in 1 .. i - 1 PROVE t[m] < t[i]
        <5>1. m \in 1 .. Len(s)
          BY <3>2
        <5>2. CASE i = Len(s) + 1
          BY <3>2, <3>3, <5>1, <5>2
        <5>3. CASE i \in 1 .. Len(s)
          BY <2>1, <3>2, <5>1, <5>3
        <5> QED BY <3>2, <5>2, <5>3
      <4> QED BY <4>1
    <3>5. ToSet(t) = ToSet(s) \union {n}
      <4>1. DOMAIN t = 1 .. Len(s) + 1 /\ DOMAIN s = 1 .. Len(s)
        BY <2>1, <3>2
      <4> QED BY <3>2, <4>1 DEF ToSet
    <3>6. A \intersect 1 .. n = (A \intersect 1 .. n - 1) \union {n}
      BY <2>3
    <3> QED BY <2>1, <3>1, <3>2, <3>4, <3>5, <3>6
  <2> QED BY <2>2, <2>3
<1>6. 0 .. 7 \subseteq S
  <2> HIDE DEF S
  <2> QED BY <1>4, <1>5, InductionUpTo, 7 \in Nat
<1>7. Fine(so[7], 7)
  <2>1. 7 \in S
    BY <1>6
  <2> HIDE DEF Fine
  <2> QED BY <2>1
<1>8. A \intersect 1 .. 7 = A
  BY VersionsAre
<1>9. IsSequence(so[7])
  BY <1>7 DEF IsSequence
<1> QED BY <1>2, <1>7, <1>8, <1>9

-----------------------------------------------------------------------------
(* Several migrations in one transaction.                                  *)
RunsAll(so, versions, schema0, data, N) ==
  so = [n \in 0 .. N |-> IF n = 0 THEN schema0
                         ELSE UNION {Execute(Migrations[versions[n]].up, s, data) :
                                 s \in {so[n - 1]}}]

LEMMA RunsAllExists ==
  ASSUME NEW versions, NEW schema0, NEW data
  PROVE  \A N \in Nat : \E so : RunsAll(so, versions, schema0, data, N)
<1> DEFINE S == {N \in Nat : \E so : RunsAll(so, versions, schema0, data, N)}
           up(s, n) == Execute(Migrations[versions[n]].up, s, data)
           value(f, n) == IF n = 0 THEN schema0 ELSE UNION {up(s, n) : s \in {f[n - 1]}}
<1>1. 0 \in S
  <2> DEFINE so == [n \in 0 .. 0 |-> schema0]
  <2>1. so = [n \in 0 .. 0 |-> value(so, n)]
    OBVIOUS
  <2>2. RunsAll(so, versions, schema0, data, 0)
    BY <2>1, Zenon DEF RunsAll
  <2> QED BY <2>2
<1>2. ASSUME NEW N \in Nat, N \in S PROVE N + 1 \in S
  <2>1. PICK so : RunsAll(so, versions, schema0, data, N)
    BY <1>2
  <2> DEFINE next == up(so[N], N + 1)
             more == [n \in 0 .. N + 1 |-> IF n = N + 1 THEN next ELSE so[n]]
  <2>2. \A n \in 0 .. N : so[n] = value(so, n)
    <3>1. so = [n \in 0 .. N |-> value(so, n)]
      BY <2>1, Zenon DEF RunsAll
    <3> HIDE DEF value
    <3> QED BY <3>1
  <2> HIDE DEF next
  <2>3. \A n \in 0 .. N : more[n] = so[n]
    OBVIOUS
  <2>4. more[N + 1] = next
    OBVIOUS
  <2>5. more = [n \in 0 .. N + 1 |-> more[n]]
    OBVIOUS
  <2> HIDE DEF more, up
  <2>6. ASSUME NEW n \in 0 .. N + 1 PROVE more[n] = value(more, n)
    <3>1. CASE n = N + 1
      <4>1. more[n - 1] = so[N] /\ n # 0
        BY <2>3, <3>1
      <4>2. UNION {up(s, n) : s \in {more[n - 1]}} = up(so[N], n)
        BY <4>1
      <4> QED BY <2>4, <3>1, <4>1, <4>2 DEF next
    <3>2. CASE n = 0
      BY <2>2, <2>3, <3>2
    <3>3. CASE n \in 1 .. N
      <4>1. n \in 0 .. N /\ n - 1 \in 0 .. N
        BY <3>3
      <4>2. value(more, n) = value(so, n)
        BY <2>3, <4>1
      <4> HIDE DEF value
      <4> QED BY <2>2, <2>3, <4>1, <4>2
    <3> QED BY <3>1, <3>2, <3>3
  <2>7. more = [n \in 0 .. N + 1 |-> value(more, n)]
    <3> HIDE DEF value
    <3> QED BY <2>5, <2>6
  <2>8. RunsAll(more, versions, schema0, data, N + 1)
    BY <2>7, Zenon DEF RunsAll, up
  <2> QED BY <2>8
<1>3. Nat \subseteq S
  <2> HIDE DEF S
  <2> QED BY <1>1, <1>2, SetInduction
<1> QED BY <1>3

LEMMA ExecuteAllRuns ==
  ASSUME NEW versions, Len(versions) \in Nat, NEW schema0, NEW data
  PROVE  \E all : /\ all[0] = schema0
                  /\ \A n \in 1 .. Len(versions) :
                       all[n] = Execute(Migrations[versions[n]].up, all[n - 1], data)
                  /\ ExecuteAll(versions, schema0, data) = all[Len(versions)]
<1> DEFINE all == CHOOSE so : RunsAll(so, versions, schema0, data, Len(versions))
           up(s, n) == Execute(Migrations[versions[n]].up, s, data)
           value(n) == IF n = 0 THEN schema0 ELSE UNION {up(s, n) : s \in {all[n - 1]}}
<1>1. RunsAll(all, versions, schema0, data, Len(versions))
  BY RunsAllExists
<1>2. ExecuteAll(versions, schema0, data) = all[Len(versions)]
  BY Zenon DEF ExecuteAll, RunsAll
<1> HIDE DEF all
<1>3. \A n \in 0 .. Len(versions) : all[n] = value(n)
  <2>1. all = [n \in 0 .. Len(versions) |-> value(n)]
    BY <1>1, Zenon DEF RunsAll
  <2> HIDE DEF value
  <2> QED BY <2>1
<1>4. all[0] = schema0
  <2>1. 0 \in 0 .. Len(versions)
    OBVIOUS
  <2> HIDE DEF up
  <2>2. value(0) = schema0
    OBVIOUS
  <2> HIDE DEF value
  <2> QED BY <1>3, <2>1, <2>2
<1>5. ASSUME NEW n \in 1 .. Len(versions) PROVE all[n] = up(all[n - 1], n)
  <2>1. n \in 0 .. Len(versions) /\ n # 0
    OBVIOUS
  <2> HIDE DEF up
  <2>2. UNION {up(s, n) : s \in {all[n - 1]}} = up(all[n - 1], n)
    OBVIOUS
  <2> QED BY <1>3, <2>1, <2>2
<1> QED BY <1>2, <1>4, <1>5

(* What comes before one of the versions, and what it finds applied.       *)
Before(versions, n) == {versions[m] : m \in 1 .. n - 1}
Fits(versions, A, n) ==
  /\ versions[n] \notin A \union Before(versions, n)
  /\ Needs(versions[n]) \subseteq A \union Before(versions, n)

(* A transaction fails, or every migration has found those that it needs,  *)
(* and none has been applied before.                                       *)
LEMMA AllUp ==
  ASSUME NEW A, Good(A), NEW versions, IsSequence(versions),
         \A n \in 1 .. Len(versions) : versions[n] \in Versions,
         NEW data, "nothing" \notin data
  PROVE  LET s == ExecuteAll(versions, SchemaOf(A), data)
             done == A \union ToSet(versions)
         IN  \/ s = Failed
             \/ /\ s = SchemaOf(done) /\ Good(done)
                /\ \A n \in 1 .. Len(versions) : Fits(versions, A, n)
<1> DEFINE N == Len(versions)
           D(n) == A \union Before(versions, n)
<1>1. PICK all : /\ all[0] = SchemaOf(A)
                 /\ \A n \in 1 .. N : all[n] = Execute(Migrations[versions[n]].up, all[n - 1], data)
                 /\ ExecuteAll(versions, SchemaOf(A), data) = all[N]
  BY ExecuteAllRuns DEF IsSequence
<1> DEFINE P(n) == \/ all[n] = Failed
                   \/ /\ all[n] = SchemaOf(D(n + 1)) /\ Good(D(n + 1))
                      /\ \A m \in 1 .. n : Fits(versions, A, m)
           S == {n \in Nat : P(n)}
<1>2. 0 \in S
  <2>1. D(0 + 1) = A
    BY DEF Before
  <2> HIDE DEF D
  <2>2. P(0)
    BY <1>1, <2>1
  <2> HIDE DEF P
  <2> QED BY <2>2
<1>3. ASSUME NEW n \in 1 .. N, n - 1 \in S PROVE n \in S
  <2>0. n \in Nat /\ (P(n) => n \in S)
    <3> HIDE DEF P
    <3> QED OBVIOUS
  <2> SUFFICES P(n)
    BY <2>0
  <2> DEFINE v == versions[n]
             B == D(n)
  <2>1. v \in Versions
    OBVIOUS
  <2>2. all[n] = Execute(Migrations[v].up, all[n - 1], data)
    BY <1>1
  <2>3. D(n + 1) = B \union {v}
    BY DEF Before
  <2>4. (n - 1) + 1 = n
    OBVIOUS
  <2>5. CASE all[n - 1] = Failed
    <3>1. Len(Migrations[v].up) \in Nat
      <4>1. Len(InitialUp) \in Nat
        BY InitialUpIsSequence DEF IsSequence
      <4>2. \A k \in Batches : Len(Batch(k)) \in Nat
        BY BatchesKinds DEF Kinds, IsSequence
      <4>3. v = 1 \/ v \in 2 .. 7
        BY <2>1, VersionsAre
      <4> HIDE DEF v
      <4> QED BY <4>1, <4>2, <4>3, UpIs
    <3>2. all[n] = Failed
      BY <2>2, <2>5, <3>1, ExecuteFailed
    <3> QED BY <3>2
  <2>6. CASE all[n - 1] # Failed
    <3>1. /\ all[n - 1] = SchemaOf(B) /\ Good(B)
          /\ \A m \in 1 .. n - 1 : Fits(versions, A, m)
      BY <1>3, <2>4, <2>6
    <3> HIDE DEF v, B, D
    <3>2. all[n] = Failed \/ (all[n] = SchemaOf(B \union {v}) /\ v \notin B /\ Needs(v) \subseteq B)
      BY <2>1, <2>2, <3>1, Up
    <3>3. v \notin B /\ Needs(v) \subseteq B => Fits(versions, A, n)
      BY DEF Fits, v, B, D
    <3>4. Needs(v) \subseteq B => Good(B \union {v})
      BY <2>1, <3>1 DEF Good
    <3>5. ASSUME Fits(versions, A, n) PROVE \A m \in 1 .. n : Fits(versions, A, m)
      BY <3>1, <3>5
    <3> QED BY <2>3, <3>2, <3>3, <3>4, <3>5
  <2> QED BY <2>5, <2>6
<1>4. N \in Nat
  BY DEF IsSequence
<1>5. N \in S
  <2>1. 0 .. N \subseteq S
    <3> HIDE DEF S
    <3> QED BY <1>2, <1>3, <1>4, InductionUpTo
  <2>2. N \in 0 .. N
    BY <1>4
  <2> HIDE DEF S, N
  <2> QED BY <2>1, <2>2
<1>6. D(N + 1) = A \union ToSet(versions)
  <2>1. DOMAIN versions = 1 .. N /\ (N + 1) - 1 = N
    BY <1>4 DEF IsSequence
  <2> QED BY <2>1 DEF Before, ToSet
<1> HIDE DEF D
<1> QED BY <1>1, <1>5, <1>6

(* The migrations of a set that has what they need, in order, in an empty  *)
(* database where the data do not clash.                                   *)
LEMMA AllInOrder ==
  ASSUME NEW A, Good(A)
  PROVE  ExecuteAll(InOrder(A), {}, {}) = SchemaOf(A)
<1>0. PICK versions : versions = InOrder(A)
  OBVIOUS
<1> DEFINE N == Len(versions)
<1>1. /\ IsSequence(versions) /\ ToSet(versions) = A
      /\ \A n \in 1 .. N : \A m \in 1 .. n - 1 : versions[m] < versions[n]
  BY <1>0, InOrderIs DEF Good
<1>2. DOMAIN versions = 1 .. N /\ N \in Nat /\ A = {versions[n] : n \in 1 .. N}
  BY <1>1 DEF IsSequence, ToSet
<1>3. \A n \in 1 .. N : versions[n] \in A /\ versions[n] \in 1 .. 7
  BY <1>2, VersionsAre DEF Good
<1>4. PICK all : /\ all[0] = {}
                 /\ \A n \in 1 .. N : all[n] = Execute(Migrations[versions[n]].up, all[n - 1], {})
                 /\ ExecuteAll(versions, {}, {}) = all[N]
  <2>1. N \in Nat
    BY <1>2
  <2>2. ASSUME NEW schema0, NEW data
        PROVE  \E all : /\ all[0] = schema0
                        /\ \A n \in 1 .. N :
                             all[n] = Execute(Migrations[versions[n]].up, all[n - 1], data)
                        /\ ExecuteAll(versions, schema0, data) = all[N]
    BY <2>1, ExecuteAllRuns
  <2> QED BY <2>2
<1>5. ASSUME NEW n \in 1 .. N
      PROVE  /\ versions[n] \notin Before(versions, n)
             /\ Needs(versions[n]) \subseteq Before(versions, n)
  <2>1. versions[n] \notin Before(versions, n)
    <3>1. \A m \in 1 .. n - 1 : m \in 1 .. N /\ versions[m] < versions[n]
      BY <1>1, <1>2
    <3> QED BY <1>3, <3>1 DEF Before
  <2>2. ASSUME NEW w \in Needs(versions[n]) PROVE w \in Before(versions, n)
    <3>1. w \in A /\ w < versions[n]
      <4>1. Needs(versions[n]) \subseteq A
        BY <1>3 DEF Good
      <4>2. w < versions[n]
        BY <1>3, <2>2 DEF Needs
      <4> QED BY <2>2, <4>1, <4>2
    <3>2. PICK m \in 1 .. N : versions[m] = w
      BY <1>2, <3>1
    <3>3. m < n
      <4>1. m # n
        BY <1>3, <3>1, <3>2
      <4>2. ~ (n < m)
        <5>1. ASSUME n < m PROVE FALSE
          <6>1. n \in 1 .. m - 1
            BY <5>1
          <6>2. versions[n] < versions[m]
            BY <1>1, <6>1
          <6> QED BY <1>3, <3>1, <3>2, <6>2
        <5> QED BY <5>1
      <4> QED BY <4>1, <4>2
    <3> QED BY <3>2, <3>3 DEF Before
  <2> QED BY <2>1, <2>2
<1> DEFINE P(n) == all[n] = SchemaOf(Before(versions, n + 1)) /\ Good(Before(versions, n + 1))
           S == {n \in Nat : P(n)}
<1>6. 0 \in S
  <2>1. Before(versions, 0 + 1) = {}
    BY DEF Before
  <2>2. SchemaOf({}) = {} /\ Good({})
    BY DEF SchemaOf, BatchesOf, SchemaAt, Good
  <2>3. P(0)
    BY <1>4, <2>1, <2>2
  <2> HIDE DEF P
  <2> QED BY <2>3
<1>7. ASSUME NEW n \in 1 .. N, n - 1 \in S PROVE n \in S
  <2>0. n \in Nat /\ (P(n) => n \in S)
    <3> HIDE DEF P
    <3> QED OBVIOUS
  <2> SUFFICES P(n)
    BY <2>0
  <2> DEFINE v == versions[n]
             B == Before(versions, n)
  <2>1. v \in Versions
    BY <1>3, VersionsAre
  <2>2. all[n - 1] = SchemaOf(B) /\ Good(B)
    <3>1. (n - 1) + 1 = n
      OBVIOUS
    <3> QED BY <1>7, <3>1
  <2>3. all[n] = Execute(Migrations[v].up, all[n - 1], {})
    BY <1>4
  <2>4. Before(versions, n + 1) = B \union {v}
    BY DEF Before
  <2>5. v \notin B /\ Needs(v) \subseteq B
    BY <1>5
  <2> HIDE DEF v, B
  <2>6. all[n] = SchemaOf(B \union {v})
    <3>1. "nothing" \notin {} /\ "emails" \notin {}
      OBVIOUS
    <3>2. Execute(Migrations[v].up, SchemaOf(B), {}) =
            IF v \notin B /\ Needs(v) \subseteq B /\ ~ (v = 3 /\ "emails" \in {})
              THEN SchemaOf(B \union {v}) ELSE Failed
      BY <2>1, <2>2, <3>1, Up, Zenon
    <3> QED BY <2>2, <2>3, <2>5, <3>1, <3>2
  <2>7. Good(B \union {v})
    BY <2>1, <2>2, <2>5 DEF Good
  <2> QED BY <2>4, <2>6, <2>7
<1>8. N \in S
  <2>1. 0 .. N \subseteq S
    <3> HIDE DEF S
    <3> QED BY <1>2, <1>6, <1>7, InductionUpTo
  <2> QED BY <1>2, <2>1
<1>9. Before(versions, N + 1) = A
  <2>1. (N + 1) - 1 = N
    BY <1>2
  <2> QED BY <1>2, <2>1 DEF Before
<1> QED BY <1>0, <1>4, <1>8, <1>9

-----------------------------------------------------------------------------
(* The ledger: no version twice, and each after those that it needs.       *)
LedgerFine(rows) ==
  /\ rows \in Seq(Versions)
  /\ IsInjective(rows)
  /\ \A n \in 1 .. Len(rows) : Needs(rows[n]) \subseteq Before(rows, n)

LEMMA RowsApplied ==
  ASSUME NEW rows \in Seq(Versions)
  PROVE  ToSet(rows) = {rows[n] : n \in 1 .. Len(rows)} /\ DOMAIN rows = 1 .. Len(rows)
BY DEF ToSet

LEMMA FineIsGood ==
  ASSUME NEW rows, LedgerFine(rows)
  PROVE  Good(ToSet(rows))
<1>1. ToSet(rows) = {rows[n] : n \in 1 .. Len(rows)} /\ rows \in Seq(Versions)
  BY RowsApplied DEF LedgerFine
<1>2. \A n \in 1 .. Len(rows) : Before(rows, n) \subseteq ToSet(rows)
  <2>1. ASSUME NEW n \in 1 .. Len(rows), NEW m \in 1 .. n - 1 PROVE m \in 1 .. Len(rows)
    BY <1>1
  <2> QED BY <1>1, <2>1 DEF Before
<1>3. \A n \in 1 .. Len(rows) : rows[n] \in Versions /\ Needs(rows[n]) \subseteq ToSet(rows)
  <2>1. \A n \in 1 .. Len(rows) : Needs(rows[n]) \subseteq Before(rows, n)
    BY DEF LedgerFine
  <2>2. \A n \in 1 .. Len(rows) : rows[n] \in Versions
    BY <1>1
  <2> QED BY <1>2, <2>1, <2>2
<1>4. \A v \in ToSet(rows) : \E n \in 1 .. Len(rows) : v = rows[n]
  BY <1>1
<1>5. \A v \in ToSet(rows) : v \in Versions /\ Needs(v) \subseteq ToSet(rows)
  BY <1>3, <1>4
<1> QED BY <1>5 DEF Good

(* A transaction adds its rows at the end.                                 *)
LEMMA FineMore ==
  ASSUME NEW rows, LedgerFine(rows), NEW more \in Seq(Versions),
         \A n \in 1 .. Len(more) : Fits(more, ToSet(rows), n)
  PROVE  LedgerFine(rows \o more) /\ ToSet(rows \o more) = ToSet(rows) \union ToSet(more)
<1> DEFINE all == rows \o more
           R == Len(rows)
           M == Len(more)
<1>1. rows \in Seq(Versions) /\ R \in Nat /\ M \in Nat
  BY DEF LedgerFine
<1>2. /\ all \in Seq(Versions) /\ Len(all) = R + M
      /\ \A n \in 1 .. R : all[n] = rows[n]
      /\ \A n \in 1 .. M : all[R + n] = more[n]
  BY <1>1, ConcatProperties
<1> HIDE DEF all
<1>3. ASSUME NEW n \in 1 .. R + M, n \notin 1 .. R PROVE n - R \in 1 .. M /\ n = R + (n - R)
  BY <1>1, <1>3
<1>4. /\ ToSet(rows) = {rows[n] : n \in 1 .. R} /\ ToSet(more) = {more[n] : n \in 1 .. M}
      /\ ToSet(all) = {all[n] : n \in 1 .. R + M} /\ DOMAIN all = 1 .. R + M
  BY <1>1, <1>2, RowsApplied
<1>5. ASSUME NEW n \in 1 .. M PROVE Before(all, R + n) = ToSet(rows) \union Before(more, n)
  <2>1. \A m \in 1 .. R + n - 1 : m \in 1 .. R \/ (m - R \in 1 .. n - 1 /\ m = R + (m - R))
    BY <1>1
  <2>2. \A m \in 1 .. R : m \in 1 .. R + n - 1
    BY <1>1
  <2>3. \A m \in 1 .. n - 1 : R + m \in 1 .. R + n - 1 /\ m \in 1 .. M
    BY <1>1
  <2>4. Before(all, R + n) \subseteq ToSet(rows) \union Before(more, n)
    <3>1. ASSUME NEW m \in 1 .. R + n - 1 PROVE all[m] \in ToSet(rows) \union Before(more, n)
      <4>1. CASE m \in 1 .. R
        BY <1>2, <1>4, <4>1
      <4>2. CASE m - R \in 1 .. n - 1 /\ m = R + (m - R)
        <5>1. PICK i \in 1 .. n - 1 : m = R + i
          BY <4>2
        <5> QED BY <1>2, <2>3, <5>1 DEF Before
      <4> QED BY <2>1, <4>1, <4>2
    <3> QED BY <3>1 DEF Before
  <2>5. ToSet(rows) \subseteq Before(all, R + n)
    BY <1>2, <1>4, <2>2 DEF Before
  <2>6. Before(more, n) \subseteq Before(all, R + n)
    BY <1>2, <2>3 DEF Before
  <2> QED BY <2>4, <2>5, <2>6
<1>6. ToSet(all) = ToSet(rows) \union ToSet(more)
  <2>1. \A n \in 1 .. R + M : all[n] \in ToSet(rows) \union ToSet(more)
    <3>1. ASSUME NEW n \in 1 .. R + M PROVE all[n] \in ToSet(rows) \union ToSet(more)
      <4>1. CASE n \in 1 .. R
        BY <1>2, <1>4, <4>1
      <4>2. CASE n \notin 1 .. R
        <5>1. PICK i \in 1 .. M : n = R + i
          BY <1>3, <4>2
        <5> QED BY <1>2, <1>4, <5>1
      <4> QED BY <4>1, <4>2
    <3> QED BY <3>1
  <2>2. \A n \in 1 .. R : n \in 1 .. R + M
    BY <1>1
  <2>3. \A n \in 1 .. M : R + n \in 1 .. R + M
    BY <1>1
  <2>4. ToSet(rows) \subseteq ToSet(all)
    BY <1>2, <1>4, <2>2
  <2>5. ToSet(more) \subseteq ToSet(all)
    BY <1>2, <1>4, <2>3
  <2> QED BY <1>4, <2>1, <2>4, <2>5
<1>7. IsInjective(all)
  <2>1. ASSUME NEW m \in 1 .. R + M, NEW n \in 1 .. R + M, m < n PROVE all[m] # all[n]
    <3>1. CASE n \in 1 .. R
      <4>1. m \in 1 .. R /\ m # n /\ DOMAIN rows = 1 .. R
        BY <1>1, <2>1, <3>1
      <4> QED BY <1>2, <3>1, <4>1 DEF LedgerFine, IsInjective
    <3>2. CASE n \notin 1 .. R
      <4>1. PICK i \in 1 .. M : n = R + i
        BY <1>3, <3>2
      <4>2. all[n] = more[i] /\ more[i] \notin ToSet(rows) \union Before(more, i)
        BY <1>2, <4>1 DEF Fits
      <4>3. m \in 1 .. n - 1
        BY <2>1
      <4>4. all[m] \in Before(all, R + i)
        BY <4>1, <4>3 DEF Before
      <4> QED BY <1>5, <4>2, <4>4
    <3> QED BY <3>1, <3>2
  <2>2. \A m, n \in 1 .. R + M : m < n \/ n < m \/ m = n
    BY <1>1
  <2> QED BY <1>4, <2>1, <2>2 DEF IsInjective
<1>8. ASSUME NEW n \in 1 .. R + M PROVE Needs(all[n]) \subseteq Before(all, n)
  <2>1. CASE n \in 1 .. R
    <3>1. \A m \in 1 .. n - 1 : m \in 1 .. R
      BY <1>1, <2>1
    <3>2. Before(all, n) = Before(rows, n)
      BY <1>2, <3>1 DEF Before
    <3> QED BY <1>2, <2>1, <3>2 DEF LedgerFine
  <2>2. CASE n \notin 1 .. R
    <3>1. PICK i \in 1 .. M : n = R + i
      BY <1>3, <2>2
    <3> QED BY <1>2, <1>5, <3>1 DEF Fits
  <2> QED BY <2>1, <2>2
<1>9. LedgerFine(all)
  BY <1>2, <1>7, <1>8 DEF LedgerFine
<1> QED BY <1>6, <1>9 DEF all

(* The latest row: no migration in the ledger needs it.                    *)
LEMMA FineLess ==
  ASSUME NEW rows, LedgerFine(rows), rows # <<>>
  PROVE  /\ LedgerFine(Front(rows)) /\ ToSet(Front(rows)) = ToSet(rows) \ {Last(rows)}
         /\ Last(rows) \in ToSet(rows) /\ \A w \in ToSet(rows) : Last(rows) \notin Needs(w)
<1> DEFINE R == Len(rows)
           front == Front(rows)
<1>1. rows \in Seq(Versions) /\ R \in Nat /\ R > 0 /\ R \in 1 .. R /\ Last(rows) = rows[R]
  BY DEF LedgerFine, Last
<1>2. /\ front \in Seq(Versions) /\ Len(front) = R - 1
      /\ \A n \in 1 .. R - 1 : front[n] = rows[n]
  <2>1. 1 \in Int /\ R - 1 \in Int /\ \A n \in 1 .. R - 1 : rows[n] \in Versions
    BY <1>1
  <2>2. /\ SubSeq(rows, 1, R - 1) \in Seq(Versions)
        /\ Len(SubSeq(rows, 1, R - 1)) = IF 1 <= R - 1 THEN (R - 1) - 1 + 1 ELSE 0
        /\ \A n \in 1 .. (R - 1) - 1 + 1 : SubSeq(rows, 1, R - 1)[n] = rows[1 + n - 1]
    BY <2>1, SubSeqProperties
  <2>3. \A n \in 1 .. R - 1 : n \in 1 .. (R - 1) - 1 + 1 /\ 1 + n - 1 = n
    BY <1>1
  <2>4. front = SubSeq(rows, 1, R - 1)
    BY DEF Front
  <2> HIDE DEF front
  <2>5. Len(front) = R - 1
    <3>1. \A r \in Nat : r > 0 => (IF 1 <= r - 1 THEN (r - 1) - 1 + 1 ELSE 0) = r - 1
      OBVIOUS
    <3>2. Len(front) = IF 1 <= R - 1 THEN (R - 1) - 1 + 1 ELSE 0
      BY <2>2, <2>4
    <3> HIDE DEF R
    <3> QED BY <1>1, <3>1, <3>2
  <2>6. \A n \in 1 .. R - 1 : front[n] = rows[n]
    <3>1. ASSUME NEW n \in 1 .. R - 1 PROVE front[n] = rows[n]
      <4>1. front[n] = rows[1 + n - 1] /\ 1 + n - 1 = n
        BY <2>2, <2>3, <2>4
      <4> QED BY <4>1
    <3> QED BY <3>1
  <2> QED BY <2>2, <2>4, <2>5, <2>6
<1> HIDE DEF front
<1>3. /\ ToSet(rows) = {rows[n] : n \in 1 .. R} /\ DOMAIN rows = 1 .. R
      /\ ToSet(front) = {front[n] : n \in 1 .. R - 1} /\ DOMAIN front = 1 .. R - 1
  BY <1>1, <1>2, RowsApplied
<1>4. \A n \in 1 .. R : n = R \/ n \in 1 .. R - 1
  BY <1>1
<1>5. \A n \in 1 .. R - 1 : n \in 1 .. R /\ n # R
  BY <1>1
<1>6. \A m, n \in 1 .. R : rows[m] = rows[n] => m = n
  BY <1>3 DEF LedgerFine, IsInjective
<1>7. ToSet(front) = ToSet(rows) \ {rows[R]}
  BY <1>1, <1>2, <1>3, <1>4, <1>5, <1>6
<1>8. \A n \in 1 .. R : rows[R] \notin Needs(rows[n])
  <2>1. ASSUME NEW n \in 1 .. R, rows[R] \in Needs(rows[n]) PROVE FALSE
    <3>1. rows[R] \in Before(rows, n)
      BY <2>1 DEF LedgerFine
    <3>2. PICK m \in 1 .. n - 1 : rows[m] = rows[R]
      BY <3>1 DEF Before
    <3>3. m \in 1 .. R /\ m # R
      BY <1>1
    <3> QED BY <1>1, <1>6, <3>2, <3>3
  <2> QED BY <2>1
<1>9. LedgerFine(front)
  <2>1. IsInjective(front)
    BY <1>2, <1>3, <1>5, <1>6 DEF IsInjective
  <2>2. ASSUME NEW n \in 1 .. R - 1 PROVE Needs(front[n]) \subseteq Before(front, n)
    <3>1. \A m \in 1 .. n - 1 : m \in 1 .. R - 1
      BY <1>1
    <3>2. Before(front, n) = Before(rows, n)
      BY <1>2, <3>1 DEF Before
    <3>3. front[n] = rows[n] /\ n \in 1 .. R
      BY <1>2, <1>5
    <3> QED BY <3>2, <3>3 DEF LedgerFine
  <2> QED BY <1>2, <2>1, <2>2 DEF LedgerFine
<1> QED BY <1>1, <1>3, <1>7, <1>8, <1>9 DEF front

-----------------------------------------------------------------------------
LEMMA VersionSequences ==
  ASSUME NEW s
  PROVE  /\ s \in Seq(Versions) => IsSequence(s) /\ \A n \in 1 .. Len(s) : s[n] \in Versions
         /\ IsSequence(s) /\ ToSet(s) \subseteq Versions => s \in Seq(Versions)
<1>1. ASSUME s \in Seq(Versions)
      PROVE  IsSequence(s) /\ \A n \in 1 .. Len(s) : s[n] \in Versions
  BY <1>1 DEF IsSequence
<1>2. ASSUME IsSequence(s), ToSet(s) \subseteq Versions PROVE s \in Seq(Versions)
  <2>1. PICK N \in Nat : N = Len(s)
    BY <1>2 DEF IsSequence
  <2>2. s = [n \in 1 .. N |-> s[n]] /\ DOMAIN s = 1 .. N
    BY <1>2, <2>1 DEF IsSequence
  <2>3. \A n \in 1 .. N : s[n] \in Versions
    BY <1>2, <2>2 DEF ToSet
  <2>4. [n \in 1 .. N |-> s[n]] \in [1 .. N -> Versions]
    BY <2>3
  <2>5. [n \in 1 .. N |-> s[n]] \in Seq(Versions)
    BY <2>1, <2>4
  <2> QED BY <2>2, <2>5
<1> QED BY <1>1, <1>2

LEMMA NoRows ==
  /\ <<>> \in Seq(Versions) /\ ToSet(<<>>) = {}
  /\ LedgerFine(<<>>) /\ SchemaOf({}) = {}
<1>1. <<>> \in Seq(Versions) /\ Len(<<>>) = 0 /\ DOMAIN <<>> = {} /\ 1 .. 0 = {}
  OBVIOUS
<1>2. ToSet(<<>>) = {}
  BY <1>1 DEF ToSet
<1>3. LedgerFine(<<>>)
  BY <1>1 DEF LedgerFine, IsInjective
<1>4. SchemaOf({}) = {}
  BY DEF SchemaOf, SchemaAt, BatchesOf
<1> QED BY <1>1, <1>2, <1>3, <1>4

(* What belongs or refers to something in the schema finds it there.       *)
LEMMA FineSchema ==
  ASSUME NEW rows, LedgerFine(rows), NEW s, s = SchemaOf(ToSet(rows))
  PROVE  /\ \A x \in s : {x.owner} \union x.refs \subseteq Names(s)
         /\ ToSet(rows) \subseteq Versions /\ s # Failed
<1>1. Good(ToSet(rows))
  BY FineIsGood
<1>2. PICK K : K = BatchesOf(ToSet(rows))
  OBVIOUS
<1>3. Closed(K) /\ s = SchemaAt(K)
  BY <1>1, <1>2, BatchesOfGood DEF SchemaOf
<1>4. \A x \in s : \A p \in {x.owner} \union x.refs : p \in Names(s)
  BY <1>3, SchemaShape
<1>5. s # Failed
  BY <1>3, NothingFailed
<1> QED BY <1>1, <1>4, <1>5 DEF Good

(* runMigrations finds pending what the instance knows and the ledger does *)
(* not have.                                                               *)
LEMMA PendingIs ==
  ASSUME NEW i \in Instances, build \in [Instances -> Builds]
  PROVE  /\ Pending(i) \in Seq(Versions)
         /\ ToSet(Pending(i)) = Known(i) \ Applied
<1>1. Known(i) \ Applied \in SUBSET Versions
  <2>1. build[i] \in 1 .. 7
    BY StartupAssumption, VersionsAre
  <2> QED BY <2>1, VersionsAre DEF Known
<1>2. PICK A \in SUBSET Versions : A = Known(i) \ Applied
  BY <1>1
<1>3. IsSequence(InOrder(A)) /\ ToSet(InOrder(A)) = A
  BY InOrderIs
<1>4. InOrder(A) \in Seq(Versions)
  BY <1>3, VersionSequences
<1> QED BY <1>2, <1>3, <1>4 DEF Pending

-----------------------------------------------------------------------------
(* What an instance has found stays pending until its transaction, which   *)
(* leaves it with all that it knows unless a migration was reverted.       *)
Looked(i) ==
  /\ pc[i] # "run" => pending[i] = <<>>
  /\ pc[i] = "run" => stale[i] \/ Known(i) \subseteq Applied \union ToSet(pending[i])

(* The inductive invariant: the ledger has each migration after those that *)
(* it needs, and the schema is what the migrations in it make together.    *)
Migrated ==
  /\ TypeOK
  /\ LedgerFine(ledger) /\ schema = SchemaOf(Applied)
  /\ pending \in [Instances -> Seq(Versions)] /\ stale \in [Instances -> BOOLEAN]
  /\ \A i \in Instances : Looked(i)

LEMMA InitMigrated == Init => Migrated
<1> SUFFICES ASSUME Init PROVE Migrated
  OBVIOUS
<1>1. Applied = {} /\ LedgerFine(ledger) /\ schema = SchemaOf(Applied)
  BY NoRows DEF Init, Applied
<1>2. (CHOOSE n \in Builds : TRUE) \in Builds
  BY StartupAssumption
<1>3. build \in [Instances -> Builds]
  BY <1>2 DEF Init
<1>4. \A i \in Instances : pending[i] = <<>> /\ pc[i] = "off"
  BY DEF Init
<1>5. \A i \in Instances : ToSet(pending[i]) \subseteq Known(i)
  BY <1>4, NoRows
<1>6. pending \in [Instances -> Seq(Versions)] /\ stale \in [Instances -> BOOLEAN]
  BY NoRows DEF Init
<1>7. \A i \in Instances : Looked(i)
  BY <1>4 DEF Looked
<1>8. clashes \subseteq {"emails", "contracts", "phones"}
  BY DEF Init
<1>9. pc \in [Instances -> {"off", "show", "load", "run", "serving"}]
  BY DEF Init
<1>10. reverts \in 0 .. MaxReverts /\ crashes \in 0 .. MaxCrashes
  BY StartupAssumption DEF Init
<1>11. schema = {} /\ roles \in BOOLEAN
  BY DEF Init
<1>12. TypeOK
  BY <1>1, <1>3, <1>5, <1>8, <1>9, <1>10, <1>11 DEF TypeOK
<1> QED BY <1>1, <1>6, <1>7, <1>12 DEF Migrated

(* A transaction fails as a whole, or the ledger has what was pending.     *)
LEMMA RunCommits ==
  ASSUME Migrated, NEW i \in Instances, Run(i)
  PROVE  \/ pc'[i] = "off" /\ UNCHANGED <<schema, ledger>>
         \/ /\ pc'[i] = "serving"
            /\ LedgerFine(ledger') /\ schema' = SchemaOf(Applied')
            /\ Applied' = Applied \union ToSet(pending[i])
<1>1. PICK s : s = ExecuteAll(pending[i], schema, clashes)
  OBVIOUS
<1>2. /\ LedgerFine(ledger) /\ Good(Applied) /\ schema = SchemaOf(Applied)
      /\ pending[i] \in Seq(Versions) /\ "nothing" \notin clashes
  BY FineIsGood DEF Migrated, Applied, TypeOK
<1>3. pc \in [Instances -> {"off", "show", "load", "run", "serving"}]
  BY DEF Migrated, TypeOK
<1>4. CASE s = Failed
  BY <1>1, <1>3, <1>4 DEF Run, Go
<1>5. CASE s # Failed
  <2>1. pc'[i] = "serving" /\ schema' = s /\ ledger' = ledger \o pending[i]
    BY <1>1, <1>3, <1>5 DEF Run, Go
  <2>2. IsSequence(pending[i]) /\ \A n \in 1 .. Len(pending[i]) : pending[i][n] \in Versions
    BY <1>2, VersionSequences
  <2>3. PICK more : more = pending[i]
    OBVIOUS
  <2>4. /\ s = SchemaOf(Applied \union ToSet(more))
        /\ \A n \in 1 .. Len(more) : Fits(more, Applied, n)
    BY <1>1, <1>2, <1>5, <2>2, <2>3, AllUp
  <2>5. LedgerFine(ledger \o more) /\ ToSet(ledger \o more) = ToSet(ledger) \union ToSet(more)
    BY <1>2, <2>3, <2>4, FineMore DEF Applied
  <2> QED BY <2>1, <2>3, <2>4, <2>5 DEF Applied
<1> QED BY <1>4, <1>5

(* A revert fails, for the phones that are shared, or takes the latest row *)
(* and what its migration has made.                                        *)
LEMMA RevertUndoes ==
  ASSUME Migrated, ledger # <<>>
  PROVE  LET s == Execute(Migrations[Last(ledger)].down, schema, clashes) IN
         /\ LedgerFine(Front(ledger))
         /\ \/ s = Failed /\ "phones" \in clashes
            \/ s # Failed /\ s = SchemaOf(ToSet(Front(ledger)))
<1>1. /\ LedgerFine(ledger) /\ Good(Applied) /\ schema = SchemaOf(Applied)
      /\ "nothing" \notin clashes
  BY FineIsGood DEF Migrated, Applied, TypeOK
<1>2. PICK v : v = Last(ledger)
  OBVIOUS
<1>3. /\ LedgerFine(Front(ledger)) /\ ToSet(Front(ledger)) = Applied \ {v}
      /\ v \in Applied /\ \A w \in Applied : v \notin Needs(w)
  BY <1>1, <1>2, FineLess DEF Applied
<1>4. Execute(Migrations[v].down, SchemaOf(Applied), clashes) =
        IF v = 3 /\ "phones" \in clashes THEN Failed ELSE SchemaOf(Applied \ {v})
  BY <1>1, <1>3, Down
<1>5. SchemaOf(ToSet(Front(ledger))) # Failed
  BY <1>3, FineSchema
<1> QED BY <1>1, <1>2, <1>3, <1>4, <1>5

LEMMA StepMigrated == Migrated /\ [Next]_vars => Migrated'
<1> SUFFICES ASSUME Migrated, [Next]_vars PROVE Migrated'
  OBVIOUS
<1> DEFINE Steps == {"off", "show", "load", "run", "serving"}
<1>1. /\ LedgerFine(ledger) /\ schema = SchemaOf(Applied)
      /\ pending \in [Instances -> Seq(Versions)] /\ stale \in [Instances -> BOOLEAN]
      /\ \A i \in Instances : Looked(i)
  BY DEF Migrated
<1>2. /\ roles \in BOOLEAN /\ clashes \subseteq {"emails", "contracts", "phones"}
      /\ pc \in [Instances -> Steps] /\ build \in [Instances -> Builds]
      /\ \A i \in Instances : ToSet(pending[i]) \subseteq Known(i)
      /\ reverts \in 0 .. MaxReverts /\ crashes \in 0 .. MaxCrashes
  BY DEF Migrated, TypeOK
<1>3. MaxReverts \in Nat /\ MaxCrashes \in Nat
  BY StartupAssumption
\* What an action leaves as it is.
<1>4. ASSUME UNCHANGED <<schema, ledger>>
      PROVE  Applied' = Applied /\ LedgerFine(ledger') /\ schema' = SchemaOf(Applied')
  BY <1>1, <1>4 DEF Applied
<1>5. ASSUME LedgerFine(ledger'), schema' = SchemaOf(Applied')
      PROVE  /\ \A x \in schema' : {x.owner} \union x.refs \subseteq Names(schema')
             /\ Applied' \subseteq Versions
  <2>1. \A r, s : LedgerFine(r) /\ s = SchemaOf(ToSet(r)) =>
          (\A x \in s : {x.owner} \union x.refs \subseteq Names(s)) /\ ToSet(r) \subseteq Versions
    BY FineSchema
  <2>2. Applied' = ToSet(ledger')
    BY DEF Applied
  <2> QED BY <1>5, <2>1, <2>2
<1>6. ASSUME UNCHANGED <<build, pending>>
      PROVE  \A i \in Instances : ToSet(pending'[i]) \subseteq Known(i)'
  BY <1>2, <1>6 DEF Known
<1>7. ASSUME UNCHANGED <<ledger, build, pending, stale>>, NEW i \in Instances, pc'[i] = pc[i]
      PROVE  Looked(i)'
  BY <1>1, <1>7 DEF Looked, Applied, Known
<1>8. ASSUME NEW i \in Instances, NEW j \in Instances, NEW step, Go(i, step)
      PROVE  pc'[j] = IF j = i THEN step ELSE pc[j]
  BY <1>2, <1>8 DEF Go
<1>9. ASSUME NEW i \in Instances, Start(i) PROVE Migrated'
  <2>1. pc[i] = "off" /\ pending[i] = <<>> /\ ToSet(pending[i]) = {}
    BY <1>1, <1>9, NoRows DEF Looked, Start
  <2>2. PICK n \in Builds : build' = [build EXCEPT ![i] = n]
    BY <1>9 DEF Start
  <2>3. PICK step \in {"show", "serving"} : Go(i, step)
    BY <1>9 DEF Start
  <2>4. /\ UNCHANGED <<schema, ledger, roles, clashes, pending, reverts, crashes>>
        /\ stale' = [stale EXCEPT ![i] = FALSE]
    BY <1>9 DEF Start, databaseVars
  <2>5. pc' \in [Instances -> Steps] /\ build' \in [Instances -> Builds]
    BY <1>2, <2>2, <2>3 DEF Go
  <2>6. ASSUME NEW j \in Instances PROVE ToSet(pending'[j]) \subseteq Known(j)' /\ Looked(j)'
    <3>1. CASE j = i
      BY <1>8, <2>1, <2>3, <2>4, <3>1 DEF Looked
    <3>2. CASE j # i
      <4>1. pc'[j] = pc[j] /\ build'[j] = build[j] /\ stale'[j] = stale[j]
        BY <1>1, <1>2, <1>8, <2>2, <2>3, <2>4, <3>2
      <4> QED BY <1>1, <1>2, <2>4, <4>1 DEF Looked, Known, Applied
    <3> QED BY <3>1, <3>2
  <2>7. TypeOK'
    BY <1>2, <1>4, <1>5, <2>4, <2>5, <2>6 DEF TypeOK
  <2> QED BY <1>1, <1>4, <2>4, <2>6, <2>7 DEF Migrated
<1>10. ASSUME NEW i \in Instances, Show(i) PROVE Migrated'
  <2>1. PICK step \in {"load", "serving"} : Go(i, step)
    BY <1>10 DEF Show
  <2>2. pc[i] = "show"
        /\ UNCHANGED <<schema, ledger, roles, clashes, build, pending, stale, reverts, crashes>>
    BY <1>10 DEF Show, databaseVars
  <2>3. pc' \in [Instances -> Steps]
    BY <1>2, <2>1 DEF Go
  <2>4. ASSUME NEW j \in Instances PROVE Looked(j)'
    <3>1. CASE j = i
      BY <1>1, <1>8, <2>1, <2>2, <3>1 DEF Looked
    <3>2. CASE j # i
      BY <1>7, <1>8, <2>1, <2>2, <3>2
    <3> QED BY <3>1, <3>2
  <2>5. TypeOK'
    BY <1>2, <1>4, <1>5, <1>6, <2>2, <2>3 DEF TypeOK
  <2> QED BY <1>1, <1>4, <2>2, <2>4, <2>5 DEF Migrated
<1>11. ASSUME NEW i \in Instances, Load(i) PROVE Migrated'
  <2>1. /\ Go(i, "run") /\ pending' = [pending EXCEPT ![i] = Pending(i)]
        /\ stale' = [stale EXCEPT ![i] = FALSE]
        /\ UNCHANGED <<schema, ledger, roles, clashes, build, reverts, crashes>>
    BY <1>11 DEF Load, databaseVars
  <2>2. Pending(i) \in Seq(Versions) /\ ToSet(Pending(i)) = Known(i) \ Applied
    BY <1>2, PendingIs
  <2>3. pc' \in [Instances -> Steps] /\ pending' \in [Instances -> Seq(Versions)]
    BY <1>1, <1>2, <2>1, <2>2 DEF Go
  <2>4. ASSUME NEW j \in Instances PROVE ToSet(pending'[j]) \subseteq Known(j)' /\ Looked(j)'
    <3>1. Known(j)' = Known(j) /\ Applied' = Applied
      BY <2>1 DEF Known, Applied
    <3>2. CASE j = i
      <4>1. pc'[j] = "run" /\ pending'[j] = Pending(i)
        BY <1>1, <1>8, <2>1, <3>2
      <4> QED BY <2>2, <3>1, <3>2, <4>1 DEF Looked
    <3>3. CASE j # i
      <4>1. pc'[j] = pc[j] /\ pending'[j] = pending[j] /\ stale'[j] = stale[j]
        BY <1>1, <1>8, <2>1, <3>3
      <4> QED BY <1>1, <1>2, <3>1, <4>1 DEF Looked
    <3> QED BY <3>2, <3>3
  <2>5. TypeOK'
    BY <1>2, <1>4, <1>5, <2>1, <2>3, <2>4 DEF TypeOK
  <2> QED BY <1>1, <1>4, <2>1, <2>3, <2>4, <2>5 DEF Migrated
<1>12. ASSUME NEW i \in Instances, Run(i) PROVE Migrated'
  <2>1. PICK step \in {"off", "serving"} : Go(i, step)
    BY <1>12 DEF Run
  <2>2. /\ pending' = [pending EXCEPT ![i] = <<>>]
        /\ UNCHANGED <<roles, clashes, build, stale, reverts, crashes>>
    BY <1>12 DEF Run
  <2>3. LedgerFine(ledger') /\ schema' = SchemaOf(Applied') /\ Applied \subseteq Applied'
    BY <1>4, <1>12, RunCommits
  <2>4. pc' \in [Instances -> Steps] /\ pending' \in [Instances -> Seq(Versions)]
    BY <1>1, <1>2, <2>1, <2>2, NoRows DEF Go
  <2>5. ASSUME NEW j \in Instances PROVE ToSet(pending'[j]) \subseteq Known(j)' /\ Looked(j)'
    <3>1. CASE j = i
      <4>1. pc'[j] # "run" /\ pending'[j] = <<>>
        BY <1>1, <1>8, <2>1, <2>2, <3>1
      <4> QED BY <4>1, NoRows DEF Looked
    <3>2. CASE j # i
      <4>1. /\ pc'[j] = pc[j] /\ pending'[j] = pending[j] /\ stale'[j] = stale[j]
            /\ Known(j)' = Known(j)
        BY <1>1, <1>8, <2>1, <2>2, <3>2 DEF Known
      <4> QED BY <1>1, <1>2, <2>3, <4>1 DEF Looked
    <3> QED BY <3>1, <3>2
  <2>6. TypeOK'
    BY <1>2, <1>5, <2>2, <2>3, <2>4, <2>5 DEF TypeOK
  <2> QED BY <1>1, <2>2, <2>3, <2>4, <2>5, <2>6 DEF Migrated
<1>13. ASSUME NEW i \in Instances, Crash(i) PROVE Migrated'
  <2>1. /\ Go(i, "off") /\ pending' = [pending EXCEPT ![i] = <<>>]
        /\ crashes < MaxCrashes /\ crashes' = crashes + 1
        /\ UNCHANGED <<schema, ledger, roles, clashes, build, stale, reverts>>
    BY <1>13 DEF Crash, databaseVars
  <2>2. pc' \in [Instances -> Steps] /\ pending' \in [Instances -> Seq(Versions)]
    BY <1>1, <1>2, <2>1, NoRows DEF Go
  <2>3. ASSUME NEW j \in Instances PROVE ToSet(pending'[j]) \subseteq Known(j)' /\ Looked(j)'
    <3>1. Known(j)' = Known(j) /\ Applied' = Applied
      BY <2>1 DEF Known, Applied
    <3>2. CASE j = i
      <4>1. pc'[j] = "off" /\ pending'[j] = <<>>
        BY <1>1, <1>8, <2>1, <3>2
      <4> QED BY <4>1, NoRows DEF Looked
    <3>3. CASE j # i
      <4>1. pc'[j] = pc[j] /\ pending'[j] = pending[j] /\ stale'[j] = stale[j]
        BY <1>1, <1>8, <2>1, <3>3
      <4> QED BY <1>1, <1>2, <3>1, <4>1 DEF Looked
    <3> QED BY <3>2, <3>3
  <2>4. crashes' \in 0 .. MaxCrashes
    BY <1>2, <1>3, <2>1
  <2>5. TypeOK'
    BY <1>2, <1>4, <1>5, <2>1, <2>2, <2>3, <2>4 DEF TypeOK
  <2> QED BY <1>1, <1>4, <2>1, <2>2, <2>3, <2>5 DEF Migrated
<1>14. ASSUME Revert PROVE Migrated'
  <2>1. PICK s : s = Execute(Migrations[Last(ledger)].down, schema, clashes)
    OBVIOUS
  <2>2. /\ ledger # <<>> /\ reverts < MaxReverts /\ reverts' = reverts + 1
        /\ UNCHANGED <<clashes, pc, build, pending, crashes>>
    BY <1>14 DEF Revert
  <2>3. /\ s = Failed => UNCHANGED <<schema, ledger, roles, stale>>
        /\ s # Failed => /\ schema' = s /\ ledger' = Front(ledger)
                         /\ roles' = (roles /\ "roles" \in Names(s))
                         /\ stale' = [i \in Instances |-> TRUE]
    BY <1>14, <2>1 DEF Revert
  <2>4. LedgerFine(Front(ledger)) /\ (s # Failed => s = SchemaOf(ToSet(Front(ledger))))
    BY <2>1, <2>2, RevertUndoes
  <2>5. LedgerFine(ledger') /\ schema' = SchemaOf(Applied')
    BY <1>4, <2>3, <2>4 DEF Applied
  <2>6. roles' \in BOOLEAN /\ stale' \in [Instances -> BOOLEAN]
    BY <1>1, <1>2, <2>3
  <2>7. ASSUME NEW j \in Instances PROVE Looked(j)'
    <3>1. CASE s = Failed
      BY <1>7, <2>2, <2>3, <3>1
    <3>2. CASE s # Failed
      <4>1. stale'[j]
        BY <2>3, <3>2
      <4> QED BY <1>1, <2>2, <4>1 DEF Looked
    <3> QED BY <3>1, <3>2
  <2>8. reverts' \in 0 .. MaxReverts
    BY <1>2, <1>3, <2>2
  <2>9. TypeOK'
    BY <1>2, <1>5, <1>6, <2>2, <2>5, <2>6, <2>8 DEF TypeOK
  <2> QED BY <1>1, <2>2, <2>5, <2>6, <2>7, <2>9 DEF Migrated
<1>15. ASSUME Seed PROVE Migrated'
  <2>1. /\ roles' = TRUE
        /\ UNCHANGED <<schema, ledger, clashes, pc, build, pending, stale, reverts, crashes>>
    BY <1>15 DEF Seed, instanceVars
  <2>2. TypeOK'
    BY <1>2, <1>4, <1>5, <1>6, <2>1 DEF TypeOK
  <2> QED BY <1>1, <1>4, <1>7, <2>1, <2>2 DEF Migrated
<1>16. ASSUME SharePhone PROVE Migrated'
  <2>1. /\ clashes' = clashes \union {"phones"}
        /\ UNCHANGED <<schema, ledger, roles, pc, build, pending, stale, reverts, crashes>>
    BY <1>16 DEF SharePhone, instanceVars
  <2>2. TypeOK'
    BY <1>2, <1>4, <1>5, <1>6, <2>1 DEF TypeOK
  <2> QED BY <1>1, <1>4, <1>7, <2>1, <2>2 DEF Migrated
<1>17. ASSUME UNCHANGED vars PROVE Migrated'
  <2>1. /\ UNCHANGED <<schema, ledger, roles, clashes, reverts, crashes>>
        /\ UNCHANGED <<pc, build, pending, stale>>
    BY <1>17 DEF vars, databaseVars, instanceVars
  <2>2. TypeOK'
    BY <1>2, <1>4, <1>5, <1>6, <2>1 DEF TypeOK
  <2> QED BY <1>1, <1>4, <1>7, <2>1, <2>2 DEF Migrated
<1> QED BY <1>9, <1>10, <1>11, <1>12, <1>13, <1>14, <1>15, <1>16, <1>17 DEF Next

LEMMA AlwaysMigrated == Spec => []Migrated
<1>1. Init => Migrated
  BY InitMigrated
<1>2. Migrated /\ [Next]_vars => Migrated'
  BY StepMigrated
<1> QED BY <1>1, <1>2, PTL DEF Spec

-----------------------------------------------------------------------------
(* In every reachable state the variables have their types, every instance *)
(* has pending only migrations that its build knows, and no part is left   *)
(* in the schema without what it belongs and refers to.                    *)
THEOREM TypeCorrect == Spec => []TypeOK
<1>1. Migrated => TypeOK
  BY DEF Migrated
<1> QED BY <1>1, AlwaysMigrated, PTL

(* Whichever instances start together, of whichever builds, and whatever   *)
(* is reverted, no migration is recorded twice, and the schema is the one  *)
(* that the recorded migrations make of an empty one in their order.       *)
THEOREM LedgerRight == Spec => []SchemaMatchesLedger
<1>1. Migrated => SchemaMatchesLedger
  <2> SUFFICES ASSUME Migrated PROVE SchemaMatchesLedger
    OBVIOUS
  <2>1. LedgerFine(ledger) /\ schema = SchemaOf(Applied)
    BY DEF Migrated
  <2>2. Good(Applied)
    BY <2>1, FineIsGood DEF Applied
  <2>3. schema = ExecuteAll(InOrder(Applied), {}, {})
    BY <2>1, <2>2, AllInOrder
  <2> QED BY <2>1, <2>3 DEF SchemaMatchesLedger, LedgerFine
<1> QED BY <1>1, AlwaysMigrated, PTL

(* The down statements of the latest migration in the ledger never fail on *)
(* the schema they find, but for the phones that accounts share by then.   *)
THEOREM RevertPossible == Spec => []LatestCanBeReverted
<1>1. Migrated => LatestCanBeReverted
  <2> SUFFICES ASSUME Migrated, ledger # <<>> PROVE LatestCanBeReverted
    BY DEF LatestCanBeReverted
  <2>1. PICK s : s = Execute(Migrations[Last(ledger)].down, schema, clashes)
    OBVIOUS
  <2>2. s # Failed \/ "phones" \in clashes
    BY <2>1, RevertUndoes
  <2> QED BY <2>1, <2>2 DEF LatestCanBeReverted
<1> QED BY <1>1, AlwaysMigrated, PTL

(* db:verify passes only a schema in which the first four migrations are,  *)
(* and a complete one exactly when the roles have been seeded.             *)
THEOREM VerificationSound == Spec => []VerificationFindsGaps
<1> DEFINE Required == RequiredIdentityTables \union RequiredPlatformTables
                         \union {"trg_audit_logs_append_only", "users.phone_login_enabled",
                                 "otp_challenges.email", "otp_challenges.verified_at"}
<1>1. ASSUME NEW A, Good(A), NEW p \in Required, p \in Names(SchemaOf(A))
      PROVE  PlaceOf(p) \in BatchesOf(A)
  <2>1. p # "public"
    BY DEF RequiredIdentityTables, RequiredPlatformTables
  <2> QED BY <1>1, <2>1, BatchesOfGood, NamePlaced DEF SchemaOf
<1>2. /\ PlaceOf("roles") = 2 /\ PlaceOf("social_identities") = 7
      /\ PlaceOf("users.phone_login_enabled") = 8 /\ PlaceOf("password_reset_tokens") = 9
  BY DEF PlaceOf, NamesOf
<1>3. ASSUME NEW A, Good(A), Required \subseteq Names(SchemaOf(A)) PROVE 1 .. 4 \subseteq A
  <2>1. {"roles", "social_identities", "users.phone_login_enabled", "password_reset_tokens"}
          \subseteq Required
    BY DEF RequiredIdentityTables
  <2>2. {2, 7, 8, 9} \subseteq BatchesOf(A)
    BY <1>1, <1>2, <1>3, <2>1
  <2>3. /\ \A k \in 1 .. 6 : k \in BatchesOf(A) <=> 1 \in A
        /\ \A v \in 2 .. 7 : v + 5 \in BatchesOf(A) <=> v \in A
    BY <1>3, BatchesOfGood
  <2>4. 2 \in 1 .. 6 /\ 2 \in 2 .. 7 /\ 3 \in 2 .. 7 /\ 4 \in 2 .. 7
        /\ 2 + 5 = 7 /\ 3 + 5 = 8 /\ 4 + 5 = 9
    OBVIOUS
  <2>5. {1, 2, 3, 4} \subseteq A
    BY <2>2, <2>3, <2>4
  <2>6. \A v \in 1 .. 4 : v \in {1, 2, 3, 4}
    OBVIOUS
  <2> QED BY <2>5, <2>6
<1>4. Required \subseteq Names(SchemaOf(Versions)) /\ Good(Versions)
  <2>1. Good(Versions)
    BY VersionsAre DEF Good, Needs
  <2>2. PICK K : K = BatchesOf(Versions)
    OBVIOUS
  <2>3. Closed(K)
    BY <2>1, <2>2, BatchesOfGood
  <2>4. \A k \in 1 .. 12 : k \in K
    BY <2>2, VersionsAre DEF BatchesOf, Batches
  <2>5. Required \subseteq NamesOf(2) \union NamesOf(3) \union NamesOf(4) \union NamesOf(5)
                           \union NamesOf(7) \union NamesOf(8) \union NamesOf(9)
    BY DEF RequiredIdentityTables, RequiredPlatformTables, NamesOf
  <2>6. \A p \in Required : p \notin Removed
    BY DEF RequiredIdentityTables, RequiredPlatformTables, Removed
  <2> HIDE DEF Required
  <2>7. \A p \in Required : \E k \in 1 .. 12 : p \in NamesOf(k)
    <3>1. \A k \in {2, 3, 4, 5, 7, 8, 9} : k \in 1 .. 12
      OBVIOUS
    <3> QED BY <2>5, <3>1
  <2>8. \A p \in Required : p \in Names(SchemaAt(K))
    BY <2>3, <2>4, <2>6, <2>7, NameThere
  <2> QED BY <2>1, <2>2, <2>8 DEF SchemaOf
<1>5. Migrated => VerificationFindsGaps
  <2> SUFFICES ASSUME Migrated PROVE VerificationFindsGaps
    OBVIOUS
  <2>1. schema = SchemaOf(Applied) /\ Good(Applied) /\ roles \in BOOLEAN
    BY FineIsGood DEF Migrated, Applied, TypeOK
  <2>2. Verified(schema, roles) <=> roles /\ Required \subseteq Names(schema)
    BY DEF Verified
  <2> HIDE DEF Required
  <2>3. Verified(schema, roles) => 1 .. 4 \subseteq Applied
    BY <1>3, <2>1, <2>2
  <2>4. ASSUME Versions \subseteq Applied PROVE Verified(schema, roles) <=> roles
    <3>1. Applied = Versions
      BY <2>1, <2>4 DEF Good
    <3> QED BY <1>4, <2>1, <2>2, <3>1
  <2> QED BY <2>3, <2>4 DEF VerificationFindsGaps
<1> QED BY <1>5, AlwaysMigrated, PTL

(* An instance that migrates begins to serve with all the migrations that  *)
(* its build knows in the ledger, unless one was reverted after it looked. *)
THEOREM ServesMigrated == Spec => ServesAfterMigrating
<1> DEFINE Serves(i) ==
             pc[i] # "serving" /\ pc'[i] = "serving" =>
               \/ \A v \in Known(i) : \E n \in DOMAIN ledger' : ledger'[n] = v
               \/ stale[i]
<1>1. ASSUME Migrated, [Next]_vars, NEW i \in Instances, i \in Migrating,
             pc[i] # "serving", pc'[i] = "serving"
      PROVE  stale[i] \/ Known(i) \subseteq Applied'
  <2>1. /\ pc \in [Instances -> {"off", "show", "load", "run", "serving"}]
        /\ build \in [Instances -> Builds] /\ Looked(i)
    BY <1>1 DEF Migrated, TypeOK
  <2>2. ASSUME NEW j \in Instances, NEW step, Go(j, step)
        PROVE  pc'[i] = IF i = j THEN step ELSE pc[i]
    BY <2>1, <2>2 DEF Go
  <2>3. ASSUME NEW j \in Instances, Start(j) PROVE FALSE
    <3>1. PICK step : Go(j, step) /\ (j \in Migrating => step = "show")
      BY <2>3 DEF Start
    <3> QED BY <1>1, <2>2, <3>1
  <2>4. ASSUME NEW j \in Instances, Show(j) PROVE Known(i) \subseteq Applied'
    <3>1. PICK step : Go(j, step) /\ (step = "serving" => Pending(j) = <<>>)
      BY <2>4 DEF Show
    <3>2. i = j /\ Pending(i) = <<>>
      BY <1>1, <2>2, <3>1
    <3>3. ToSet(Pending(i)) = Known(i) \ Applied /\ ToSet(<<>>) = {}
      BY <2>1, PendingIs, NoRows
    <3>4. Applied' = Applied
      BY <2>4 DEF Show, databaseVars, Applied
    <3> QED BY <3>2, <3>3, <3>4
  <2>5. ASSUME NEW j \in Instances, Load(j) PROVE FALSE
    <3>1. Go(j, "run")
      BY <2>5 DEF Load
    <3> QED BY <1>1, <2>2, <3>1
  <2>6. ASSUME NEW j \in Instances, Run(j) PROVE stale[i] \/ Known(i) \subseteq Applied'
    <3>1. PICK step : Go(j, step)
      BY <2>6 DEF Run
    <3>2. i = j
      BY <1>1, <2>2, <3>1
    <3>3. pc[i] = "run"
      BY <2>6, <3>2 DEF Run
    <3>4. Applied' = Applied \union ToSet(pending[i])
      BY <1>1, <2>6, <3>2, RunCommits
    <3> QED BY <2>1, <3>3, <3>4 DEF Looked
  <2>7. ASSUME NEW j \in Instances, Crash(j) PROVE FALSE
    <3>1. Go(j, "off")
      BY <2>7 DEF Crash
    <3> QED BY <1>1, <2>2, <3>1
  <2>8. ASSUME Revert \/ Seed \/ SharePhone \/ UNCHANGED vars PROVE FALSE
    <3>1. pc' = pc
      BY <2>8 DEF Revert, Seed, SharePhone, vars, instanceVars
    <3> QED BY <1>1, <3>1
  <2> QED BY <1>1, <2>3, <2>4, <2>5, <2>6, <2>7, <2>8 DEF Next
<1>2. Migrated /\ [Next]_vars => [\A i \in Migrating : Serves(i)]_vars
  <2> SUFFICES ASSUME Migrated, [Next]_vars, NEW i \in Migrating PROVE Serves(i)
    OBVIOUS
  <2>1. i \in Instances
    BY StartupAssumption
  <2>2. \A v \in Applied' : \E n \in DOMAIN ledger' : ledger'[n] = v
    BY DEF Applied, ToSet
  <2> QED BY <1>1, <2>1, <2>2
<1> QED BY <1>2, AlwaysMigrated, PTL DEF Spec, ServesAfterMigrating
=============================================================================
