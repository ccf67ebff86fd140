-------------------------- MODULE RateLimiterProofs --------------------------
(***************************************************************************)
(* Proofs about RateLimiter, for any number of requests and any limits and *)
(* durations that the assumption on the keys allows.                       *)
(***************************************************************************)
EXTENDS RateLimiter, FiniteSetTheorems, TLAPS

USE RateLimiterAssumption

(* What a request that has arrived knows of its policy.                    *)
LEMMA PolicyTypes ==
  ASSUME TypeOK, NEW r \in Reqs, pc[r] # "idle"
  PROVE  /\ kind[r] \in Kinds(scope)
         /\ Mine(r).limit \in Nat \ {0}
         /\ Mine(r).block \in Nat
         /\ Mine(r).block - late[r] > 0
         /\ late[r] \in Nat
<1>1. kind[r] \in Kinds(scope) /\ scope \in Watched
  BY DEF TypeOK
<1>2. /\ Mine(r).limit \in Nat \ {0}
      /\ Mine(r).block \in Nat
      /\ Mine(r).block >= 2 * MaxDelay /\ Mine(r).block > 0
  BY <1>1 DEF Mine
<1>3. late[r] \in 0 .. MaxDelay
  BY DEF TypeOK
<1> QED BY <1>1, <1>2, <1>3

(* What a failure makes of the block is a time.                            *)
LEMMA BlockForType ==
  ASSUME TypeOK, NEW r \in Reqs, pc[r] # "idle", NEW n \in Nat
  PROVE  BlockFor(r, n) \in Int
BY PolicyTypes DEF BlockFor, Past

(* The variables of the requests after a step of one of them.              *)
ReqTypes ==
  /\ pc \in [Reqs -> {"idle", "ask", "work", "count"}]
  /\ kind \in [Reqs -> DOMAIN Keys]
  /\ \A r \in Reqs : pc[r] # "idle" => kind[r] \in Kinds(scope)
  /\ late \in [Reqs -> 0 .. MaxDelay]

LEMMA GoTypes ==
  ASSUME TypeOK, NEW r \in Reqs, pc[r] # "idle", NEW step \in {"work", "count"}, Go(r, step),
         UNCHANGED scope
  PROVE  ReqTypes'
BY DEF TypeOK, ReqTypes, Go, Kinds

LEMMA EndTypes ==
  ASSUME TypeOK, NEW r \in Reqs, End(r), UNCHANGED scope
  PROVE  ReqTypes'
<1>1. "login" \in DOMAIN Keys /\ 0 \in 0 .. MaxDelay
  BY DEF Keys
<1>2. kind' \in [Reqs -> DOMAIN Keys] /\ late' \in [Reqs -> 0 .. MaxDelay]
  BY <1>1 DEF TypeOK, End
<1>3. /\ pc' \in [Reqs -> {"idle", "ask", "work", "count"}]
      /\ \A q \in Reqs : pc'[q] # "idle" => kind'[q] \in Kinds(scope)'
  BY DEF TypeOK, End, Kinds
<1> QED BY <1>2, <1>3 DEF ReqTypes

-----------------------------------------------------------------------------
LEMMA InitTypes == Init => TypeOK
<1> SUFFICES ASSUME Init PROVE TypeOK
  OBVIOUS
<1>1. "login" \in DOMAIN Keys
  BY DEF Keys
<1>2. age \in Nat /\ block \in Int /\ 0 \in 0 .. MaxDelay
  BY DEF Init, Past
<1> QED BY <1>1, <1>2 DEF Init, TypeOK

LEMMA StepTypes == TypeOK /\ [Next]_vars => TypeOK'
<1> SUFFICES ASSUME TypeOK, [Next]_vars PROVE TypeOK'
  OBVIOUS
<1>1. CASE UNCHANGED vars
  BY <1>1 DEF vars, bucketVars, reqVars, TypeOK, Kinds
<1>2. CASE Tick
  <2>1. age' \in Nat /\ block' \in Int
    BY <1>2 DEF Tick, TypeOK
  <2>2. late' \in [Reqs -> 0 .. MaxDelay]
    <3>1. \A r \in Reqs : late[r] \in 0 .. MaxDelay
      BY DEF TypeOK
    <3>2. \A r \in Reqs : (IF pc[r] = "idle" THEN 0 ELSE late[r] + 1) \in 0 .. MaxDelay
      BY <1>2, <3>1 DEF Tick
    <3> QED BY <1>2, <3>2 DEF Tick
  <2> QED BY <1>2, <2>1, <2>2 DEF Tick, TypeOK, Kinds
<1>3. ASSUME NEW r \in Reqs, Arrive(r) PROVE TypeOK'
  <2>1. PICK k \in Kinds(scope) : kind' = [kind EXCEPT ![r] = k]
    BY <1>3 DEF Arrive
  <2>2. k \in DOMAIN Keys
    BY DEF Kinds
  <2>3. kind' \in [Reqs -> DOMAIN Keys]
    BY <2>1, <2>2 DEF TypeOK
  <2>4. \A q \in Reqs : pc'[q] # "idle" => kind'[q] \in Kinds(scope)
    BY <1>3, <2>1 DEF Arrive, TypeOK
  <2>5. Kinds(scope)' = Kinds(scope)
    BY <1>3 DEF Arrive, Kinds
  <2> QED BY <1>3, <2>3, <2>4, <2>5 DEF Arrive, bucketVars, TypeOK
<1>4. ASSUME NEW r \in Reqs, Ask(r) PROVE TypeOK'
  <2>1. ReqTypes'
    BY <1>4, GoTypes, EndTypes DEF Ask
  <2> QED BY <1>4, <2>1 DEF Ask, bucketVars, TypeOK, ReqTypes
<1>5. ASSUME NEW r \in Reqs, Leave(r) PROVE TypeOK'
  <2>1. ReqTypes'
    BY <1>5, EndTypes DEF Leave
  <2> QED BY <1>5, <2>1 DEF Leave, bucketVars, TypeOK, ReqTypes
<1>6. ASSUME NEW r \in Reqs, Insert(r) PROVE TypeOK'
  <2>1. ReqTypes'
    BY <1>6, EndTypes DEF Insert
  <2>2. age' \in Nat /\ block' \in Int
    BY <1>6, BlockForType, PolicyTypes DEF Insert
  <2> QED BY <1>6, <2>1, <2>2 DEF Insert, TypeOK, ReqTypes
<1>7. ASSUME NEW r \in Reqs, Ensure(r) PROVE TypeOK'
  <2>1. ReqTypes'
    BY <1>7, GoTypes DEF Ensure
  <2> QED BY <1>7, <2>1 DEF Ensure, bucketVars, TypeOK, ReqTypes
<1>8. ASSUME NEW r \in Reqs, CountFailure(r) PROVE TypeOK'
  <2>1. ReqTypes'
    BY <1>8, EndTypes DEF CountFailure
  <2>2. CASE ~present
    BY <1>8, <2>1, <2>2 DEF CountFailure, TypeOK, ReqTypes
  <2>3. CASE present
    <3>1. PICK n : /\ n = IF WindowExpired(r) THEN 1 ELSE count + 1
                   /\ count' = n /\ block' = BlockFor(r, n)
                   /\ age' = IF WindowExpired(r) THEN late[r] ELSE age
      BY <1>8, <2>3 DEF CountFailure
    <3>2. n \in Nat \ {0}
      BY <2>3, <3>1 DEF TypeOK
    <3>3. age' \in Nat /\ block' \in Int
      BY <1>8, <3>1, <3>2, BlockForType, PolicyTypes DEF CountFailure, TypeOK
    <3> QED BY <1>8, <2>1, <2>3, <3>1, <3>2, <3>3 DEF CountFailure, TypeOK, ReqTypes
  <2> QED BY <2>2, <2>3 DEF TypeOK
<1>9. ASSUME NEW r \in Reqs, Clear(r) PROVE TypeOK'
  <2>1. ReqTypes'
    BY <1>9, EndTypes DEF Clear
  <2>2. block' \in Int
    BY <1>9 DEF Clear, Past
  <2> QED BY <1>9, <2>1, <2>2 DEF Clear, TypeOK, ReqTypes
<1> QED BY <1>1, <1>2, <1>3, <1>4, <1>5, <1>6, <1>7, <1>8, <1>9 DEF Next, Finish

(* The bucket and the requests keep their types, and a row that exists has *)
(* counted something, in whatever order requests insert, count and clear.  *)
THEOREM TypeCorrect == Spec => []TypeOK
<1>1. Init => TypeOK
  BY InitTypes
<1>2. TypeOK /\ [Next]_vars => TypeOK'
  BY StepTypes
<1> QED BY <1>1, <1>2, PTL DEF Spec

-----------------------------------------------------------------------------
(* The change that BlockKept allows.                                       *)
Kept ==
  Blocked /\ ~Blocked' =>
    \/ block' = block - 1
    \/ ~present'
    \/ count' = 1
    \/ \E k \in Kinds(scope) : count' < Keys[k][scope].limit

LEMMA StepKeepsBlock == TypeOK /\ [Next]_vars => Kept
<1> SUFFICES ASSUME TypeOK, [Next]_vars, Blocked, ~Blocked'
             PROVE  \/ block' = block - 1
                    \/ ~present'
                    \/ count' = 1
                    \/ \E k \in Kinds(scope) : count' < Keys[k][scope].limit
  BY DEF Kept
<1> USE DEF Blocked
<1>1. CASE UNCHANGED <<present, block>>
  BY <1>1
<1>2. CASE Tick
  <2>1. block > Past
    BY DEF TypeOK, Past
  <2> QED BY <1>2, <2>1 DEF Tick
<1>3. ASSUME NEW r \in Reqs, CountFailure(r)
      PROVE  \E k \in Kinds(scope) : count' < Keys[k][scope].limit
  <2>1. pc[r] # "idle" /\ present' = present
    BY <1>3 DEF CountFailure
  <2>2. PICK n : n = (IF WindowExpired(r) THEN 1 ELSE count + 1)
                 /\ count' = n /\ block' = BlockFor(r, n)
    BY <1>3 DEF CountFailure
  <2>3. n \in Nat
    BY <2>2 DEF TypeOK
  <2>4. n < Mine(r).limit
    <3>1. SUFFICES ASSUME n >= Mine(r).limit PROVE FALSE
      BY <2>1, <2>3, PolicyTypes
    <3>2. block' = Mine(r).block - late[r]
      BY <2>2, <3>1 DEF BlockFor
    <3> QED BY <2>1, <3>2, PolicyTypes
  <2>5. kind[r] \in Kinds(scope)
    BY <2>1, PolicyTypes
  <2> QED BY <2>2, <2>4, <2>5 DEF Mine
<1>4. ASSUME NEW r \in Reqs, Clear(r) PROVE ~present'
  BY <1>4 DEF Clear
<1>5. ASSUME NEW r \in Reqs, Insert(r) PROVE FALSE
  BY <1>5 DEF Insert
<1>6. CASE UNCHANGED vars
  BY <1>1, <1>6 DEF vars, bucketVars
<1>7. ASSUME NEW r \in Reqs, Arrive(r) \/ Ask(r) \/ Leave(r) \/ Ensure(r) PROVE FALSE
  BY <1>7 DEF Arrive, Ask, Leave, Ensure, bucketVars
<1> QED BY <1>2, <1>3, <1>4, <1>5, <1>6, <1>7 DEF Next, Finish

(* A block is lifted by its time, by a right answer, by a new window or by *)
(* a request whose own limit is higher, and by nothing else.               *)
THEOREM BlockNeverCutShort == Spec => BlockKept
<1>1. TypeOK /\ [Next]_vars => Kept
  BY StepKeepsBlock
<1>2. TypeOK /\ [Next]_vars => [Blocked /\ ~Blocked' =>
       \/ block' = block - 1
       \/ ~present'
       \/ count' = 1
       \/ \E k \in Kinds(scope) : count' < Keys[k][scope].limit]_vars
  BY <1>1 DEF Kept
<1> QED BY <1>2, TypeCorrect, PTL DEF Spec, BlockKept
-----------------------------------------------------------------------------
(* The highest limit and the longest window of a bucket exist: it has one  *)
(* kind of request at least, and six at most.                              *)
HasMax(S) == S = {} \/ \E n \in S : \A m \in S : m <= n

LEMMA JoinMax ==
  ASSUME NEW S \in SUBSET Nat, NEW T \in SUBSET Nat, HasMax(S), \A x, y \in T : x = y
  PROVE  HasMax(S \cup T)
<1>1. CASE T = {}
  <2>1. S \cup T = S
    BY <1>1
  <2> QED BY <2>1
<1>2. CASE T # {}
  <2>1. PICK x \in T : T = {x}
    BY <1>2
  <2>2. CASE S = {}
    BY <2>1, <2>2 DEF HasMax
  <2>3. CASE S # {}
    <3>1. PICK n \in S : \A m \in S : m <= n
      BY <2>3 DEF HasMax
    <3>2. CASE x <= n
      BY <2>1, <3>1, <3>2 DEF HasMax
    <3>3. CASE n <= x
      <4>1. \A m \in S \cup T : m <= x
        BY <2>1, <3>1, <3>3
      <4> QED BY <4>1 DEF HasMax
    <3> QED BY <3>2, <3>3
  <2> QED BY <2>2, <2>3
<1> QED BY <1>1, <1>2

LEMMA MaxOverKinds ==
  ASSUME NEW s, Kinds(s) # {}, NEW F \in [Kinds(s) -> Nat]
  PROVE  \E n \in {F[k] : k \in Kinds(s)} : \A m \in {F[k] : k \in Kinds(s)} : m <= n
<1> DEFINE Image(D) == {F[k] : k \in Kinds(s) \cap D}
<1>1. ASSUME NEW D, NEW k, HasMax(Image(D))
      PROVE  HasMax(Image(D \cup {k}))
  <2>1. Image(D) \in SUBSET Nat /\ Image({k}) \in SUBSET Nat
    OBVIOUS
  <2>2. \A x, y \in Image({k}) : x = y
    OBVIOUS
  <2>3. Image(D \cup {k}) = Image(D) \cup Image({k})
    OBVIOUS
  <2> HIDE DEF Image
  <2>4. HasMax(Image(D) \cup Image({k}))
    BY <1>1, <2>1, <2>2, JoinMax
  <2> QED BY <2>3, <2>4
<1>2. HasMax(Image({}))
  BY DEF HasMax
<1>3. Kinds(s) \cap {"login", "signup", "recovery", "verify", "phone", "phone_verify"} = Kinds(s)
  BY DEF Kinds, Keys
<1> DEFINE Three == (({} \cup {"login"}) \cup {"signup"}) \cup {"recovery"}
           Six == ((Three \cup {"verify"}) \cup {"phone"}) \cup {"phone_verify"}
<1>4. Image(Six) = {F[k] : k \in Kinds(s)}
  BY <1>3
<1> HIDE DEF Image
<1>5. HasMax(Image(Three))
  BY <1>1, <1>2
<1>6. HasMax(Image(Six))
  <2> HIDE DEF Three
  <2> QED BY <1>1, <1>5
<1>7. HasMax({F[k] : k \in Kinds(s)})
  BY <1>4, <1>6
<1> QED BY <1>7 DEF HasMax

LEMMA MaxLimitIs ==
  ASSUME scope \in Watched
  PROVE  /\ MaxLimit \in Nat \ {0}
         /\ \A k \in Kinds(scope) : Keys[k][scope].limit <= MaxLimit
<1> DEFINE F == [k \in Kinds(scope) |-> Keys[k][scope].limit]
           limits == {Keys[k][scope].limit : k \in Kinds(scope)}
<1>1. F \in [Kinds(scope) -> Nat] /\ Kinds(scope) # {}
  OBVIOUS
<1>2. {F[k] : k \in Kinds(scope)} = limits
  OBVIOUS
<1> HIDE DEF F
<1>3. \E n \in limits : \A m \in limits : m <= n
  BY <1>1, <1>2, MaxOverKinds
<1>4. MaxLimit \in limits /\ \A m \in limits : m <= MaxLimit
  BY <1>3 DEF MaxLimit
<1> QED BY <1>4

LEMMA MaxAgeIs ==
  ASSUME scope \in Watched
  PROVE  /\ MaxAge \in Nat
         /\ MaxAge >= MaxDelay
         /\ \A k \in Kinds(scope) : Keys[k][scope].window + MaxDelay <= MaxAge
<1> DEFINE F == [k \in Kinds(scope) |-> Keys[k][scope].window]
           windows == {Keys[k][scope].window : k \in Kinds(scope)}
<1>1. F \in [Kinds(scope) -> Nat] /\ Kinds(scope) # {}
  OBVIOUS
<1>2. {F[k] : k \in Kinds(scope)} = windows
  OBVIOUS
<1> HIDE DEF F
<1>3. \E n \in windows : \A m \in windows : m <= n
  BY <1>1, <1>2, MaxOverKinds
<1>4. PICK w \in windows : MaxAge = MaxDelay + w /\ \A m \in windows : m <= w
  BY <1>3 DEF MaxAge
<1>5. w \in Nat /\ MaxDelay \in Nat
  OBVIOUS
<1>6. ASSUME NEW k \in Kinds(scope) PROVE Keys[k][scope].window + MaxDelay <= MaxAge
  <2>1. Keys[k][scope].window \in Nat /\ Keys[k][scope].window \in windows
    OBVIOUS
  <2>2. Keys[k][scope].window <= w
    BY <1>4, <2>1
  <2> HIDE DEF windows
  <2> QED BY <1>4, <1>5, <2>1, <2>2
<1> HIDE DEF windows
<1> QED BY <1>4, <1>5, <1>6

-----------------------------------------------------------------------------
(* The invariant behind ExcessBounded: once the limit is reached, the      *)
(* bucket is in one of three situations.                                   *)
(* Requests that were allowed and have not counted, and those of them that *)
(* would count into the window as it is.                                   *)
Admitted == {r \in Reqs : pc[r] \in {"work", "count"}}
Joining == {r \in Admitted : ~WindowExpired(r)}

(* Nobody is allowed who was not when the limit was reached.               *)
FirstGroup ==
  /\ count + Cardinality(Admitted) <= MaxLimit - 1 + Cardinality(Reqs)
  /\ age >= MaxDelay \/ age + block >= MaxDelay

(* The block is over, and the window is older than every request.          *)
BetweenGroups ==
  /\ count <= MaxLimit - 1 + Cardinality(Reqs)
  /\ age >= MaxDelay

(* The block lasts as long as the window: who is allowed begins a new one. *)
SecondGroup ==
  /\ count + Cardinality(Joining) <= MaxLimit - 1 + 2 * Cardinality(Reqs)
  /\ age >= MaxDelay
  /\ \/ age >= MaxAge
     \/ \A k \in Kinds(scope) : age + block >= Keys[k][scope].window

ExcessInv ==
  BlocksOutlastWindows /\ count >= MaxLimit => FirstGroup \/ BetweenGroups \/ SecondGroup

LEMMA Sizes ==
  /\ Cardinality(Reqs) \in Nat
  /\ \A S \in SUBSET Reqs : /\ IsFiniteSet(S)
                            /\ Cardinality(S) \in Nat
                            /\ Cardinality(S) <= Cardinality(Reqs)
                            /\ \A T \in SUBSET S : Cardinality(T) <= Cardinality(S)
                            /\ \A r \in S : Cardinality(S \ {r}) = Cardinality(S) - 1
<1>1. IsFiniteSet(Reqs)
  OBVIOUS
<1>2. \A S \in SUBSET Reqs : IsFiniteSet(S) /\ Cardinality(S) <= Cardinality(Reqs)
  BY <1>1, FS_Subset
<1>3. \A S \in SUBSET Reqs : \A T \in SUBSET S : Cardinality(T) <= Cardinality(S)
  BY <1>2, FS_Subset
<1>4. \A S \in SUBSET Reqs : \A r \in S : Cardinality(S \ {r}) = Cardinality(S) - 1
  BY <1>2, FS_RemoveElement
<1> QED BY <1>1, <1>2, <1>3, <1>4, FS_CardinalityType

(* What all steps share.                                                   *)
LEMMA SameScope ==
  ASSUME [Next]_vars
  PROVE  /\ scope' = scope
         /\ MaxLimit' = MaxLimit /\ MaxAge' = MaxAge
         /\ BlocksOutlastWindows' <=> BlocksOutlastWindows
<1>1. scope' = scope
  BY DEF Next, Tick, Arrive, Ask, Leave, Finish, Insert, Ensure, CountFailure, Clear, vars
<1> QED BY <1>1 DEF MaxLimit, MaxAge, BlocksOutlastWindows, Kinds

Situation == FirstGroup \/ BetweenGroups \/ SecondGroup

(* Steps of requests that leave the bucket alone and let nobody in.        *)
LEMMA QuietSituation ==
  ASSUME TypeOK, TypeOK', [Next]_vars, Situation, UNCHANGED bucketVars,
         \A r \in Admitted' : r \in Admitted /\ late'[r] = late[r] /\ kind'[r] = kind[r]
  PROVE  Situation'
<1> USE SameScope
<1>1. /\ Admitted \in SUBSET Reqs /\ Joining \in SUBSET Reqs
      /\ Admitted' \in SUBSET Admitted
  BY DEF Admitted, Joining
<1>2. Joining' \in SUBSET Joining
  BY <1>1 DEF Joining, WindowExpired, Mine, bucketVars
<1>3. /\ Cardinality(Admitted') <= Cardinality(Admitted)
      /\ Cardinality(Joining') <= Cardinality(Joining)
      /\ Cardinality(Admitted) \in Nat /\ Cardinality(Admitted') \in Nat
      /\ Cardinality(Joining) \in Nat /\ Cardinality(Joining') \in Nat
      /\ Cardinality(Reqs) \in Nat
  BY <1>1, <1>2, Sizes
<1>4. MaxLimit \in Nat /\ MaxAge \in Nat /\ count \in Nat
  BY MaxLimitIs, MaxAgeIs DEF TypeOK
<1>5. FirstGroup => FirstGroup'
  BY <1>3, <1>4 DEF FirstGroup, bucketVars
<1>6. BetweenGroups => BetweenGroups'
  BY <1>3, <1>4 DEF BetweenGroups, bucketVars
<1>7. SecondGroup => SecondGroup'
  BY <1>3, <1>4 DEF SecondGroup, bucketVars, Kinds
<1> QED BY <1>5, <1>6, <1>7 DEF Situation

(* A request is allowed: the block is over.                                *)
LEMMA AllowSituation ==
  ASSUME TypeOK, TypeOK', [Next]_vars, Situation, present,
         NEW r \in Reqs, Ask(r), ~Refused(r)
  PROVE  Situation'
<1> USE SameScope
<1>1. /\ UNCHANGED <<bucketVars, kind, late>>
      /\ pc' = [pc EXCEPT ![r] = "work"]
      /\ pc[r] = "ask"
  BY DEF Ask, Go
<1>2. block + late[r] <= 0 /\ late[r] \in 0 .. MaxDelay /\ block \in Int
      /\ age \in Nat /\ count \in Nat
  BY DEF Refused, TypeOK
<1>3. MaxLimit \in Nat /\ MaxAge \in Nat /\ MaxAge >= MaxDelay
      /\ \A k \in Kinds(scope) : /\ Keys[k][scope].window + MaxDelay <= MaxAge
                                /\ Keys[k][scope].window \in Nat
  BY MaxLimitIs, MaxAgeIs DEF TypeOK
<1>4. Admitted \in SUBSET Reqs /\ Joining \in SUBSET Reqs
  BY DEF Admitted, Joining
<1>5. /\ Cardinality(Admitted) \in Nat /\ Cardinality(Joining) \in Nat
      /\ Cardinality(Reqs) \in Nat
  BY <1>4, Sizes
<1>6. CASE FirstGroup \/ BetweenGroups
  <2>1. BetweenGroups
    BY <1>2, <1>3, <1>5, <1>6 DEF FirstGroup, BetweenGroups
  <2> QED BY <1>1, <2>1 DEF BetweenGroups, Situation, bucketVars
<1>7. CASE SecondGroup
  <2>1. age - late[r] >= Mine(r).window
    <3>1. kind[r] \in Kinds(scope)
      BY <1>1, PolicyTypes
    <3>2. Mine(r).window \in Nat /\ Mine(r).window + MaxDelay <= MaxAge
      BY <1>3, <3>1 DEF Mine
    <3>3. age >= MaxAge \/ age + block >= Mine(r).window
      BY <1>7, <3>1 DEF SecondGroup, Mine
    <3> QED BY <1>2, <1>3, <3>2, <3>3
  <2>2. WindowExpired(r)'
    BY <1>1, <2>1 DEF WindowExpired, Mine, bucketVars
  <2>3. Joining' = Joining
    BY <1>1, <2>2 DEF Joining, Admitted, WindowExpired, Mine, bucketVars, TypeOK
  <2> QED BY <1>1, <1>7, <2>3 DEF SecondGroup, Situation, bucketVars, Kinds
<1> QED BY <1>6, <1>7 DEF Situation

(* Time passes for the window, the block and the requests alike.           *)
LEMMA TickSituation ==
  ASSUME TypeOK, TypeOK', [Next]_vars, Situation, present, Tick
  PROVE  Situation'
<1> USE SameScope
<1>1. /\ UNCHANGED <<present, count, pc, kind>>
      /\ age' = (IF age < MaxAge THEN age + 1 ELSE age)
      /\ block' = (IF block > Past THEN block - 1 ELSE block)
      /\ late' = [r \in Reqs |-> IF pc[r] = "idle" THEN 0 ELSE late[r] + 1]
  BY DEF Tick
<1>2. MaxLimit \in Nat /\ MaxAge \in Nat /\ MaxAge >= MaxDelay
      /\ \A k \in Kinds(scope) : /\ Keys[k][scope].window + MaxDelay <= MaxAge
                                /\ Keys[k][scope].window \in Nat
  BY MaxLimitIs, MaxAgeIs DEF TypeOK
<1>3. age \in Nat /\ block \in Int /\ count \in Nat /\ late' \in [Reqs -> 0 .. MaxDelay]
      /\ late \in [Reqs -> 0 .. MaxDelay]
  BY DEF TypeOK
<1>4. age' >= MaxAge \/ age' + block' >= age + block
  BY <1>1, <1>2, <1>3
<1>5. age' >= age
  BY <1>1, <1>2, <1>3
<1>6. Admitted' = Admitted
  BY <1>1 DEF Admitted
<1>7. Joining' \in SUBSET Joining
  <2> SUFFICES ASSUME NEW r \in Admitted, WindowExpired(r)
               PROVE  WindowExpired(r)'
    BY <1>6 DEF Joining
  <2>1. r \in Reqs /\ late'[r] = late[r] + 1 /\ late'[r] <= MaxDelay
    BY <1>1, <1>3 DEF Admitted
  <2>2. Mine(r)' = Mine(r) /\ kind[r] \in Kinds(scope)
    BY <1>1, <2>1 DEF Mine, Admitted, TypeOK
  <2>3. Mine(r).window \in Nat /\ Mine(r).window + MaxDelay <= MaxAge
    BY <1>2, <2>2 DEF Mine
  <2>4. late[r] \in Nat /\ late'[r] \in Nat /\ age - late[r] >= Mine(r).window
    BY <1>3, <2>1 DEF WindowExpired
  <2>5. age' - late'[r] >= Mine(r).window
    BY <1>1, <1>2, <1>3, <2>1, <2>3, <2>4
  <2> QED BY <2>2, <2>5 DEF WindowExpired
<1>8. Admitted \in SUBSET Reqs /\ Joining \in SUBSET Reqs
  BY DEF Admitted, Joining
<1>9. /\ Cardinality(Joining') <= Cardinality(Joining)
      /\ Cardinality(Joining) \in Nat /\ Cardinality(Joining') \in Nat
      /\ Cardinality(Admitted) \in Nat /\ Cardinality(Reqs) \in Nat
  BY <1>7, <1>8, Sizes
<1>10. FirstGroup => FirstGroup'
  BY <1>1, <1>2, <1>3, <1>4, <1>5, <1>6, <1>9 DEF FirstGroup
<1>11. BetweenGroups => BetweenGroups'
  BY <1>1, <1>2, <1>3, <1>5, <1>9 DEF BetweenGroups
<1>12. SecondGroup => SecondGroup'
  <2> SUFFICES ASSUME SecondGroup PROVE SecondGroup'
    OBVIOUS
  <2>1. age' >= MaxAge \/ \A k \in Kinds(scope) : age' + block' >= Keys[k][scope].window
    <3>0. age' \in Nat /\ block' \in Int
      BY DEF TypeOK
    <3>1. CASE age >= MaxAge
      BY <1>2, <1>3, <1>5, <3>0, <3>1
    <3>2. CASE \A k \in Kinds(scope) : age + block >= Keys[k][scope].window
      <4>1. CASE age' + block' >= age + block
        <5>1. ASSUME NEW k \in Kinds(scope) PROVE age' + block' >= Keys[k][scope].window
          <6> DEFINE w == Keys[k][scope].window
          <6>1. w \in Nat /\ age + block >= w
            BY <1>2, <3>2
          <6> HIDE DEF w
          <6>2. /\ age + block \in Int /\ age' + block' \in Int
            BY <1>3, <3>0
          <6>3. \A x, y, z \in Int : x >= y /\ y >= z => x >= z
            OBVIOUS
          <6>4. age' + block' >= w
            BY <4>1, <6>1, <6>2, <6>3, Z3
          <6> QED BY <6>4 DEF w
        <5> QED BY <5>1
      <4> QED BY <1>4, <4>1
    <3> QED BY <3>1, <3>2 DEF SecondGroup
  <2>2. count' + Cardinality(Joining') <= MaxLimit - 1 + 2 * Cardinality(Reqs)
    BY <1>1, <1>2, <1>3, <1>9 DEF SecondGroup
  <2>3. age' >= MaxDelay
    BY <1>3, <1>5 DEF SecondGroup, TypeOK
  <2> QED BY <2>1, <2>2, <2>3 DEF SecondGroup, Kinds
<1> QED BY <1>10, <1>11, <1>12 DEF Situation

(* A request counts into a row, or begins a window.                        *)
LEMMA CountSituation ==
  ASSUME TypeOK, TypeOK', [Next]_vars, BlocksOutlastWindows, ExcessInv,
         NEW r \in Reqs, pc[r] \in {"work", "count"}, End(r),
         NEW n \in Nat \ {0}, count' = n, n >= MaxLimit, block' = BlockFor(r, n),
         \/ n = 1 /\ age' = late[r]
         \/ n = count + 1 /\ age' = age /\ ~WindowExpired(r)
  PROVE  Situation'
<1> USE SameScope
<1>1. /\ Mine(r).limit <= MaxLimit /\ MaxLimit \in Nat \ {0} /\ Mine(r).limit \in Nat
      /\ Mine(r).block \in Nat /\ Mine(r).block >= 2 * MaxDelay
      /\ kind[r] \in Kinds(scope)
  BY PolicyTypes, MaxLimitIs DEF TypeOK, Mine
<1>2. block' = Mine(r).block - late[r]
  BY <1>1 DEF BlockFor
<1>3. late[r] \in 0 .. MaxDelay /\ age \in Nat /\ count \in Nat /\ age' \in Nat
  BY DEF TypeOK
<1>4. block' >= MaxDelay /\ block' \in Int
  BY <1>1, <1>2, <1>3
<1>5. /\ Admitted \in SUBSET Reqs /\ Joining \in SUBSET Reqs
      /\ r \in Admitted /\ Admitted' = Admitted \ {r}
  BY DEF Admitted, Joining, End, TypeOK
<1>6. /\ Cardinality(Admitted) \in Nat /\ Cardinality(Joining) \in Nat
      /\ Cardinality(Admitted') = Cardinality(Admitted) - 1
      /\ Cardinality(Admitted) <= Cardinality(Reqs)
      /\ Cardinality(Reqs) \in Nat
  BY <1>5, Sizes
<1>7. CASE n = 1 \/ count < MaxLimit
  <2>1. n <= MaxLimit
    BY <1>1, <1>3, <1>7
  <2>2. FirstGroup'
    BY <1>1, <1>3, <1>4, <1>6, <2>1 DEF FirstGroup
  <2> QED BY <2>2 DEF Situation
<1>8. CASE n = count + 1 /\ age' = age /\ ~WindowExpired(r) /\ count >= MaxLimit
  <2>1. Situation
    BY <1>8 DEF ExcessInv, Situation
  <2>2. CASE FirstGroup
    <3>1. FirstGroup'
      BY <1>1, <1>3, <1>4, <1>6, <1>8, <2>2 DEF FirstGroup
    <3> QED BY <3>1 DEF Situation
  <2>3. CASE BetweenGroups \/ SecondGroup
    <3>1. age' >= MaxDelay
      BY <1>8, <2>3 DEF BetweenGroups, SecondGroup
    <3>2. \A k \in Kinds(scope) : age' + block' >= Keys[k][scope].window
      <4> TAKE k \in Kinds(scope)
      <4>1. Keys[k][scope].window <= Mine(r).block /\ Keys[k][scope].window \in Nat
        BY <1>1 DEF BlocksOutlastWindows, Mine, TypeOK
      <4> QED BY <1>1, <1>2, <1>3, <3>1, <4>1
    <3>3. Joining' \in SUBSET (Joining \ {r})
      BY <1>5, <1>8 DEF Joining, WindowExpired, Mine, End, TypeOK, Admitted
    <3>4. r \in Joining
      BY <1>5, <1>8 DEF Joining
    <3>5. /\ Cardinality(Joining \ {r}) = Cardinality(Joining) - 1
          /\ Cardinality(Joining') <= Cardinality(Joining \ {r})
          /\ Cardinality(Joining') \in Nat
          /\ Cardinality(Joining) <= Cardinality(Reqs)
      <4>1. (Joining \ {r}) \in SUBSET Reqs /\ Joining' \in SUBSET Reqs
        BY <1>5, <3>3
      <4> QED BY <1>5, <3>3, <3>4, <4>1, Sizes
    <3>6. count' + Cardinality(Joining') <= MaxLimit - 1 + 2 * Cardinality(Reqs)
      BY <1>1, <1>3, <1>6, <1>8, <2>3, <3>5 DEF BetweenGroups, SecondGroup
    <3>7. SecondGroup'
      BY <3>1, <3>2, <3>6 DEF SecondGroup, Kinds
    <3> QED BY <3>7 DEF Situation
  <2> QED BY <2>1, <2>2, <2>3 DEF Situation
<1> QED BY <1>1, <1>3, <1>7, <1>8

LEMMA StepExcess == TypeOK /\ ExcessInv /\ [Next]_vars => ExcessInv'
<1> SUFFICES ASSUME TypeOK, ExcessInv, [Next]_vars, BlocksOutlastWindows', count' >= MaxLimit'
             PROVE  Situation'
  BY DEF ExcessInv, Situation
<1> USE SameScope, StepTypes
<1>1. TypeOK' /\ BlocksOutlastWindows /\ count' >= MaxLimit
  OBVIOUS
<1>2. MaxLimit \in Nat \ {0} /\ count \in Nat /\ count' \in Nat
  BY <1>1, MaxLimitIs DEF TypeOK
<1>3. ASSUME count' = count PROVE Situation /\ present
  BY <1>1, <1>2, <1>3 DEF ExcessInv, Situation, TypeOK
<1>4. CASE UNCHANGED vars
  BY <1>1, <1>3, <1>4, QuietSituation DEF vars, bucketVars, reqVars, Admitted
<1>5. CASE Tick
  BY <1>1, <1>3, <1>5, TickSituation DEF Tick
<1>6. ASSUME NEW r \in Reqs, \/ Arrive(r) \/ Leave(r) \/ Ensure(r)
                             \/ Ask(r) /\ Refused(r)
                             \/ CountFailure(r) /\ ~present
      PROVE  Situation'
  <2>1. UNCHANGED bucketVars
    BY <1>6 DEF Arrive, Leave, Ensure, Ask, CountFailure, bucketVars
  <2>2. \A q \in Admitted' : q \in Admitted /\ late'[q] = late[q] /\ kind'[q] = kind[q]
    BY <1>6 DEF Arrive, Leave, Ensure, Ask, CountFailure, End, Go, Admitted, TypeOK
  <2> QED BY <1>1, <1>3, <2>1, <2>2, QuietSituation DEF bucketVars
<1>7. ASSUME NEW r \in Reqs, Ask(r), ~Refused(r) PROVE Situation'
  <2>1. UNCHANGED count
    BY <1>7 DEF Ask, bucketVars
  <2> QED BY <1>1, <1>3, <1>7, <2>1, AllowSituation
<1>8. ASSUME NEW r \in Reqs, Insert(r) PROVE Situation'
  <2>1. /\ pc[r] = "work" /\ End(r) /\ count' = 1 /\ age' = late[r]
        /\ block' = BlockFor(r, 1)
    BY <1>8 DEF Insert
  <2> QED BY <1>1, <1>2, <2>1, CountSituation
<1>9. ASSUME NEW r \in Reqs, CountFailure(r), present PROVE Situation'
  <2>1. PICK n : /\ n = IF WindowExpired(r) THEN 1 ELSE count + 1
                 /\ count' = n /\ block' = BlockFor(r, n)
                 /\ age' = IF WindowExpired(r) THEN late[r] ELSE age
    BY <1>9 DEF CountFailure
  <2>2. n \in Nat \ {0} /\ pc[r] = "count" /\ End(r)
    BY <1>2, <1>9, <2>1 DEF CountFailure
  <2>3. \/ n = 1 /\ age' = late[r]
        \/ n = count + 1 /\ age' = age /\ ~WindowExpired(r)
    BY <2>1
  <2> QED BY <1>1, <2>1, <2>2, <2>3, CountSituation
<1>10. ASSUME NEW r \in Reqs, Clear(r) PROVE FALSE
  BY <1>1, <1>2, <1>10 DEF Clear
<1>11. ASSUME NEW r \in Reqs, \/ Arrive(r) \/ Leave(r) \/ Ensure(r)
                             \/ Ask(r) \/ CountFailure(r) \/ Insert(r) \/ Clear(r)
       PROVE  Situation'
  <2>1. CASE Ask(r)
    BY <1>6, <1>7, <2>1
  <2>2. CASE CountFailure(r)
    BY <1>6, <1>9, <2>2
  <2>3. CASE Arrive(r) \/ Leave(r) \/ Ensure(r)
    BY <1>6, <2>3
  <2>4. CASE Insert(r) \/ Clear(r)
    BY <1>8, <1>10, <2>4
  <2> QED BY <1>11, <2>1, <2>2, <2>3, <2>4
<1> QED BY <1>4, <1>5, <1>11 DEF Next, Finish

(* What is counted past the limit is bounded by the requests that run      *)
(* together, twice, whatever their number, the limits and the durations.   *)
THEOREM ExcessIsBounded == Spec => []ExcessBounded
<1>1. Init => ExcessInv
  BY MaxLimitIs DEF Init, ExcessInv
<1>2. TypeOK /\ ExcessInv => ExcessBounded
  <2> SUFFICES ASSUME TypeOK, ExcessInv, BlocksOutlastWindows
               PROVE  count <= MaxLimit - 1 + 2 * Cardinality(Reqs)
    BY DEF ExcessBounded
  <2>1. MaxLimit \in Nat \ {0} /\ count \in Nat
    BY MaxLimitIs DEF TypeOK
  <2>2. /\ Cardinality(Reqs) \in Nat /\ Cardinality(Admitted) \in Nat
        /\ Cardinality(Joining) \in Nat
    BY Sizes DEF Admitted, Joining
  <2>3. CASE count < MaxLimit
    BY <2>1, <2>2, <2>3
  <2>4. CASE count >= MaxLimit
    <3>1. FirstGroup \/ BetweenGroups \/ SecondGroup
      BY <2>4 DEF ExcessInv
    <3> QED BY <2>1, <2>2, <3>1 DEF FirstGroup, BetweenGroups, SecondGroup
  <2> QED BY <2>1, <2>3, <2>4
<1> QED BY <1>1, <1>2, StepExcess, TypeCorrect, PTL DEF Spec
=============================================================================
