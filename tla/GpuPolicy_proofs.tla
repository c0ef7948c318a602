--------------------------- MODULE GpuPolicy_proofs ---------------------------
(* Proofs about GpuPolicy, for any finite set of tasks, any GPUs, ticks,     *)
(* budgets and reservations, and any bounds.                                 *)
EXTENDS GpuPolicy, FiniteSetTheorems, SequenceTheorems, TLAPS

USE TaskAssumption

-----------------------------------------------------------------------------
(* The inductive invariant.                                                  *)

Place == Gpu \cup {NoGpu}
Pair == Task \X Gpu
Stage == {"none", "schedule", "query", "requery", "lock", "reserve", "release"}

PolicyTypeOK ==
    /\ queued \subseteq Task
    /\ on \in [Task -> Place]
    /\ reservation \in [Task -> Place] /\ refused \in [Task -> Place]
    /\ helpers \subseteq Task \X Gpu
    /\ DOMAIN tick = Tick
    /\ \A k \in Tick : tick[k].at \in Stage /\ tick[k].todo \in Seq(Pair)

\* A plan under way is that of the tick that holds the lock, and no other tick is in the
\* middle of a plan.
PlansAreLocked ==
    \A k \in Tick : /\ tick[k].todo # <<>> => tick[k].at \in {"reserve", "release"}
                    /\ tick[k].at \in {"reserve", "release"} => tick[k].todo # <<>> /\ lock = k

\* No task is twice in what is left of a plan.
PlansAreApart ==
    \A k \in Tick : \A i, j \in DOMAIN tick[k].todo :
        tick[k].todo[i][1] = tick[k].todo[j][1] => i = j

\* A queued task has no handle.
QueuedTasksAreOff == \A t \in queued : on[t] = NoGpu

\* A running task has no handle of a reservation.
RunningTasksHoldNothing == \A t \in Task : on[t] # NoGpu => reservation[t] = NoGpu

\* A process that was not told to end is that of its task's handle.
HelpersHaveHandles == \A x \in helpers : reservation[x[1]] = x[2]

\* The task that waits for its process to start has its handle, the one that is launched
\* once its reservation is released has none any more.
HandlesFitThePlan ==
    \A k \in Tick :
        /\ tick[k].at = "reserve" => reservation[tick[k].todo[1][1]] = tick[k].todo[1][2]
        /\ tick[k].at = "release" => reservation[tick[k].todo[1][1]] = NoGpu

PolicyIInv == /\ PolicyTypeOK
              /\ PlannedTasksStayQueued
              /\ PlansAreLocked
              /\ PlansAreApart
              /\ QueuedTasksAreOff
              /\ HandlesFitThePlan
              /\ RunningTasksHoldNothing
              /\ HelpersHaveHandles

-----------------------------------------------------------------------------
(* Sums over tasks, as the community modules define them: by a function on   *)
(* the subsets of a set.  The proofs look at a smallest set that is wrong.    *)

\* Among sets of tasks there is one that has none of the others inside.
LEMMA LeastSetOfTasks ==
    ASSUME NEW B \in SUBSET (SUBSET Task), B # {}
    PROVE  \E S \in B : \A T \in B : T \subseteq S => T = S
  <1>1. IsWellFoundedOn(StrictSubsetOrdering(Task), FiniteSubsetsOf(Task))
    BY FS_StrictSubsetOrderingWellFounded
  <1>2. B \subseteq FiniteSubsetsOf(Task)
    BY FS_FiniteSubsetsOfFinite
  <1>3. PICK S \in B : \A T \in B : ~ (<<T, S>> \in StrictSubsetOrdering(Task))
    BY <1>1, <1>2, WFMin
  <1>4. \A T \in B : T \subseteq S => T = S
    BY <1>3 DEF StrictSubsetOrdering
  <1> QED BY <1>4

\* The task that a sum over S takes first.
First(S) == CHOOSE t \in S : TRUE
Rest(S) == S \ {First(S)}

\* h has the sums of f over S and all of its subsets.
HasSums(h, f, S) ==
    h = [T \in SUBSET S |-> IF T = {} THEN 0 ELSE f[First(T)] + h[Rest(T)]]

LEMMA RestAreFewer ==
    ASSUME NEW S, S # {}
    PROVE  First(S) \in S /\ Rest(S) \subseteq S /\ Rest(S) # S /\ First(S) \notin Rest(S)
  BY DEF First, Rest

LEMMA SumsOfSubsets ==
    ASSUME NEW f, NEW S, NEW h, HasSums(h, f, S), NEW T \in SUBSET S
    PROVE  h[T] = IF T = {} THEN 0 ELSE f[First(T)] + h[Rest(T)]
  BY DEF HasSums

\* The sums of a set are what they are, whatever larger set they are sums of.
LEMMA SumsAreUnique ==
    ASSUME NEW f, NEW S \in SUBSET Task, NEW T \in SUBSET Task,
           NEW h, HasSums(h, f, S), NEW k, HasSums(k, f, T),
           NEW U, U \subseteq S, U \subseteq T
    PROVE  h[U] = k[U]
  <1> DEFINE B == {V \in SUBSET U : h[V] # k[V]}
  <1> SUFFICES ASSUME B # {} PROVE FALSE
    OBVIOUS
  <1>1. B \in SUBSET (SUBSET Task)
    OBVIOUS
  <1>2. PICK V \in B : \A W \in B : W \subseteq V => W = V
    <2> HIDE DEF B
    <2> QED BY <1>1, LeastSetOfTasks
  <1>3. V \in SUBSET S /\ V \in SUBSET T
    OBVIOUS
  <1>4. CASE V = {}
    BY <1>3, <1>4, SumsOfSubsets
  <1>5. CASE V # {}
    <2>1. Rest(V) \subseteq V /\ Rest(V) # V
      BY <1>5, RestAreFewer
    <2>2. h[Rest(V)] = k[Rest(V)]
      BY <2>1, <1>2
    <2> QED BY <2>2, <1>3, <1>5, SumsOfSubsets
  <1> QED
    BY <1>4, <1>5

\* There are such sums.
LEMMA SumsExist ==
    ASSUME NEW f, NEW S \in SUBSET Task
    PROVE  \E h : HasSums(h, f, S)
  <1> DEFINE B == {T \in SUBSET S : ~\E h : HasSums(h, f, T)}
  <1> SUFFICES ASSUME B # {} PROVE FALSE
    OBVIOUS
  <1>1. B \in SUBSET (SUBSET Task)
    OBVIOUS
  <1>2. PICK T \in B : \A W \in B : W \subseteq T => W = T
    <2> HIDE DEF B
    <2> QED BY <1>1, LeastSetOfTasks
  <1> DEFINE sums(U) == CHOOSE h : HasSums(h, f, U)
             H == [U \in SUBSET T |-> IF U = {} THEN 0 ELSE f[First(U)] + sums(Rest(U))[Rest(U)]]
  <1>3. \A U \in SUBSET T : U # T => HasSums(sums(U), f, U)
    <2> TAKE U \in SUBSET T
    <2> HAVE U # T
    <2>1. \E h : HasSums(h, f, U)
      BY <1>2
    <2> QED BY <2>1
  <1>4. \A U \in SUBSET T : U # {} => H[Rest(U)] = sums(Rest(U))[Rest(U)]
    <2> TAKE U \in SUBSET T
    <2> HAVE U # {}
    <2> DEFINE V == Rest(U)
    <2>1. V \in SUBSET T /\ V # T
      BY RestAreFewer
    <2>2. HasSums(sums(V), f, V)
      BY <2>1, <1>3
    <2> SUFFICES H[V] = sums(V)[V]
      OBVIOUS
    <2> HIDE DEF V
    <2>3. H[V] = IF V = {} THEN 0 ELSE f[First(V)] + sums(Rest(V))[Rest(V)]
      BY <2>1
    <2> HIDE DEF H, sums
    <2>4. sums(V)[V] = IF V = {} THEN 0 ELSE f[First(V)] + sums(V)[Rest(V)]
      BY <2>2, SumsOfSubsets
    <2>5. CASE V = {}
      BY <2>3, <2>4, <2>5
    <2>6. CASE V # {}
      <3> DEFINE W == Rest(V)
      <3>1. W \subseteq V /\ W \in SUBSET T /\ W # T
        BY <2>1, <2>6, RestAreFewer
      <3>2. HasSums(sums(W), f, W)
        BY <3>1, <1>3
      <3>3. sums(V)[W] = sums(W)[W]
        <4> HIDE DEF W
        <4>1. V \in SUBSET Task /\ W \in SUBSET Task /\ W \subseteq W
          BY <2>1, <3>1, <1>1
        <4> QED BY <4>1, <2>2, <3>1, <3>2, SumsAreUnique
      <3> QED BY <2>3, <2>4, <2>6, <3>3
    <2> QED BY <2>5, <2>6
  <1> DEFINE from(U, g) == IF U = {} THEN 0 ELSE f[First(U)] + g[Rest(U)]
             one(U) == IF U = {} THEN 0 ELSE f[First(U)] + sums(Rest(U))[Rest(U)]
  <1>5. HasSums(H, f, T)
    <2>1. \A U \in SUBSET T : one(U) = from(U, H)
      <3> HIDE DEF H, sums
      <3> QED BY <1>4
    <2>2. H = [U \in SUBSET T |-> one(U)]
      OBVIOUS
    <2> HIDE DEF H, one
    <2>3. H = [U \in SUBSET T |-> from(U, H)]
      <3> HIDE DEF from
      <3> QED BY <2>1, <2>2
    <2> QED BY <2>3 DEF HasSums
  <1> HIDE DEF H
  <1> QED
    BY <1>2, <1>5

\* The sum of the community modules is that of such a function.
LEMMA SumIsASum ==
    ASSUME NEW f, NEW S \in SUBSET Task
    PROVE  \E h : HasSums(h, f, S) /\ SumFunctionOnSet(f, S) = h[S]
  <1> DEFINE H == CHOOSE h : HasSums(h, f, S)
  <1>1. HasSums(H, f, S)
    BY SumsExist
  <1>2. SumFunctionOnSet(f, S) = H[S]
    BY DEF SumFunctionOnSet, FoldFunctionOnSet, MapThenFoldSet, HasSums, First, Rest
  <1> HIDE DEF H
  <1> QED
    BY <1>1, <1>2

LEMMA SumFromFirst ==
    ASSUME NEW f, NEW S \in SUBSET Task
    PROVE  SumFunctionOnSet(f, S) = IF S = {} THEN 0 ELSE f[First(S)] + SumFunctionOnSet(f, Rest(S))
  <1>1. PICK h : HasSums(h, f, S) /\ SumFunctionOnSet(f, S) = h[S]
    BY SumIsASum
  <1>2. h[S] = IF S = {} THEN 0 ELSE f[First(S)] + h[Rest(S)]
    BY <1>1, SumsOfSubsets
  <1>3. CASE S # {}
    <2>1. Rest(S) \in SUBSET Task /\ Rest(S) \subseteq S
      BY <1>3, RestAreFewer
    <2>2. PICK k : HasSums(k, f, Rest(S)) /\ SumFunctionOnSet(f, Rest(S)) = k[Rest(S)]
      BY <2>1, SumIsASum
    <2>3. h[Rest(S)] = k[Rest(S)]
      BY <1>1, <2>1, <2>2, SumsAreUnique
    <2> QED BY <1>1, <1>2, <1>3, <2>2, <2>3
  <1> QED
    BY <1>1, <1>2, <1>3

\* Of a function that is as good on S as one of naturals, the sum is a natural.
LEMMA SumsAreNaturals ==
    ASSUME NEW f, NEW S \in SUBSET Task, \A t \in S : f[t] \in Nat
    PROVE  SumFunctionOnSet(f, S) \in Nat
  <1> DEFINE B == {T \in SUBSET S : SumFunctionOnSet(f, T) \notin Nat}
  <1> SUFFICES ASSUME B # {} PROVE FALSE
    OBVIOUS
  <1>1. PICK T \in B : \A W \in B : W \subseteq T => W = T
    <2>1. B \in SUBSET (SUBSET Task)
      OBVIOUS
    <2> HIDE DEF B
    <2> QED BY <2>1, LeastSetOfTasks
  <1>2. CASE T = {}
    <2>1. SumFunctionOnSet(f, {}) = 0
      BY SumFromFirst
    <2> QED BY <2>1, <1>1, <1>2
  <1>3. CASE T # {}
    <2>1. First(T) \in S /\ Rest(T) \subseteq T /\ Rest(T) # T
      BY <1>3, RestAreFewer
    <2>2. SumFunctionOnSet(f, Rest(T)) \in Nat
      BY <2>1, <1>1
    <2>3. f[First(T)] + SumFunctionOnSet(f, Rest(T)) \in Nat
      BY <2>1, <2>2
    <2>4. T \in SUBSET Task
      OBVIOUS
    <2> QED BY <2>3, <2>4, <1>3, SumFromFirst
  <1> QED
    BY <1>2, <1>3

\* A sum may take any of its tasks first.
LEMMA SumFromAny ==
    ASSUME NEW f, NEW S \in SUBSET Task, \A t \in S : f[t] \in Nat, NEW t \in S
    PROVE  SumFunctionOnSet(f, S) = f[t] + SumFunctionOnSet(f, S \ {t})
  <1> DEFINE B == {T \in SUBSET S : \E u \in T :
                      SumFunctionOnSet(f, T) # f[u] + SumFunctionOnSet(f, T \ {u})}
  <1> SUFFICES ASSUME B # {} PROVE FALSE
    <2> QED OBVIOUS
  <1>1. PICK T \in B : \A W \in B : W \subseteq T => W = T
    <2>1. B \in SUBSET (SUBSET Task)
      OBVIOUS
    <2> HIDE DEF B
    <2> QED BY <2>1, LeastSetOfTasks
  <1>2. T \in SUBSET S /\ T \in SUBSET Task
    OBVIOUS
  <1>3. PICK u \in T : SumFunctionOnSet(f, T) # f[u] + SumFunctionOnSet(f, T \ {u})
    OBVIOUS
  <1>4. \A W \in SUBSET T : W # T =>
           \A v \in W : SumFunctionOnSet(f, W) = f[v] + SumFunctionOnSet(f, W \ {v})
    BY <1>1, <1>2
  <1>5. \A W \in SUBSET T : SumFunctionOnSet(f, W) \in Nat
    BY <1>2, SumsAreNaturals
  <1> HIDE DEF B
  <1> DEFINE c == First(T)
  <1>6. c \in T /\ Rest(T) = T \ {c}
    BY <1>3, RestAreFewer DEF Rest
  <1>7. SumFunctionOnSet(f, T) = f[c] + SumFunctionOnSet(f, T \ {c})
    BY <1>2, <1>3, <1>6, SumFromFirst
  <1> HIDE DEF c
  <1>8. u # c
    BY <1>3, <1>7
  <1>9. SumFunctionOnSet(f, T \ {c}) = f[u] + SumFunctionOnSet(f, (T \ {c}) \ {u})
    BY <1>4, <1>6, <1>8
  <1>10. SumFunctionOnSet(f, T \ {u}) = f[c] + SumFunctionOnSet(f, (T \ {u}) \ {c})
    BY <1>3, <1>4, <1>6, <1>8
  <1>11. (T \ {u}) \ {c} = (T \ {c}) \ {u}
    OBVIOUS
  <1>12. f[u] \in Nat /\ f[c] \in Nat /\ SumFunctionOnSet(f, (T \ {c}) \ {u}) \in Nat
    BY <1>2, <1>5, <1>6
  <1>13. \A x, y, z \in Nat : x + (y + z) = y + (x + z)
    OBVIOUS
  <1> DEFINE z == SumFunctionOnSet(f, (T \ {c}) \ {u})
  <1>14. /\ SumFunctionOnSet(f, T) = f[c] + (f[u] + z)
         /\ SumFunctionOnSet(f, T \ {u}) = f[c] + z
    BY <1>7, <1>9, <1>10, <1>11
  <1> HIDE DEF z
  <1> QED
    BY <1>3, <1>12, <1>13, <1>14 DEF z

\* The sum of what is taken away is the sum with the sign changed.
LEMMA SumOfDifferences ==
    ASSUME NEW f, NEW d, NEW S \in SUBSET Task, \A t \in S : f[t] \in Nat /\ d[t] = 0 - f[t]
    PROVE  SumFunctionOnSet(d, S) = 0 - SumFunctionOnSet(f, S)
  <1> DEFINE B == {T \in SUBSET S : SumFunctionOnSet(d, T) # 0 - SumFunctionOnSet(f, T)}
  <1> SUFFICES ASSUME B # {} PROVE FALSE
    OBVIOUS
  <1>1. PICK T \in B : \A W \in B : W \subseteq T => W = T
    <2>1. B \in SUBSET (SUBSET Task)
      OBVIOUS
    <2> HIDE DEF B
    <2> QED BY <2>1, LeastSetOfTasks
  <1>2. T \in SUBSET Task /\ T \in SUBSET S
    OBVIOUS
  <1>3. CASE T = {}
    <2>1. SumFunctionOnSet(f, {}) = 0 /\ SumFunctionOnSet(d, {}) = 0
      BY SumFromFirst
    <2> QED BY <2>1, <1>1, <1>3
  <1>4. CASE T # {}
    <2>1. First(T) \in S /\ Rest(T) \subseteq T /\ Rest(T) # T
      BY <1>4, RestAreFewer
    <2>2. SumFunctionOnSet(d, Rest(T)) = 0 - SumFunctionOnSet(f, Rest(T))
      BY <2>1, <1>1
    <2>3. SumFunctionOnSet(f, Rest(T)) \in Nat
      BY <1>2, <2>1, SumsAreNaturals
    <2>4. /\ SumFunctionOnSet(d, T) = d[First(T)] + SumFunctionOnSet(d, Rest(T))
          /\ SumFunctionOnSet(f, T) = f[First(T)] + SumFunctionOnSet(f, Rest(T))
      BY <1>2, <1>4, SumFromFirst
    <2>5. d[First(T)] = 0 - f[First(T)] /\ f[First(T)] \in Nat
      BY <2>1
    <2>6. SumFunctionOnSet(d, T) # 0 - SumFunctionOnSet(f, T)
      OBVIOUS
    <2> HIDE DEF B
    <2> QED BY <2>2, <2>3, <2>4, <2>5, <2>6
  <1> QED
    BY <1>3, <1>4

-----------------------------------------------------------------------------
(* Plans.                                                                    *)

\* A plan that can be carried out: no task is in it twice, and all of them wait.
Sound(plan) ==
    /\ plan \in Seq(Pair)
    /\ \A i \in DOMAIN plan : plan[i][1] \in queued
    /\ \A i, j \in DOMAIN plan : plan[i][1] = plan[j][1] => i = j

LEMMA PairsHaveParts ==
    ASSUME NEW pair \in Pair
    PROVE  pair = <<pair[1], pair[2]>> /\ pair[1] \in Task /\ pair[2] \in Gpu
  BY DEF Pair

\* What the matching returns is such a plan: its turns are positions in the queue in
\* increasing order, and a task is in the queue once.
LEMMA MatchesAreSound ==
    ASSUME queued \subseteq Task, NEW order \in SetToSeqs(queued), NEW p, NEW counts,
           NEW plan \in Match(order, p, counts)
    PROVE  Sound(plan)
  <1> DEFINE options(m, i) == {g \in Available(p) \cap Wants[order[i]] :
                 LET E == {order[j] : j \in {j \in 1 .. i - 1 : m[j] = g}}
                 IN CanRun(order[i], g, p, E, counts)}
             gpus == {m \in [DOMAIN order -> Gpu \cup {NoGpu}] :
                        \A i \in DOMAIN order :
                          m[i] = IF options(m, i) = {} THEN NoGpu ELSE Min(options(m, i))}
             matched(m) == {i \in DOMAIN order : m[i] # NoGpu}
             turns(m) == {s \in SetToSeqs(matched(m)) : \A i, j \in DOMAIN s : i < j => s[i] < s[j]}
             pairs(m, s) == [n \in DOMAIN s |-> <<order[s[n]], m[s[n]]>>]
  <1>1. /\ order \in [1 .. Cardinality(queued) -> queued]
        /\ \A i, j \in DOMAIN order : i # j => order[i] # order[j]
    BY DEF SetToSeqs
  <1>2. Cardinality(queued) \in Nat
    BY FS_Subset, FS_CardinalityType
  <1>3. PICK m \in gpus : \E s \in SetToSeqs(matched(m)) : plan = pairs(m, s)
    <2>1. plan \in UNION {{pairs(n, s) : s \in turns(n)} : n \in gpus}
      BY DEF Match
    <2> SUFFICES ASSUME NEW n \in gpus, NEW s \in turns(n), plan = pairs(n, s)
                 PROVE  \E m \in gpus : \E r \in SetToSeqs(matched(m)) : plan = pairs(m, r)
      <3> HIDE DEF gpus, turns, pairs, matched
      <3> QED BY <2>1, Zenon
    <2>2. s \in SetToSeqs(matched(n))
      OBVIOUS
    <2> HIDE DEF gpus, pairs, matched
    <2> QED BY <2>2, Zenon
  <1> PICK s \in SetToSeqs(matched(m)) : plan = pairs(m, s)
    BY <1>3
  <1> HIDE DEF options, turns
  <1>4. /\ s \in [1 .. Cardinality(matched(m)) -> matched(m)]
        /\ \A i, j \in DOMAIN s : i # j => s[i] # s[j]
    BY DEF SetToSeqs
  <1>5. Cardinality(matched(m)) \in Nat
    <2>1. matched(m) \in SUBSET (1 .. Cardinality(queued))
      BY <1>1
    <2>2. IsFiniteSet(1 .. Cardinality(queued))
      BY <1>2, FS_Interval
    <2> HIDE DEF matched
    <2> QED BY <2>1, <2>2, FS_Subset, FS_CardinalityType
  <1>6. \A n \in DOMAIN s : s[n] \in DOMAIN order /\ m[s[n]] \in Gpu
    BY <1>4
  <1>7. \A n \in DOMAIN s : order[s[n]] \in queued /\ <<order[s[n]], m[s[n]]>> \in Pair
    BY <1>1, <1>6 DEF Pair
  <1>8. DOMAIN s = 1 .. Cardinality(matched(m))
    BY <1>4
  <1> HIDE DEF matched
  <1>9. plan \in [1 .. Cardinality(matched(m)) -> Pair]
    BY <1>7, <1>8
  <1>10. plan \in Seq(Pair)
    <2>1. \A N \in Nat : \A f \in [1 .. N -> Pair] : f \in Seq(Pair)
      OBVIOUS
    <2> QED BY <2>1, <1>5, <1>9, Zenon
  <1>11. DOMAIN plan = DOMAIN s /\ \A n \in DOMAIN s : plan[n][1] = order[s[n]]
    OBVIOUS
  <1>12. \A i, j \in DOMAIN plan : plan[i][1] = plan[j][1] => i = j
    BY <1>1, <1>4, <1>6, <1>11
  <1>13. \A i \in DOMAIN plan : plan[i][1] \in queued
    BY <1>7, <1>11
  <1> HIDE DEF pairs
  <1> QED
    BY <1>10, <1>12, <1>13 DEF Sound

\* Each pair of a match has room: its GPU is open, and is free enough beside the tasks
\* that the plan gave it to before.
EarlierOn(plan, n) == {plan[i][1] : i \in {i \in 1 .. n - 1 : plan[i][2] = plan[n][2]}}
RoomFor(plan, n, p) ==
    /\ plan[n][2] \in Available(p) \cap Wants[plan[n][1]]
    /\ HasRoom(plan[n][1], plan[n][2], p, EarlierOn(plan, n))

LEMMA LeastNatural ==
    ASSUME NEW S \in SUBSET Nat, S # {}
    PROVE  Min(S) \in S /\ \A n \in S : Min(S) <= n
  <1>1. PICK m \in S : \A n \in S : ~ (<<n, m>> \in OpToRel(<, Nat))
    BY NatLessThanWellFounded, WFMin
  <1>2. \A n \in S : m <= n
    <2> SUFFICES ASSUME NEW n \in S, n < m PROVE FALSE
      OBVIOUS
    <2>1. <<n, m>> \in Nat \X Nat /\ <<n, m>>[1] < <<n, m>>[2]
      OBVIOUS
    <2>2. <<n, m>> \in OpToRel(<, Nat)
      BY <2>1 DEF OpToRel
    <2> QED BY <1>1, <2>2
  <1> QED
    BY <1>2 DEF Min

LEMMA MatchesHaveRoom ==
    ASSUME queued \subseteq Task, NEW order \in SetToSeqs(queued), NEW p, NEW counts,
           NEW plan \in Match(order, p, counts)
    PROVE  \A n \in DOMAIN plan : RoomFor(plan, n, p)
  <1> DEFINE before(m, i) == {order[j] : j \in {j \in 1 .. i - 1 : m[j] = m[i]}}
             options(m, i) == {g \in Available(p) \cap Wants[order[i]] :
                 LET E == {order[j] : j \in {j \in 1 .. i - 1 : m[j] = g}}
                 IN CanRun(order[i], g, p, E, counts)}
             gpus == {m \in [DOMAIN order -> Gpu \cup {NoGpu}] :
                        \A i \in DOMAIN order :
                          m[i] = IF options(m, i) = {} THEN NoGpu ELSE Min(options(m, i))}
             matched(m) == {i \in DOMAIN order : m[i] # NoGpu}
             turns(m) == {s \in SetToSeqs(matched(m)) : \A i, j \in DOMAIN s : i < j => s[i] < s[j]}
             pairs(m, s) == [n \in DOMAIN s |-> <<order[s[n]], m[s[n]]>>]
  <1>1. order \in [1 .. Cardinality(queued) -> queued] /\ Cardinality(queued) \in Nat
    BY FS_Subset, FS_CardinalityType DEF SetToSeqs
  <1>2. plan \in UNION {{pairs(m, s) : s \in turns(m)} : m \in gpus}
    BY DEF Match
  <1> SUFFICES ASSUME NEW m \in gpus, NEW s \in turns(m), plan = pairs(m, s)
               PROVE  \A n \in DOMAIN plan : RoomFor(plan, n, p)
    <2> HIDE DEF gpus, turns, pairs
    <2> QED BY <1>2, Zenon
  <1>3. /\ s \in [1 .. Cardinality(matched(m)) -> matched(m)]
        /\ \A i, j \in 1 .. Cardinality(matched(m)) : i # j => s[i] # s[j]
        /\ \A i, j \in 1 .. Cardinality(matched(m)) : i < j => s[i] < s[j]
    BY DEF SetToSeqs
  <1>4. matched(m) \in SUBSET (1 .. Cardinality(queued)) /\ matched(m) \in SUBSET Nat
    BY <1>1
  <1>5. IsFiniteSet(matched(m)) /\ Cardinality(matched(m)) \in Nat
    <2>1. \A N \in Nat : IsFiniteSet(1 .. N)
      BY FS_Interval
    <2> HIDE DEF matched
    <2> QED BY <1>1, <1>4, <2>1, FS_Subset, FS_CardinalityType
  <1>6. \A i \in matched(m) : \E n \in 1 .. Cardinality(matched(m)) : s[n] = i
    <2> DEFINE C == Cardinality(matched(m))
    <2>1. s \in Injection(1 .. C, matched(m))
      BY <1>3 DEF Injection, IsInjective
    <2>2. IsFiniteSet(1 .. C) /\ Cardinality(1 .. C) = C
      BY <1>5, FS_Interval
    <2>3. s \in Surjection(1 .. C, matched(m))
      <3> HIDE DEF matched
      <3> QED BY <1>5, <2>1, <2>2, FS_Injection
    <2> QED BY <2>3 DEF Surjection
  <1>7. \A i \in matched(m) : /\ m[i] \in Available(p) \cap Wants[order[i]]
                              /\ HasRoom(order[i], m[i], p, before(m, i))
    <2> TAKE i \in matched(m)
    <2>1. options(m, i) # {} /\ m[i] = Min(options(m, i))
      OBVIOUS
    <2>2. options(m, i) \in SUBSET Nat
      BY <1>1, GpuAssumption
    <2>3. m[i] \in options(m, i)
      <3> HIDE DEF options
      <3> QED BY <2>1, <2>2, LeastNatural
    <2> QED BY <2>3 DEF CanRun
  <1> TAKE n \in DOMAIN plan
  <1>8. /\ DOMAIN plan = 1 .. Cardinality(matched(m)) /\ n \in Nat
        /\ \A i \in DOMAIN plan : plan[i][1] = order[s[i]] /\ plan[i][2] = m[s[i]]
    BY <1>3
  <1>9. EarlierOn(plan, n) = before(m, s[n])
    <2> DEFINE mine == {i \in 1 .. n - 1 : plan[i][2] = plan[n][2]}
               theirs == {j \in 1 .. s[n] - 1 : m[j] = m[s[n]]}
    <2>1. \A i \in 1 .. n - 1 : i \in DOMAIN plan /\ i < n
      BY <1>5, <1>8
    <2>2. \A i \in mine : s[i] \in theirs
      <3> TAKE i \in mine
      <3>1. i \in DOMAIN plan /\ s[i] < s[n] /\ s[i] \in matched(m)
        BY <1>3, <1>8, <2>1
      <3>2. s[i] \in 1 .. s[n] - 1
        BY <1>3, <1>4, <1>8, <3>1
      <3> QED BY <1>8, <3>1, <3>2
    <2>3. \A j \in theirs : \E i \in mine : s[i] = j
      <3> TAKE j \in theirs
      <3>1. s[n] \in matched(m) /\ s[n] \in Nat /\ j \in matched(m) /\ j < s[n]
        <4>1. s[n] \in matched(m)
          BY <1>3, <1>8
        <4>2. s[n] \in 1 .. Cardinality(queued)
          BY <4>1, <1>4
        <4>3. j \in 1 .. Cardinality(queued) /\ j < s[n]
          BY <4>2, <1>1
        <4>4. j \in matched(m)
          BY <4>1, <4>3, <1>1
        <4> QED BY <4>1, <4>2, <4>3, <4>4
      <3>2. PICK i \in 1 .. Cardinality(matched(m)) : s[i] = j
        BY <1>6, <3>1
      <3>3. ~(n < i) /\ i # n
        <4>1. s[i] \in Nat /\ ~(s[n] < s[i]) /\ s[n] # s[i]
          BY <3>1, <3>2, <1>4
        <4> QED BY <4>1, <1>3, <1>8
      <3>4. i \in 1 .. n - 1
        BY <1>5, <1>8, <3>3
      <3>5. plan[i][2] = plan[n][2]
        BY <1>8, <3>2
      <3> QED BY <3>2, <3>4, <3>5
    <2>4. EarlierOn(plan, n) = {order[s[i]] : i \in mine}
      BY <1>8, <2>1 DEF EarlierOn
    <2>5. before(m, s[n]) = {order[j] : j \in theirs}
      OBVIOUS
    <2> HIDE DEF mine, theirs, before
    <2>6. \A x : (\E i \in mine : x = order[s[i]]) <=> \E j \in theirs : x = order[j]
      BY <2>2, <2>3, Zenon
    <2>7. {order[s[i]] : i \in mine} = {order[j] : j \in theirs}
      BY <2>6, Zenon
    <2> QED BY <2>4, <2>5, <2>7, Zenon
  <1>10. s[n] \in matched(m)
    BY <1>3, <1>8
  <1> HIDE DEF before, matched, options, gpus, turns, pairs
  <1> QED
    BY <1>7, <1>8, <1>9, <1>10 DEF RoomFor

-----------------------------------------------------------------------------
(* What is launched in one go has room.                                      *)

MemoryInUse == used \in [Gpu -> 0 .. Memory]

\* A task that keeps no handle has no memory of its own on any GPU.
Bare(t) == \A g \in Gpu : ~HasOwn(t, g)

LEMMA NoHandleIsBare ==
    ASSUME NEW t \in Task, Synced.at[t] = NoGpu
    PROVE  Bare(t)
  <1>1. Synced.at[t] = IF Kept(t) THEN reservation[t] ELSE NoGpu
    BY DEF Synced, Released
  <1>2. \A g \in Gpu : g # NoGpu
    BY GpuAssumption DEF NoGpu
  <1> QED
    BY <1>1, <1>2 DEF Bare, HasOwn

\* The memory that a plan has given away on a GPU, when none of its tasks has reserved.
LEMMA PlannedMemory ==
    ASSUME NEW g \in Gpu, NEW E \in SUBSET Task, \A u \in E : Bare(u)
    PROVE  /\ SumFunctionOnSet(Budget, E) \in Nat
           /\ SumFunction([u \in E |-> OwnReservation(u, g) - Budget[u]])
                = 0 - SumFunctionOnSet(Budget, E)
           /\ \A u \in E : Budget[u] > 0 => SumFunctionOnSet(Budget, E) > 0
  <1> DEFINE d == [u \in E |-> OwnReservation(u, g) - Budget[u]]
  <1>1. \A u \in Task : Budget[u] \in Nat
    BY MemoryAssumption
  <1>2. \A u \in E : d[u] = 0 - Budget[u]
    BY MemoryAssumption DEF OwnReservation, Bare
  <1>3. DOMAIN d = E
    OBVIOUS
  <1> HIDE DEF d
  <1>4. SumFunctionOnSet(Budget, E) \in Nat
    BY <1>1, SumsAreNaturals
  <1>5. SumFunctionOnSet(d, E) = 0 - SumFunctionOnSet(Budget, E)
    BY <1>1, <1>2, SumOfDifferences
  <1>6. SumFunction(d) = SumFunctionOnSet(d, E)
    BY <1>3 DEF SumFunction
  <1>7. ASSUME NEW u \in E, Budget[u] > 0 PROVE SumFunctionOnSet(Budget, E) > 0
    <2>1. SumFunctionOnSet(Budget, E) = Budget[u] + SumFunctionOnSet(Budget, E \ {u})
      BY <1>1, SumFromAny
    <2>2. SumFunctionOnSet(Budget, E \ {u}) \in Nat /\ Budget[u] \in Nat
      BY <1>1, SumsAreNaturals
    <2> QED BY <2>1, <2>2, <1>7
  <1> QED
    BY <1>4, <1>5, <1>6, <1>7 DEF d

\* What is taken on a GPU includes what others use.
LEMMA TakenMemory ==
    ASSUME MemoryInUse, NEW g \in Gpu, NEW R
    PROVE  Taken(g, R) \in Nat /\ used[g] \in Nat /\ used[g] <= Taken(g, R)
  <1>1. ASSUME NEW H
        PROVE  HeldOn(g, H) \in Nat
    <2> DEFINE Holding == {t \in Task : <<t, g>> \in H}
    <2>1. Holding \in SUBSET Task /\ \A t \in Holding : Reserve[t] \in Nat
      BY MemoryAssumption
    <2>2. SumFunctionOnSet(Reserve, Holding) \in Nat
      <3> HIDE DEF Holding
      <3> QED BY <2>1, SumsAreNaturals
    <2> QED BY <2>2 DEF HeldOn
  <1>2. used[g] \in Nat
    BY MemoryAssumption DEF MemoryInUse
  <1>3. HeldOn(g, R[1]) \in Nat /\ HeldOn(g, R[2]) \in Nat
    BY <1>1
  <1> QED
    BY <1>2, <1>3 DEF Taken

\* What room means for a task without a reservation beside others without any.
LEMMA RoomWithoutReservations ==
    ASSUME MemoryInUse, NEW g \in Gpu, NEW R, NEW t \in Task,
           NEW E \in SUBSET Task, \A u \in E \cup {t} : Bare(u),
           HasRoom(t, g, PayloadNow(R), E)
    PROVE  /\ \A u \in E : Budget[u] > 0
           /\ Budget[t] = 0 => /\ g \in PayloadNow(R).idle
                               /\ E = {}
           /\ Budget[t] > 0 =>
                 used[g] + (Budget[t] + SumFunctionOnSet(Budget, E)) + Headroom < Memory
  <1> DEFINE p == PayloadNow(R)
             planned == SumFunction([u \in E |-> OwnReservation(u, g) - Budget[u]])
             sum == SumFunctionOnSet(Budget, E)
  <1>1. /\ sum \in Nat /\ planned = 0 - sum
        /\ \A u \in E : Budget[u] > 0 => sum > 0
    BY PlannedMemory
  <1>2. OwnReservation(t, g) = 0
    BY DEF OwnReservation, Bare
  <1>3. \A u \in E : Budget[u] > 0
    BY DEF HasRoom
  <1>4. ASSUME Budget[t] = 0 PROVE g \in p.idle /\ E = {}
    <2>1. g \in p.idle /\ planned = 0
      BY <1>4 DEF HasRoom
    <2> HIDE DEF p, planned, sum
    <2>2. ~(sum > 0)
      BY <1>1, <2>1
    <2> QED BY <1>1, <1>3, <2>1, <2>2
  <1>5. ASSUME Budget[t] > 0 PROVE used[g] + (Budget[t] + sum) + Headroom < Memory
    <2>1. p.free[g] + planned + OwnReservation(t, g) > Budget[t] + Headroom
      BY <1>5 DEF HasRoom
    <2>2. p.free[g] = IF Taken(g, R) > Memory THEN 0 ELSE Memory - Taken(g, R)
      BY DEF PayloadNow
    <2>3. Taken(g, R) \in Nat /\ used[g] \in Nat /\ used[g] <= Taken(g, R)
      BY TakenMemory
    <2>4. Budget[t] \in Nat /\ Headroom \in Nat /\ Memory \in Nat
      BY MemoryAssumption
    <2> HIDE DEF p, planned, sum
    <2> QED BY <2>1, <2>2, <2>3, <2>4, <1>1, <1>2
  <1> QED
    BY <1>3, <1>4, <1>5

\* The tasks that the first N pairs of a plan bring to a GPU.
Brought(plan, N, g) == {plan[i][1] : i \in {i \in 1 .. N : plan[i][2] = g}}

\* Of those tasks the last one has room beside the others, and so they have together.
LEMMA TogetherTheyHaveRoom ==
    ASSUME MemoryInUse, NEW R, queued \subseteq Task,
           NEW plan, Sound(plan), \A n \in DOMAIN plan : RoomFor(plan, n, PayloadNow(R)),
           NEW N \in 0 .. Len(plan), \A i \in 1 .. N : Bare(plan[i][1]),
           NEW g \in Gpu, Brought(plan, N, g) # {}
    PROVE  LET L == Brought(plan, N, g) IN
           /\ g \in (allowed \ leased) \ cooldown
           /\ \A t \in L : g \in Wants[t]
           /\ (\E t \in L : Budget[t] = 0) => used[g] = 0 /\ g \notin Occupied
           /\ (\E t \in L : Budget[t] > 0) =>
                 used[g] + SumFunctionOnSet(Budget, L) + Headroom < Memory
  <1> DEFINE L == Brought(plan, N, g)
             p == PayloadNow(R)
             places == {i \in 1 .. N : plan[i][2] = g}
  <1>1. /\ Len(plan) \in Nat /\ N \in Nat /\ DOMAIN plan = 1 .. Len(plan)
        /\ \A i \in 1 .. N : i \in DOMAIN plan /\ plan[i][1] \in queued /\ plan[i][1] \in Task
    BY DEF Sound
  <1>2. \A t \in L : \E i \in places : t = plan[i][1]
    BY DEF Brought
  <1>3. \A i \in places :
           /\ i \in 1 .. N /\ plan[i][1] \in Task /\ Bare(plan[i][1])
           /\ g \in Available(p) \cap Wants[plan[i][1]]
           /\ HasRoom(plan[i][1], g, p, EarlierOn(plan, i))
    BY <1>1 DEF RoomFor
  <1>4. \A i \in places : EarlierOn(plan, i) = Brought(plan, i - 1, g)
    BY DEF EarlierOn, Brought
  <1>5. \A i \in places :
           /\ EarlierOn(plan, i) \in SUBSET Task
           /\ \A u \in EarlierOn(plan, i) : Bare(u)
    BY <1>1 DEF EarlierOn
  <1>6. \A i \in places :
           /\ \A u \in EarlierOn(plan, i) : Budget[u] > 0
           /\ Budget[plan[i][1]] = 0 => g \in p.idle /\ EarlierOn(plan, i) = {}
           /\ Budget[plan[i][1]] > 0 =>
                 used[g] + (Budget[plan[i][1]] + SumFunctionOnSet(Budget, EarlierOn(plan, i)))
                    + Headroom < Memory
    <2> TAKE i \in places
    <2>1. \A u \in EarlierOn(plan, i) \cup {plan[i][1]} : Bare(u)
      BY <1>3, <1>5
    <2> HIDE DEF places, p
    <2> QED BY <1>3, <1>5, <2>1, RoomWithoutReservations DEF p
  <1>7. places # {} /\ g \in (allowed \ leased) \ cooldown
    <2>1. places # {}
      BY <1>2
    <2> QED BY <1>3, <2>1 DEF Available, PayloadNow
  <1>8. \A t \in L : g \in Wants[t]
    BY <1>2, <1>3
  <1>9. (\E t \in L : Budget[t] = 0) => used[g] = 0 /\ g \notin Occupied
    <2>1. g \in p.idle => Taken(g, R) = 0 /\ g \notin Occupied
      BY DEF PayloadNow, Unused
    <2>2. Taken(g, R) = 0 => used[g] = 0
      BY TakenMemory
    <2> HIDE DEF L, p, places
    <2> QED BY <1>2, <1>6, <2>1, <2>2
  <1>10. PICK last \in places : \A i \in places : i <= last
    <2> DEFINE fromEnd == {N - i : i \in places}
    <2>1. fromEnd \in SUBSET Nat /\ fromEnd # {}
      BY <1>1, <1>7
    <2>2. PICK k \in fromEnd : \A m \in fromEnd : k <= m
      <3> HIDE DEF fromEnd
      <3> QED BY <2>1, LeastNatural
    <2>3. PICK last \in places : k = N - last
      OBVIOUS
    <2>4. \A i \in places : N - last <= N - i
      BY <2>2, <2>3
    <2> QED BY <2>4, <1>1
  <1> DEFINE E == EarlierOn(plan, last)
             t == plan[last][1]
  <1>11. L = E \cup {t} /\ t \notin E
    <2>1. \A i \in places : i = last \/ i \in 1 .. last - 1
      BY <1>1, <1>10
    <2>2. \A i \in 1 .. last - 1 : i \in 1 .. N
      BY <1>1, <1>10
    <2>3. \A i \in 1 .. last - 1 : plan[i][1] # t
      <3>1. \A i \in 1 .. last - 1 : i # last /\ i \in DOMAIN plan
        BY <1>1, <1>10
      <3> QED BY <1>1, <1>3, <3>1 DEF Sound
    <2>4. t \notin E
      BY <2>3 DEF EarlierOn
    <2>5. \A u : u \in L <=> u \in E \cup {t}
      <3>1. plan[last][2] = g
        OBVIOUS
      <3>2. \A u : u \in E <=> \E i \in 1 .. last - 1 : plan[i][2] = g /\ u = plan[i][1]
        BY <3>1 DEF EarlierOn
      <3>3. \A u : u \in L <=> \E i \in 1 .. N : plan[i][2] = g /\ u = plan[i][1]
        BY DEF Brought
      <3>4. last \in 1 .. N
        OBVIOUS
      <3>5. \A i \in 1 .. N : plan[i][2] = g => i = last \/ i \in 1 .. last - 1
        BY <2>1
      <3> HIDE DEF L, E, places
      <3> QED BY <2>2, <3>1, <3>2, <3>3, <3>4, <3>5
    <2> QED BY <2>4, <2>5
  <1>12. ASSUME NEW v \in L, Budget[v] > 0
         PROVE  used[g] + SumFunctionOnSet(Budget, L) + Headroom < Memory
    <2>1. Budget[t] > 0
      <3>1. Budget[t] \in Nat
        BY <1>3, MemoryAssumption
      <3>2. CASE Budget[t] = 0
        <4>1. E = {}
          BY <1>6, <3>2
        <4> QED BY <4>1, <1>11, <1>12
      <3> QED BY <3>1, <3>2
    <2>2. SumFunctionOnSet(Budget, L) = Budget[t] + SumFunctionOnSet(Budget, E)
      <3>1. L \in SUBSET Task /\ t \in L /\ L \ {t} = E
        BY <1>3, <1>5, <1>11
      <3>2. \A u \in L : Budget[u] \in Nat
        BY <3>1, MemoryAssumption
      <3> HIDE DEF L, E, t
      <3> QED BY <3>1, <3>2, SumFromAny
    <2> QED BY <1>6, <2>1, <2>2
  <1> QED
    BY <1>7, <1>8, <1>9, <1>12

-----------------------------------------------------------------------------
(* Carrying a plan out.                                                      *)

LEMMA Launching ==
    ASSUME PolicyTypeOK, QueuedTasksAreOff, NEW pairs \in SUBSET Pair,
           \A a, b \in pairs : a[1] = b[1] => a = b,
           \A a \in pairs : a[1] \in queued,
           NEW counts, NEW released, Launched(pairs, counts, released)
    PROVE  /\ queued' = queued \ {pair[1] : pair \in pairs}
           /\ on' \in [Task -> Place]
           /\ \A t \in Task : t \notin {pair[1] : pair \in pairs} => on'[t] = on[t]
           /\ \A pair \in pairs : on'[pair[1]] = pair[2]
  <1> DEFINE gpus == {pair[2] : pair \in pairs}
             To(t) == {on[t]} \cup {g \in gpus : <<t, g>> \in pairs}
  <1>1. queued' = queued \ {pair[1] : pair \in pairs} /\ on' = [t \in Task |-> Max(To(t))]
    BY DEF Launched
  <1>2. \A x \in Place : Max({x}) = x
    BY GpuAssumption DEF Max, Place, NoGpu
  <1>3. \A x \in Gpu : Max({NoGpu} \cup {x}) = x
    <2> TAKE x \in Gpu
    <2>1. \A y \in {NoGpu} \cup {x} : x >= y
      BY GpuAssumption DEF NoGpu
    <2>2. \A z \in {NoGpu} \cup {x} : (\A y \in {NoGpu} \cup {x} : z >= y) => z = x
      BY GpuAssumption DEF NoGpu
    <2> QED BY <2>1, <2>2 DEF Max
  <1>4. ASSUME NEW t \in Task, t \notin {pair[1] : pair \in pairs}
        PROVE  Max(To(t)) = on[t] /\ on[t] \in Place
    <2>1. To(t) = {on[t]}
      <3>1. \A g \in gpus : <<t, g>> \notin pairs
        BY <1>4
      <3> QED BY <3>1
    <2>2. on[t] \in Place
      BY DEF PolicyTypeOK
    <2> HIDE DEF To
    <2> QED BY <1>2, <2>1, <2>2
  <1>5. ASSUME NEW pair \in pairs
        PROVE  Max(To(pair[1])) = pair[2] /\ pair[1] \in Task /\ pair[2] \in Place
    <2>1. /\ pair = <<pair[1], pair[2]>> /\ pair[1] \in Task /\ pair[2] \in Gpu
          /\ on[pair[1]] = NoGpu
      BY PairsHaveParts DEF QueuedTasksAreOff
    <2>2. \A g \in gpus : <<pair[1], g>> \in pairs <=> g = pair[2]
      BY <2>1
    <2>3. To(pair[1]) = {NoGpu} \cup {pair[2]}
      BY <2>1, <2>2
    <2> HIDE DEF To
    <2> QED BY <1>3, <2>1, <2>3 DEF Place
  <1>6. \A t \in Task : Max(To(t)) \in Place
    BY <1>4, <1>5
  <1> HIDE DEF To
  <1>7. \A pair \in pairs : on'[pair[1]] = pair[2]
    BY <1>1, <1>5
  <1> QED
    BY <1>1, <1>4, <1>6, <1>7

LEMMA AtFacts ==
    ASSUME NEW where \in Stage
    PROVE  /\ At(where).at = where /\ At(where).todo = <<>>
           /\ \A x : [At(where) EXCEPT !.todo = x].at = where /\ [At(where) EXCEPT !.todo = x].todo = x
           /\ \A x : [At(where) EXCEPT !.payload = x].at = where
                     /\ [At(where) EXCEPT !.payload = x].todo = <<>>
           /\ \A x, y : /\ [At(where) EXCEPT !.schedule = x, !.allowed = y].at = where
                        /\ [At(where) EXCEPT !.schedule = x, !.allowed = y].todo = <<>>
  BY DEF At

\* No other tick is in the middle of a plan.
Alone(k) == \A j \in Tick \ {k} : tick[j].at \notin {"reserve", "release"} /\ tick[j].todo = <<>>

\* With these handles nothing runs beside one of its own, and they name the processes.
RunsWithout(h) == \A t \in Task : on[t] # NoGpu => h.at[t] = NoGpu
RunsOnWithout(h) == \A t \in Task : on'[t] # NoGpu => h.at[t] = NoGpu   \* after the step
Named(h) == /\ h.at \in [Task -> Place] /\ h.refused \in [Task -> Place]
            /\ h.helpers \subseteq Task \X Gpu
            /\ \A x \in h.helpers : h.at[x[1]] = x[2]

LEMMA ReleasedIsNamed ==
    ASSUME NEW h, Named(h), NEW T
    PROVE  /\ Named(Released(h, T))
           /\ \A t \in Task : Released(h, T).at[t] = IF t \in T THEN NoGpu ELSE h.at[t]
  <1> DEFINE r == Released(h, T)
             told == {x \in h.helpers : x[1] \in T /\ x[2] = h.at[x[1]]}
  <1>1. /\ r.at = [t \in Task |-> IF t \in T THEN NoGpu ELSE h.at[t]]
        /\ r.refused = h.refused /\ r.helpers = h.helpers \ told
    BY DEF Released
  <1>2. \A x \in h.helpers : x[1] \in Task /\ h.at[x[1]] = x[2]
    BY DEF Named
  <1>3. \A x \in r.helpers : x \in h.helpers /\ x[1] \notin T
    BY <1>1, <1>2
  <1> HIDE DEF r
  <1>4. \A x \in r.helpers : r.at[x[1]] = x[2]
    BY <1>1, <1>2, <1>3
  <1>5. r.at \in [Task -> Place] /\ r.refused \in [Task -> Place] /\ r.helpers \subseteq Task \X Gpu
    BY <1>1 DEF Named, Place
  <1> QED
    BY <1>1, <1>4, <1>5 DEF Named, r

LEMMA StartedIsNamed ==
    ASSUME NEW h, Named(h), NEW t \in Task, NEW g \in Gpu
    PROVE  /\ Named(Started(h, t, g))
           /\ \A u \in Task : Started(h, t, g).at[u] = IF u = t THEN g ELSE h.at[u]
  <1> DEFINE q == Released(h, {t})
             r == Started(h, t, g)
  <1>1. /\ r.at = [u \in Task |-> IF u = t THEN g ELSE q.at[u]]
        /\ r.refused = q.refused /\ r.helpers = q.helpers \cup {<<t, g>>}
    BY DEF Started
  <1>2. Named(q) /\ \A u \in Task : q.at[u] = IF u \in {t} THEN NoGpu ELSE h.at[u]
    BY ReleasedIsNamed
  <1> HIDE DEF q, r
  <1>3. \A x \in q.helpers : x[1] # t
    <2> SUFFICES ASSUME NEW x \in q.helpers, x[1] = t PROVE FALSE
      OBVIOUS
    <2>1. x[2] = NoGpu /\ x[2] \in Gpu
      BY <1>2 DEF Named
    <2> QED BY <2>1, GpuAssumption DEF NoGpu
  <1>4. \A x \in q.helpers : x[1] \in Task /\ q.at[x[1]] = x[2]
    BY <1>2 DEF Named
  <1>5. \A x \in r.helpers : r.at[x[1]] = x[2]
    <2> TAKE x \in r.helpers
    <2>1. CASE x \in q.helpers
      BY <1>1, <1>3, <1>4, <2>1
    <2>2. CASE x = <<t, g>>
      BY <1>1, <2>2
    <2> QED BY <1>1, <2>1, <2>2
  <1>6. r.at \in [Task -> Place] /\ r.refused \in [Task -> Place] /\ r.helpers \subseteq Task \X Gpu
    BY <1>1, <1>2 DEF Named, Place
  <1> QED
    BY <1>1, <1>2, <1>5, <1>6 DEF Named, r

\* What a coroutine that holds the lock starts from: the pairs it launches in any case,
\* the rest of its plan, and the reservations as it found or has left them.
Ready(k, launched, plan, h) ==
    /\ k \in Tick /\ Alone(k)
    /\ Sound(plan)
    /\ launched \in SUBSET Pair
    /\ \A a, b \in launched : a[1] = b[1] => a = b
    /\ \A a \in launched : /\ a[1] \in queued /\ h.at[a[1]] = NoGpu
                           /\ \A i \in DOMAIN plan : plan[i][1] # a[1]
    /\ Named(h) /\ RunsWithout(h)

\* The pairs of a plan at these positions.
Pairs(plan, part) == {plan[i] : i \in part}

\* Some pairs of the plan are launched, none of them with a reservation: the tasks of the
\* others still wait, and what runs has no reservation.
LEMMA LaunchingAPart ==
    ASSUME PolicyIInv, NEW k, NEW launched, NEW plan, NEW h,
           Ready(k, launched, plan, h), NEW part \in SUBSET DOMAIN plan,
           \A i \in part : h.at[plan[i][1]] = NoGpu,
           NEW counts, NEW released, Launched(launched \cup Pairs(plan, part), counts, released)
    PROVE  /\ queued' \subseteq queued
           /\ on' \in [Task -> Place]
           /\ QueuedTasksAreOff'
           /\ \A i \in DOMAIN plan \ part : plan[i][1] \in queued'
           /\ RunsOnWithout(h)
  <1> DEFINE pairs == launched \cup {plan[i] : i \in part}
             gone == {pair[1] : pair \in pairs}
  <1>1. \A i \in DOMAIN plan : plan[i] \in Pair /\ plan[i][1] \in queued
    BY DEF Ready, Sound
  <1>2. pairs \in SUBSET Pair /\ \A a \in pairs : a[1] \in queued /\ h.at[a[1]] = NoGpu
    BY <1>1 DEF Ready
  <1>3. \A a, b \in pairs : a[1] = b[1] => a = b
    BY DEF Ready, Sound
  <1>4. \A i \in DOMAIN plan \ part : plan[i][1] \notin gone
    BY DEF Ready, Sound
  <1>5. Launched(pairs, counts, released)
    BY DEF Pairs
  <1>6. \A t \in gone : t \in queued /\ h.at[t] = NoGpu
    BY <1>2
  <1> HIDE DEF pairs
  <1>7. /\ queued' = queued \ gone /\ on' \in [Task -> Place]
        /\ \A t \in Task : t \notin gone => on'[t] = on[t]
    BY <1>2, <1>3, <1>5, Launching DEF PolicyIInv
  <1> HIDE DEF gone
  <1>8. QueuedTasksAreOff'
    BY <1>7 DEF QueuedTasksAreOff, PolicyIInv, PolicyTypeOK
  <1>9. \A i \in DOMAIN plan \ part : plan[i][1] \in queued'
    BY <1>1, <1>4, <1>7
  <1>10. RunsOnWithout(h)
    BY <1>6, <1>7 DEF Ready, RunsWithout, RunsOnWithout
  <1> QED
    BY <1>7, <1>8, <1>9, <1>10

\* Carrying a plan out, to its end or up to a pair that has to wait for its reservation
\* to be started or released.
LEMMA Placing ==
    ASSUME PolicyIInv, NEW k, NEW launched, NEW plan, NEW h,
           Ready(k, launched, plan, h),
           NEW counts, NEW released, Placed(k, launched, plan, h, counts, released)
    PROVE  PolicyIInv'
  <1>0. PolicyTypeOK
    BY DEF PolicyIInv
  <1>1. DOMAIN tick = Tick /\ k \in Tick /\ Alone(k)
    BY <1>0 DEF Ready, PolicyTypeOK
  <1>2. Named(h) /\ RunsWithout(h)
    BY DEF Ready
  <1>3. \A i \in DOMAIN plan : plan[i] \in Pair /\ plan[i][1] \in Task /\ plan[i][2] \in Gpu
    BY PairsHaveParts DEF Ready, Sound
  <1>4. \A i \in DOMAIN plan : i \notin Stops(plan, h) => h.at[plan[i][1]] = NoGpu
    BY DEF Stops, Releases
  <1>5. CASE /\ Stops(plan, h) = {}
             /\ Launched(launched \cup ToSet(plan), counts, released)
             /\ tick' = [tick EXCEPT ![k] = At("none")]
             /\ lock' = None
             /\ HeldAs(h)
    <2>1. Launched(launched \cup Pairs(plan, DOMAIN plan), counts, released)
      BY <1>5 DEF ToSet, Pairs
    <2>2. /\ queued' \subseteq queued /\ on' \in [Task -> Place] /\ QueuedTasksAreOff'
          /\ RunsOnWithout(h)
      <3>1. DOMAIN plan \in SUBSET DOMAIN plan /\ \A i \in DOMAIN plan : h.at[plan[i][1]] = NoGpu
        BY <1>4, <1>5
      <3> QED BY <2>1, <3>1, LaunchingAPart, Zenon
    <2>3. \A j \in Tick : tick'[j].todo = <<>> /\ tick'[j].at \in Stage \ {"reserve", "release"}
      BY <1>0, <1>1, <1>5, AtFacts DEF Alone, Stage, PolicyTypeOK
    <2>4. PolicyTypeOK'
      <3>1. queued' \subseteq Task /\ DOMAIN tick' = Tick
        BY <1>0, <1>1, <1>5, <2>2 DEF PolicyTypeOK
      <3>2. <<>> \in Seq(Pair)
        OBVIOUS
      <3>3. \A j \in Tick : tick'[j].at \in Stage /\ tick'[j].todo \in Seq(Pair)
        BY <2>3, <3>2
      <3>4. /\ reservation' \in [Task -> Place] /\ refused' \in [Task -> Place]
            /\ helpers' \subseteq Task \X Gpu
        BY <1>2, <1>5 DEF Named, HeldAs
      <3> QED BY <2>2, <3>1, <3>3, <3>4, Zenon DEF PolicyTypeOK
    <2>5. PlannedTasksStayQueued' /\ PlansAreLocked' /\ PlansAreApart' /\ HandlesFitThePlan'
      BY <2>3 DEF PlannedTasksStayQueued, PlansAreLocked, PlansAreApart, HandlesFitThePlan
    <2>6. RunningTasksHoldNothing' /\ HelpersHaveHandles'
      BY <1>2, <1>5, <2>2 DEF RunningTasksHoldNothing, HelpersHaveHandles, HeldAs, Named, RunsOnWithout
    <2> QED BY <2>2, <2>4, <2>5, <2>6 DEF PolicyIInv
  <1>6. ASSUME NEW n \in DOMAIN plan, n \in Stops(plan, h),
               \A i \in Stops(plan, h) : n <= i,
               Launched(launched \cup {plan[i] : i \in 1 .. n - 1}, counts, released),
               NEW where \in {"reserve", "release"}, NEW held_, Named(held_),
               \A t \in Task : t # plan[n][1] => held_.at[t] = h.at[t],
               held_.at[plan[n][1]] = IF where = "release" THEN NoGpu ELSE plan[n][2],
               tick' = [tick EXCEPT ![k] = [At(where) EXCEPT !.todo = SubSeq(plan, n, Len(plan))]],
               lock' = k,
               HeldAs(held_)
        PROVE  PolicyIInv'
    <2> DEFINE rest == SubSeq(plan, n, Len(plan))
    <2>1. plan \in Seq(Pair) /\ n \in 1 .. Len(plan) /\ Len(plan) \in Nat
      BY <1>6 DEF Ready, Sound
    <2>2. /\ rest \in Seq(Pair) /\ Len(rest) = Len(plan) - n + 1
          /\ \A i \in DOMAIN rest : i + n - 1 \in DOMAIN plan /\ rest[i] = plan[i + n - 1]
      <3>1. \A i \in n .. Len(plan) : plan[i] \in Pair
        BY <2>1
      <3>2. /\ rest \in Seq(Pair)
            /\ Len(rest) = IF n <= Len(plan) THEN Len(plan) - n + 1 ELSE 0
            /\ \A i \in 1 .. Len(plan) - n + 1 : rest[i] = plan[n + i - 1]
        BY <2>1, <3>1, SubSeqProperties
      <3> HIDE DEF rest
      <3>3. DOMAIN rest = 1 .. Len(plan) - n + 1
        BY <2>1, <3>2
      <3> QED BY <2>1, <3>2, <3>3
    <2>3. rest # <<>> /\ rest[1] = plan[n]
      <3> HIDE DEF rest
      <3>1. Len(rest) >= 1 /\ 1 \in DOMAIN rest
        BY <2>1, <2>2
      <3>2. 1 + n - 1 = n
        BY <2>1
      <3>3. rest # <<>>
        BY <3>1
      <3> QED BY <2>2, <3>1, <3>2, <3>3
    <2>4. 1 .. n - 1 \in SUBSET DOMAIN plan
      BY <2>1
    <2>5. \A i \in 1 .. n - 1 : h.at[plan[i][1]] = NoGpu
      <3>1. \A i \in 1 .. n - 1 : i \notin Stops(plan, h)
        BY <1>6, <2>1
      <3> QED BY <1>4, <2>4, <3>1
    <2>6. /\ queued' \subseteq queued /\ on' \in [Task -> Place] /\ QueuedTasksAreOff'
          /\ \A i \in DOMAIN plan \ (1 .. n - 1) : plan[i][1] \in queued'
          /\ RunsOnWithout(h)
      <3>1. Launched(launched \cup Pairs(plan, 1 .. n - 1), counts, released)
        BY <1>6 DEF Pairs
      <3> QED BY <2>4, <2>5, <3>1, LaunchingAPart, Zenon
    <2>7. \A i \in DOMAIN rest : rest[i][1] \in queued'
      <3> HIDE DEF rest
      <3>1. \A i \in DOMAIN rest : i + n - 1 \in DOMAIN plan \ (1 .. n - 1)
        BY <2>1, <2>2
      <3> QED BY <2>2, <2>6, <3>1
    <2>8. \A i, j \in DOMAIN rest : rest[i][1] = rest[j][1] => i = j
      <3> HIDE DEF rest
      <3>1. \A i, j \in DOMAIN plan : plan[i][1] = plan[j][1] => i = j
        BY DEF Ready, Sound
      <3>2. DOMAIN rest \subseteq Int /\ n \in Int
        BY <2>1, <2>2
      <3>3. \A i, j \in Int : i + n - 1 = j + n - 1 => i = j
        BY <3>2
      <3>4. ASSUME NEW i \in DOMAIN rest, NEW j \in DOMAIN rest, rest[i][1] = rest[j][1]
            PROVE  i = j
        <4>1. i + n - 1 = j + n - 1
          BY <2>2, <3>1, <3>4
        <4> QED BY <3>2, <3>3, <4>1
      <3> QED BY <3>4
    <2>9. /\ tick'[k].at = where /\ tick'[k].todo = rest /\ DOMAIN tick' = Tick
          /\ \A j \in Tick \ {k} : tick'[j] = tick[j]
      BY <1>1, <1>6, AtFacts DEF Stage
    <2>10. /\ reservation' \in [Task -> Place] /\ refused' \in [Task -> Place]
           /\ helpers' \subseteq Task \X Gpu /\ reservation' = held_.at /\ HelpersHaveHandles'
           /\ \A t \in Task : t # plan[n][1] => reservation'[t] = h.at[t]
      BY <1>6 DEF HeldAs, Named, HelpersHaveHandles
    <2>11. plan[n][1] \in queued'
      BY <2>1, <2>6
    <2> HIDE DEF rest
    <2>12. PolicyTypeOK'
      <3>1. queued' \subseteq Task
        BY <1>0, <2>6 DEF PolicyTypeOK
      <3>2. \A j \in Tick : tick'[j].at \in Stage /\ tick'[j].todo \in Seq(Pair)
        BY <1>0, <1>6, <2>2, <2>9 DEF PolicyTypeOK, Stage
      <3> QED BY <2>6, <2>9, <2>10, <3>1, <3>2 DEF PolicyTypeOK
    <2>13. PlansAreLocked' /\ PlannedTasksStayQueued' /\ PlansAreApart'
      <3>1. \A j \in Tick : j # k => tick'[j].at \notin {"reserve", "release"} /\ tick'[j].todo = <<>>
        BY <1>1, <2>9 DEF Alone
      <3>2. PlansAreLocked'
        BY <1>6, <2>3, <2>9, <3>1 DEF PlansAreLocked
      <3>3. PlannedTasksStayQueued'
        <4>1. \A i \in DOMAIN tick'[k].todo : lock' = k /\ tick'[k].todo[i][1] \in queued'
          BY <1>6, <2>7, <2>9
        <4>2. \A j \in Tick : j # k => DOMAIN tick'[j].todo = {}
          BY <3>1
        <4> QED BY <4>1, <4>2 DEF PlannedTasksStayQueued
      <3>4. PlansAreApart'
        BY <2>8, <2>9, <3>1 DEF PlansAreApart
      <3> QED BY <3>2, <3>3, <3>4
    <2>14. HandlesFitThePlan'
      BY <1>1, <1>6, <2>3, <2>9, <2>10 DEF HandlesFitThePlan, Alone
    <2>15. RunningTasksHoldNothing'
      BY <2>6, <2>10, <2>11 DEF RunningTasksHoldNothing, QueuedTasksAreOff, RunsOnWithout
    <2> QED BY <2>6, <2>10, <2>12, <2>13, <2>14, <2>15 DEF PolicyIInv
  <1>7. CASE \E n \in DOMAIN plan :
             LET t == plan[n][1]
                 g == plan[n][2]
                 reserves == Reserves(t, g, h)
             IN /\ n \in Stops(plan, h) /\ \A i \in Stops(plan, h) : n <= i
                /\ Launched(launched \cup {plan[i] : i \in 1 .. n - 1}, counts, released)
                /\ tick' = [tick EXCEPT ![k] = [At(IF reserves THEN "reserve" ELSE "release")
                                                 EXCEPT !.todo = SubSeq(plan, n, Len(plan))]]
                /\ lock' = k
                /\ HeldAs(IF reserves THEN Started(h, t, g) ELSE Released(h, {t}))
    <2>1. PICK n \in DOMAIN plan :
             /\ n \in Stops(plan, h) /\ \A i \in Stops(plan, h) : n <= i
             /\ Launched(launched \cup {plan[i] : i \in 1 .. n - 1}, counts, released)
             /\ tick' = [tick EXCEPT ![k] =
                  [At(IF Reserves(plan[n][1], plan[n][2], h) THEN "reserve" ELSE "release")
                     EXCEPT !.todo = SubSeq(plan, n, Len(plan))]]
             /\ lock' = k
             /\ HeldAs(IF Reserves(plan[n][1], plan[n][2], h)
                       THEN Started(h, plan[n][1], plan[n][2]) ELSE Released(h, {plan[n][1]}))
      BY <1>7, Zenon
    <2>2. CASE Reserves(plan[n][1], plan[n][2], h)
      <3> DEFINE q == Started(h, plan[n][1], plan[n][2])
      <3>1. /\ Named(q) /\ \A t \in Task : t # plan[n][1] => q.at[t] = h.at[t]
            /\ q.at[plan[n][1]] = plan[n][2]
        BY <1>2, <1>3, StartedIsNamed
      <3>2. HeldAs(q)
        BY <2>1, <2>2, Zenon
      <3> HIDE DEF q
      <3> QED BY <1>6, <2>1, <2>2, <3>1, <3>2, Zenon
    <2>3. CASE ~Reserves(plan[n][1], plan[n][2], h)
      <3> DEFINE q == Released(h, {plan[n][1]})
      <3>0. Named(q) /\ \A t \in Task : q.at[t] = IF t \in {plan[n][1]} THEN NoGpu ELSE h.at[t]
        BY <1>2, ReleasedIsNamed
      <3>1. /\ Named(q) /\ \A t \in Task : t # plan[n][1] => q.at[t] = h.at[t]
            /\ q.at[plan[n][1]] = NoGpu
        <4> HIDE DEF q
        <4> QED BY <3>0, <1>3
      <3>2. HeldAs(q)
        BY <2>1, <2>3, Zenon
      <3> HIDE DEF q
      <3> QED BY <1>6, <2>1, <2>3, <3>1, <3>2, Zenon
    <2> QED BY <2>2, <2>3
  <1> QED
    BY <1>5, <1>7, Zenon DEF Placed

-----------------------------------------------------------------------------
(* The steps of a tick.                                                      *)

\* While nobody holds the lock, no tick is in the middle of a plan.
LEMMA NobodyPlans ==
    ASSUME PolicyIInv, lock = None
    PROVE  \A k \in Tick : tick[k].at \notin {"reserve", "release"} /\ tick[k].todo = <<>>
  BY DEF PolicyIInv, PlansAreLocked

\* Who holds the lock plans alone.
LEMMA HolderPlansAlone ==
    ASSUME PolicyIInv, NEW k \in Tick, tick[k].at \in {"reserve", "release"}
    PROVE  Alone(k) /\ lock = k /\ tick[k].todo # <<>>
  BY DEF PolicyIInv, PlansAreLocked, Alone

\* The reservations in line with the queue are good to go on with.
LEMMA SyncedIsNamed ==
    ASSUME PolicyIInv
    PROVE  Named(Synced) /\ RunsWithout(Synced)
  <1> DEFINE h == [at      |-> reservation,
                   refused |-> [t \in Task |-> IF t \in queued THEN refused[t] ELSE NoGpu],
                   helpers |-> helpers, ending |-> ending]
             T == {t \in Task : ~Kept(t)}
  <1>1. Named(h)
    BY DEF Named, PolicyIInv, PolicyTypeOK, HelpersHaveHandles, Place
  <1>2. h.at = reservation
    OBVIOUS
  <1>3. Synced = Released(h, T)
    BY DEF Synced
  <1> HIDE DEF h, T
  <1>4. Named(Synced) /\ \A t \in Task : Synced.at[t] = IF t \in T THEN NoGpu ELSE reservation[t]
    BY <1>1, <1>2, <1>3, ReleasedIsNamed
  <1> QED
    BY <1>4 DEF RunsWithout, PolicyIInv, RunningTasksHoldNothing

LEMMA PlansSafely ==
    ASSUME PolicyIInv, lock = None, NEW k \in Tick, NEW p, Plans(k, p)
    PROVE  PolicyIInv'
  <1>1. PICK order \in SetToSeqs(queued) :
           \E plan \in IF paused THEN {<<>>} ELSE Match(order, p, Refreshed(p)) :
              Placed(k, {}, plan, Synced, Refreshed(p), StillRecent(p))
    BY DEF Plans
  <1>2. PICK plan \in IF paused THEN {<<>>} ELSE Match(order, p, Refreshed(p)) :
           Placed(k, {}, plan, Synced, Refreshed(p), StillRecent(p))
    BY <1>1
  <1>3. PolicyTypeOK /\ queued \subseteq Task
    BY DEF PolicyIInv, PolicyTypeOK
  <1>4. Sound(plan)
    <2>1. Sound(<<>>)
      BY DEF Sound
    <2> QED BY <1>2, <1>3, <2>1, MatchesAreSound
  <1>5. Alone(k)
    BY NobodyPlans DEF Alone
  <1>6. Ready(k, {}, plan, Synced)
    BY <1>4, <1>5, SyncedIsNamed DEF Ready
  <1> QED
    BY <1>2, <1>6, Placing

\* What is left of a plan after its first pair.
LEMMA RestIsSound ==
    ASSUME PolicyIInv, NEW k \in Tick, tick[k].todo # <<>>
    PROVE  /\ Sound(Tail(tick[k].todo))
           /\ Head(tick[k].todo) \in Pair /\ Head(tick[k].todo) = tick[k].todo[1]
           /\ Head(tick[k].todo)[1] \in queued
           /\ \A i \in DOMAIN Tail(tick[k].todo) : Tail(tick[k].todo)[i][1] # Head(tick[k].todo)[1]
  <1> DEFINE todo == tick[k].todo
             rest == Tail(todo)
  <1>1. todo \in Seq(Pair) /\ todo # <<>>
    BY DEF PolicyIInv, PolicyTypeOK
  <1>2. /\ \A i \in DOMAIN todo : todo[i][1] \in queued
        /\ \A i, j \in DOMAIN todo : todo[i][1] = todo[j][1] => i = j
    BY DEF PolicyIInv, PlannedTasksStayQueued, PlansAreApart
  <1> HIDE DEF todo
  <1>3. /\ Head(todo) \in Pair /\ rest \in Seq(Pair) /\ Len(rest) = Len(todo) - 1
        /\ \A i \in 1 .. Len(rest) : rest[i] = todo[i + 1]
    BY <1>1, HeadTailProperties
  <1>4. Head(todo) = todo[1] /\ Len(todo) \in Nat \ {0} /\ DOMAIN todo = 1 .. Len(todo)
    BY <1>1
  <1> HIDE DEF rest
  <1>5. DOMAIN rest = 1 .. Len(rest)
    BY <1>3
  <1>6. \A i \in DOMAIN rest : i + 1 \in DOMAIN todo /\ i + 1 # 1 /\ rest[i] = todo[i + 1]
    BY <1>3, <1>4, <1>5
  <1>7. 1 \in DOMAIN todo
    BY <1>4
  <1>8. \A i \in DOMAIN rest : rest[i][1] \in queued /\ rest[i][1] # Head(todo)[1]
    BY <1>2, <1>4, <1>6, <1>7
  <1>9. ASSUME NEW i \in DOMAIN rest, NEW j \in DOMAIN rest, rest[i][1] = rest[j][1]
        PROVE  i = j
    <2>1. i + 1 = j + 1
      BY <1>2, <1>6, <1>9
    <2> QED BY <1>3, <1>5, <2>1
  <1>10. Sound(rest)
    BY <1>3, <1>8, <1>9 DEF Sound
  <1> QED
    BY <1>2, <1>3, <1>4, <1>7, <1>8, <1>10 DEF rest, todo

LEMMA StartedSafely ==
    ASSUME PolicyIInv, NEW k \in Tick, NEW ok \in BOOLEAN, ReservationStarted(k, ok)
    PROVE  PolicyIInv'
  <1> DEFINE t == Head(tick[k].todo)[1]
             g == Head(tick[k].todo)[2]
             h == [at      |-> [reservation EXCEPT ![t] = IF ok THEN g ELSE NoGpu],
                   refused |-> [refused EXCEPT ![t] = IF ok THEN NoGpu ELSE g],
                   helpers |-> IF ok THEN helpers ELSE helpers \ {<<t, g>>},
                   ending  |-> ending]
  <1>1. Placed(k, {}, Tail(tick[k].todo), h, ready, recent)
    BY DEF ReservationStarted
  <1>2. Alone(k) /\ tick[k].todo # <<>> /\ tick[k].at = "reserve"
    BY HolderPlansAlone DEF ReservationStarted
  <1>3. Sound(Tail(tick[k].todo)) /\ Head(tick[k].todo) \in Pair /\ t \in queued
    BY <1>2, RestIsSound
  <1>4. t \in Task /\ g \in Gpu
    BY <1>3, PairsHaveParts
  <1>5. /\ reservation \in [Task -> Place] /\ refused \in [Task -> Place]
        /\ helpers \subseteq Task \X Gpu /\ \A x \in helpers : reservation[x[1]] = x[2]
        /\ on[t] = NoGpu /\ \A u \in Task : on[u] # NoGpu => reservation[u] = NoGpu
    BY <1>3 DEF PolicyIInv, PolicyTypeOK, HelpersHaveHandles, QueuedTasksAreOff, RunningTasksHoldNothing
  <1>6. reservation[t] = g
    <2>1. Head(tick[k].todo) = tick[k].todo[1]
      BY <1>2, RestIsSound
    <2> QED BY <1>2, <2>1 DEF PolicyIInv, HandlesFitThePlan
  <1> HIDE DEF t, g
  <1>7. /\ h.at \in [Task -> Place] /\ h.refused \in [Task -> Place] /\ h.helpers \subseteq Task \X Gpu
        /\ \A u \in Task : h.at[u] = IF u = t THEN (IF ok THEN g ELSE NoGpu) ELSE reservation[u]
        /\ h.helpers \subseteq helpers /\ (~ok => <<t, g>> \notin h.helpers)
    BY <1>4, <1>5 DEF Place
  <1> HIDE DEF h
  <1>8. \A x \in h.helpers : h.at[x[1]] = x[2]
    <2> TAKE x \in h.helpers
    <2>1. x \in helpers /\ x[1] \in Task /\ x = <<x[1], x[2]>> /\ reservation[x[1]] = x[2]
      BY <1>5, <1>7
    <2> QED BY <2>1, <1>6, <1>7
  <1>9. Named(h) /\ RunsWithout(h)
    BY <1>5, <1>7, <1>8 DEF Named, RunsWithout
  <1>10. Ready(k, {}, Tail(tick[k].todo), h)
    BY <1>2, <1>3, <1>9 DEF Ready
  <1> QED
    BY <1>1, <1>10, Placing

LEMMA ReleasedSafely ==
    ASSUME PolicyIInv, NEW k \in Tick, ReservationReleased(k)
    PROVE  PolicyIInv'
  <1> DEFINE first == Head(tick[k].todo)
             h == [at |-> reservation, refused |-> refused, helpers |-> helpers, ending |-> ending]
  <1>1. Placed(k, {first}, Tail(tick[k].todo), h, ready, recent)
    BY DEF ReservationReleased
  <1>2. Alone(k) /\ tick[k].todo # <<>>
    BY HolderPlansAlone DEF ReservationReleased
  <1>3. /\ Sound(Tail(tick[k].todo)) /\ first \in Pair /\ first = tick[k].todo[1]
        /\ first[1] \in queued
        /\ \A i \in DOMAIN Tail(tick[k].todo) : Tail(tick[k].todo)[i][1] # first[1]
    BY <1>2, RestIsSound
  <1>4. h.at[first[1]] = NoGpu
    BY <1>3 DEF ReservationReleased, PolicyIInv, HandlesFitThePlan
  <1>5. Named(h) /\ RunsWithout(h)
    BY DEF Named, RunsWithout, PolicyIInv, PolicyTypeOK, RunningTasksHoldNothing, HelpersHaveHandles
  <1> HIDE DEF first, h
  <1>6. Ready(k, {first}, Tail(tick[k].todo), h)
    BY <1>2, <1>3, <1>4, <1>5 DEF Ready
  <1> QED
    BY <1>1, <1>6, Placing

\* A tick without a plan goes from one wait to another.
LEMMA TickMoves ==
    ASSUME PolicyIInv, NEW k \in Tick, tick[k].at \notin {"reserve", "release"}, NEW r,
           r.at \in Stage \ {"reserve", "release"}, r.todo = <<>>,
           tick' = [tick EXCEPT ![k] = r],
           UNCHANGED <<queued, on, reservation, refused, helpers, lock>>
    PROVE  PolicyIInv'
  <1>1. /\ DOMAIN tick' = Tick /\ tick'[k] = r
        /\ \A j \in Tick \ {k} : tick'[j] = tick[j]
    BY DEF PolicyIInv, PolicyTypeOK
  <1>2. PolicyTypeOK'
    <2>1. <<>> \in Seq(Pair)
      OBVIOUS
    <2>2. \A j \in Tick : tick'[j].at \in Stage /\ tick'[j].todo \in Seq(Pair)
      BY <1>1, <2>1 DEF PolicyIInv, PolicyTypeOK
    <2> QED BY <1>1, <2>2 DEF PolicyIInv, PolicyTypeOK
  <1>3. PlansAreLocked'
    BY <1>1 DEF PolicyIInv, PlansAreLocked
  <1>4. DOMAIN tick'[k].todo = {} /\ \A j \in Tick \ {k} : tick'[j].todo = tick[j].todo
    BY <1>1
  <1>5. PlannedTasksStayQueued' /\ PlansAreApart'
    BY <1>4 DEF PolicyIInv, PlannedTasksStayQueued, PlansAreApart
  <1>6. QueuedTasksAreOff' /\ HandlesFitThePlan' /\ RunningTasksHoldNothing'
        /\ HelpersHaveHandles'
    BY <1>1 DEF PolicyIInv, QueuedTasksAreOff, HandlesFitThePlan, RunningTasksHoldNothing, HelpersHaveHandles
  <1> QED
    BY <1>2, <1>3, <1>5, <1>6 DEF PolicyIInv

LEMMA TickSafely ==
    ASSUME PolicyIInv, NEW k \in Tick, TickBegins(k) \/ Resumes(k) \/ QueryFails(k)
    PROVE  PolicyIInv'
  <1>1. CASE TickBegins(k)
    <2>1. /\ [At("schedule") EXCEPT !.schedule = schedule, !.allowed = allowed].at = "schedule"
          /\ [At("schedule") EXCEPT !.schedule = schedule, !.allowed = allowed].todo = <<>>
      BY AtFacts DEF Stage
    <2> QED BY <1>1, <2>1, TickMoves DEF TickBegins, tasks, held, Stage
  <1>2. CASE ScheduleApplied(k)
    <2>1. At("query").at = "query" /\ At("query").todo = <<>>
      BY AtFacts DEF Stage
    <2> QED BY <1>2, <2>1, TickMoves DEF ScheduleApplied, tasks, held, Stage
  <1>3. CASE QueryFails(k)
    <2>1. At("none").at = "none" /\ At("none").todo = <<>>
      BY AtFacts DEF Stage
    <2> QED BY <1>3, <2>1, TickMoves DEF QueryFails, tasks, held, Stage
  <1>4. ASSUME NEW R, IdleGpusRestored(k, R)
        PROVE  PolicyIInv'
    <2>1. At("requery").at = "requery" /\ At("requery").todo = <<>>
      BY AtFacts DEF Stage
    <2> QED BY <1>4, <2>1, TickMoves DEF IdleGpusRestored, Queried, tasks, held, Stage
  <1>5. ASSUME NEW R, PayloadRead(k, R)
        PROVE  PolicyIInv'
    <2>1. CASE LockFree /\ Plans(k, PayloadNow(R))
      BY <2>1, PlansSafely DEF LockFree
    <2>2. CASE /\ tick' = [tick EXCEPT ![k] = [At("lock") EXCEPT !.payload = PayloadNow(R)]]
               /\ UNCHANGED <<tasks, checks, held, lock>>
      <3>1. /\ [At("lock") EXCEPT !.payload = PayloadNow(R)].at = "lock"
            /\ [At("lock") EXCEPT !.payload = PayloadNow(R)].todo = <<>>
        BY AtFacts DEF Stage
      <3> QED BY <1>5, <2>2, <3>1, TickMoves DEF PayloadRead, Queried, tasks, held, Stage
    <2> QED BY <1>5, <2>1, <2>2 DEF PayloadRead
  <1>6. CASE LockGranted(k)
    BY <1>6, PlansSafely DEF LockGranted
  <1> QED
    BY <1>1, <1>2, <1>3, <1>4, <1>5, <1>6, StartedSafely, ReleasedSafely DEF Resumes, Reads, Holds

-----------------------------------------------------------------------------
(* Everything else.                                                          *)

LEMMA PolicyUntouched ==
    ASSUME PolicyIInv, UNCHANGED <<queued, on, reservation, tick, lock>>,
           helpers' \subseteq helpers, refused' \in [Task -> Place]
    PROVE  PolicyIInv'
  <1>1. PolicyTypeOK'
    BY DEF PolicyIInv, PolicyTypeOK
  <1> QED
    BY <1>1 DEF PolicyIInv, PlannedTasksStayQueued, PlansAreLocked, PlansAreApart, QueuedTasksAreOff,
                HandlesFitThePlan, RunningTasksHoldNothing, HelpersHaveHandles

\* Tasks come at any time, but go only while no plan is under way.
LEMMA TasksChangeSafely ==
    ASSUME PolicyIInv, NEW t \in Task,
           TaskQueued(t) \/ TaskLeaves(t) \/ TaskEnds(t) \/ TaskIsKilled(t)
    PROVE  PolicyIInv'
  <1>1. UNCHANGED <<reservation, refused, helpers, tick, lock>>
    BY DEF TaskQueued, TaskLeaves, TaskEnds, TaskIsKilled, Others, flow, held
  <1>2. CASE TaskQueued(t)
    <2>1. on[t] = NoGpu /\ queued' = queued \cup {t} /\ on' = on
      BY <1>2 DEF TaskQueued
    <2> QED
      BY <1>1, <2>1 DEF PolicyIInv, PolicyTypeOK, PlannedTasksStayQueued, PlansAreLocked,
           PlansAreApart, QueuedTasksAreOff, HandlesFitThePlan, RunningTasksHoldNothing, HelpersHaveHandles
  <1>3. CASE TaskLeaves(t)
    <2>1. lock = None /\ queued' = queued \ {t} /\ on' = on
      BY <1>3 DEF TaskLeaves
    <2>2. \A k \in Tick : DOMAIN tick[k].todo = {}
      BY <2>1, NobodyPlans
    <2> QED
      BY <1>1, <2>1, <2>2 DEF PolicyIInv, PolicyTypeOK, PlannedTasksStayQueued, PlansAreLocked,
           PlansAreApart, QueuedTasksAreOff, HandlesFitThePlan, RunningTasksHoldNothing, HelpersHaveHandles
  <1>4. CASE TaskEnds(t) \/ TaskIsKilled(t)
    <2>1. on' = [on EXCEPT ![t] = NoGpu] /\ queued' = queued
      BY <1>4 DEF TaskEnds, TaskIsKilled, Others
    <2>2. on' \in [Task -> Place] /\ \A u \in Task : on'[u] \in {on[u], NoGpu}
      BY <2>1 DEF PolicyIInv, PolicyTypeOK, Place
    <2> QED
      BY <1>1, <2>1, <2>2 DEF PolicyIInv, PolicyTypeOK, PlannedTasksStayQueued, PlansAreLocked,
           PlansAreApart, QueuedTasksAreOff, HandlesFitThePlan, RunningTasksHoldNothing, HelpersHaveHandles
  <1> QED
    BY <1>2, <1>3, <1>4

\* The end of a process leaves its handle as it was.
LEMMA ProcessesEndSafely ==
    ASSUME PolicyIInv, NEW t \in Task, NEW g \in Gpu, HelperDies(t, g) \/ HelperEnds(t, g)
    PROVE  PolicyIInv'
  <1>1. UNCHANGED <<queued, on, reservation, refused, tick, lock>> /\ helpers' \subseteq helpers
        /\ refused \in [Task -> Place]
    BY DEF HelperDies, HelperEnds, flow, tasks, PolicyIInv, PolicyTypeOK
  <1> QED
    BY <1>1, PolicyUntouched

LEMMA PolicyInductive ==
    ASSUME PolicyIInv, [Next]_vars
    PROVE  PolicyIInv'
  <1>1. CASE \E k \in Tick : TickBegins(k) \/ Resumes(k) \/ QueryFails(k)
    BY <1>1, TickSafely
  <1>2. refused \in [Task -> Place]
    BY DEF PolicyIInv, PolicyTypeOK
  <1>3. CASE Requests
    <2>1. /\ UNCHANGED <<queued, on, reservation, tick, lock, helpers>>
          /\ refused' = refused \/ \E t \in Task : refused' = [refused EXCEPT ![t] = NoGpu]
      BY <1>3 DEF Requests, UpdateSettings, CreateAgentGpuLease, ScheduleGpuState, ClearGpuSchedule,
           SetQueuePaused, UpdateSchedulerSettings, UpdateQueuedTask, NoTaskChanges, tasks, held, flow
    <2>2. refused' \in [Task -> Place]
      BY <1>2, <2>1 DEF Place
    <2> QED BY <2>1, <2>2, PolicyUntouched
  <1>4. CASE \E g \in Gpu : \/ LeaseEnds(g) \/ EntryComesDue(g) \/ TimeIdlePasses(g) \/ CooldownEnds(g)
                            \/ UsageEnds(g) \/ \E u \in Usage : UsageGrows(g, u)
    <2>1. UNCHANGED <<queued, on, reservation, refused, tick, lock, helpers>>
      BY <1>4 DEF LeaseEnds, EntryComesDue, TimeIdlePasses, CooldownEnds, UsageEnds, UsageGrows,
           Others, tasks, held, flow
    <2> QED BY <1>2, <2>1, PolicyUntouched
  <1>5. CASE \E t \in Task : \/ TaskQueued(t) \/ TaskLeaves(t) \/ TaskEnds(t) \/ TaskIsKilled(t)
                             \/ \E g \in Gpu : HelperDies(t, g) \/ HelperEnds(t, g)
    BY <1>5, TasksChangeSafely, ProcessesEndSafely
  <1>6. CASE UNCHANGED vars
    <2>1. UNCHANGED <<queued, on, reservation, refused, tick, lock, helpers>>
      BY <1>6 DEF vars, tasks, held, flow
    <2> QED BY <1>2, <2>1, PolicyUntouched
  <1> QED
    BY <1>1, <1>3, <1>4, <1>5, <1>6 DEF Next

LEMMA PolicyInitially == Init => PolicyIInv
  <1> SUFFICES ASSUME Init PROVE PolicyIInv
    OBVIOUS
  <1>1. /\ queued = {} /\ on = [t \in Task |-> NoGpu]
        /\ reservation = [t \in Task |-> NoGpu] /\ refused = [t \in Task |-> NoGpu] /\ helpers = {}
        /\ tick = [k \in Tick |-> At("none")]
    BY DEF Init
  <1>2. \A k \in Tick : tick[k].at = "none" /\ tick[k].todo = <<>>
    BY <1>1, AtFacts DEF Stage
  <1>3. <<>> \in Seq(Pair) /\ DOMAIN <<>> = {}
    OBVIOUS
  <1>4. PolicyTypeOK
    BY <1>1, <1>2, <1>3 DEF PolicyTypeOK, Place, Stage
  <1> QED
    BY <1>1, <1>2, <1>3, <1>4
       DEF PolicyIInv, PlannedTasksStayQueued, PlansAreLocked, PlansAreApart, QueuedTasksAreOff,
           HandlesFitThePlan, RunningTasksHoldNothing, HelpersHaveHandles

-----------------------------------------------------------------------------
(* Launches right after a query.                                             *)

\* What a tick that suspends nowhere before its first launches brings to a GPU has room
\* there: it launches a beginning of its plan, none of it with a reservation.
LEMMA PlansHaveRoom ==
    ASSUME PolicyIInv, MemoryInUse, NEW k, NEW R, Plans(k, PayloadNow(R)),
           NEW g \in Gpu, LaunchedOn(g) # {}
    PROVE  /\ ~paused /\ g \in (allowed \ leased) \ cooldown
           /\ \A t \in LaunchedOn(g) : g \in Wants[t]
           /\ (\E t \in LaunchedOn(g) : Budget[t] = 0) => used[g] = 0 /\ g \notin Occupied
           /\ (\E t \in LaunchedOn(g) : Budget[t] > 0) =>
                 used[g] + SumFunctionOnSet(Budget, LaunchedOn(g)) + Headroom < Memory
  <1> DEFINE p == PayloadNow(R)
             h == Synced
  <1>1. PICK order \in SetToSeqs(queued) :
           \E plan \in IF paused THEN {<<>>} ELSE Match(order, p, Refreshed(p)) :
              Placed(k, {}, plan, h, Refreshed(p), StillRecent(p))
    BY DEF Plans
  <1>2. PICK plan \in IF paused THEN {<<>>} ELSE Match(order, p, Refreshed(p)) :
           Placed(k, {}, plan, h, Refreshed(p), StillRecent(p))
    BY <1>1
  <1>3. PolicyTypeOK /\ queued \subseteq Task /\ QueuedTasksAreOff
    BY DEF PolicyIInv, PolicyTypeOK
  <1>4. Sound(plan) /\ (~paused => \A n \in DOMAIN plan : RoomFor(plan, n, p))
    <2>1. Sound(<<>>)
      BY DEF Sound
    <2>2. CASE paused
      BY <1>2, <2>1, <2>2
    <2>3. CASE ~paused
      <3>1. plan \in Match(order, p, Refreshed(p))
        BY <1>2, <2>3
      <3> HIDE DEF p
      <3> QED BY <1>3, <3>1, MatchesAreSound, MatchesHaveRoom
    <2> QED BY <2>2, <2>3
  <1>5. PICK N \in 0 .. Len(plan) : /\ Launched(Pairs(plan, 1 .. N), Refreshed(p), StillRecent(p))
                                    /\ \A i \in 1 .. N : h.at[plan[i][1]] = NoGpu
    <2> DEFINE counts == Refreshed(p)
               released == StillRecent(p)
               upTo(N) == /\ Launched(Pairs(plan, 1 .. N), counts, released)
                          /\ \A i \in 1 .. N : h.at[plan[i][1]] = NoGpu
    <2>1. Placed(k, {}, plan, h, counts, released)
      BY <1>2
    <2> HIDE DEF p, h, counts, released
    <2>2. Len(plan) \in Nat /\ DOMAIN plan = 1 .. Len(plan)
      BY <1>4 DEF Sound
    <2>3. \A i \in DOMAIN plan : i \notin Stops(plan, h) => h.at[plan[i][1]] = NoGpu
      BY DEF Stops, Releases
    <2>4. CASE Stops(plan, h) = {} /\ Launched({} \cup ToSet(plan), counts, released)
      <3>1. {} \cup ToSet(plan) = Pairs(plan, 1 .. Len(plan))
        BY <2>2 DEF ToSet, Pairs
      <3>2. upTo(Len(plan))
        BY <2>2, <2>3, <2>4, <3>1
      <3>3. Len(plan) \in 0 .. Len(plan)
        BY <2>2
      <3> QED BY <3>2, <3>3 DEF counts, released
    <2>5. ASSUME NEW n \in DOMAIN plan, \A i \in Stops(plan, h) : n <= i,
                 Launched({} \cup {plan[i] : i \in 1 .. n - 1}, counts, released)
          PROVE  \E N \in 0 .. Len(plan) : upTo(N)
      <3>1. n - 1 \in 0 .. Len(plan) /\ \A i \in 1 .. n - 1 : i \in DOMAIN plan /\ ~(n <= i)
        BY <2>2
      <3>2. {} \cup {plan[i] : i \in 1 .. n - 1} = Pairs(plan, 1 .. n - 1)
        BY DEF Pairs
      <3>3. Launched(Pairs(plan, 1 .. n - 1), counts, released)
        BY <2>5, <3>2
      <3>4. \A i \in 1 .. n - 1 : h.at[plan[i][1]] = NoGpu
        BY <2>3, <2>5, <3>1
      <3> QED BY <3>1, <3>3, <3>4
    <2>6. CASE Stops(plan, h) # {}
      <3>1. PICK n \in DOMAIN plan : /\ \A i \in Stops(plan, h) : n <= i
                                     /\ Launched({} \cup {plan[i] : i \in 1 .. n - 1}, counts, released)
        BY <2>1, <2>6 DEF Placed
      <3> QED BY <3>1, <2>5 DEF counts, released
    <2>7. CASE Stops(plan, h) = {}
      <3>1. Launched({} \cup ToSet(plan), counts, released)
        BY <2>1, <2>7 DEF Placed
      <3> QED BY <2>4, <2>7, <3>1
    <2> QED BY <2>6, <2>7
  <1>6. \A i \in 1 .. N : i \in DOMAIN plan /\ plan[i] \in Pair /\ plan[i][1] \in queued
                          /\ plan[i][1] \in Task /\ plan[i] = <<plan[i][1], plan[i][2]>>
    <2>1. Len(plan) \in Nat /\ DOMAIN plan = 1 .. Len(plan)
      BY <1>4 DEF Sound
    <2>2. \A i \in 1 .. N : i \in DOMAIN plan
      BY <2>1
    <2> QED BY <1>3, <1>4, <2>2, PairsHaveParts DEF Sound
  <1>7. \A i \in 1 .. N : Bare(plan[i][1])
    BY <1>5, <1>6, NoHandleIsBare
  <1> DEFINE pairs == Pairs(plan, 1 .. N)
  <1>8. /\ \A t \in Task : t \notin {pair[1] : pair \in pairs} => on'[t] = on[t]
        /\ \A pair \in pairs : on'[pair[1]] = pair[2]
    <2>1. pairs \in SUBSET Pair /\ \A a \in pairs : a[1] \in queued
      BY <1>6 DEF Pairs
    <2>2. \A a, b \in pairs : a[1] = b[1] => a = b
      BY <1>4, <1>6 DEF Pairs, Sound
    <2> HIDE DEF pairs, p
    <2> QED BY <1>3, <1>5, <2>1, <2>2, Launching DEF pairs
  <1>9. LaunchedOn(g) = Brought(plan, N, g)
    <2>1. g # NoGpu
      BY GpuAssumption DEF NoGpu
    <2>2. ASSUME NEW t \in LaunchedOn(g)
          PROVE  t \in Brought(plan, N, g)
      <3>1. t \in Task /\ on[t] = NoGpu /\ on'[t] = g
        BY DEF LaunchedOn
      <3>2. PICK pair \in pairs : t = pair[1]
        BY <1>8, <2>1, <3>1
      <3>3. PICK i \in 1 .. N : pair = plan[i]
        BY <3>2 DEF Pairs
      <3>4. plan[i][2] = g /\ t = plan[i][1]
        BY <1>8, <3>1, <3>2, <3>3
      <3> QED BY <3>4 DEF Brought
    <2>3. ASSUME NEW t \in Brought(plan, N, g)
          PROVE  t \in LaunchedOn(g)
      <3>1. PICK i \in 1 .. N : plan[i][2] = g /\ t = plan[i][1]
        BY DEF Brought
      <3>2. plan[i] \in pairs
        BY DEF Pairs
      <3>3. on'[t] = g /\ t \in queued /\ t \in Task
        BY <1>6, <1>8, <3>1, <3>2
      <3> QED BY <1>3, <3>3 DEF LaunchedOn, QueuedTasksAreOff
    <2> QED BY <2>2, <2>3
  <1>10. ~paused
    <2> SUFFICES ASSUME paused PROVE FALSE
      OBVIOUS
    <2>1. plan = <<>>
      BY <1>2
    <2>2. N = 0
      BY <2>1
    <2> QED BY <1>9, <2>2 DEF Brought
  <1> HIDE DEF p, h, pairs
  <1>11. \A n \in DOMAIN plan : RoomFor(plan, n, PayloadNow(R))
    BY <1>4, <1>10 DEF p
  <1>12. Brought(plan, N, g) # {}
    BY <1>9
  <1> QED
    BY <1>3, <1>4, <1>7, <1>9, <1>10, <1>11, <1>12, TogetherTheyHaveRoom

\* Only a tick that has read its payload launches while the lock is free.
LEMMA OnlyPlansLaunch ==
    ASSUME PolicyIInv, Next, LockFree, queued' # queued, NEW g \in Gpu, LaunchedOn(g) # {}
    PROVE  \E k \in Tick : \E R : Plans(k, PayloadNow(R))
  <1>1. PICK t \in Task : on[t] = NoGpu /\ on'[t] = g
    BY DEF LaunchedOn
  <1>2. on' # on
    BY <1>1, GpuAssumption DEF NoGpu
  <1>3. ASSUME NEW k \in Tick, TickBegins(k) \/ Resumes(k) \/ QueryFails(k)
        PROVE  \E R : Plans(k, PayloadNow(R))
    <2>1. ~TickBegins(k) /\ ~ScheduleApplied(k) /\ ~QueryFails(k)
      BY <1>2 DEF TickBegins, ScheduleApplied, QueryFails, tasks
    <2>2. ~LockGranted(k)
      BY DEF LockGranted, LockFree
    <2>3. \A ok \in BOOLEAN : ~ReservationStarted(k, ok)
      BY NobodyPlans DEF ReservationStarted, LockFree
    <2>4. ~ReservationReleased(k)
      BY NobodyPlans DEF ReservationReleased, LockFree
    <2>5. PICK R \in Allocated : IdleGpusRestored(k, R) \/ PayloadRead(k, R)
      BY <1>3, <2>1, <2>2, <2>3, <2>4 DEF Resumes, Reads, Holds
    <2>6. ~IdleGpusRestored(k, R)
      BY <1>2 DEF IdleGpusRestored, tasks
    <2>7. Plans(k, PayloadNow(R))
      BY <1>2, <2>5, <2>6 DEF PayloadRead, tasks
    <2> QED BY <2>7
  <1>4. ~Requests
    BY <1>2 DEF Requests, UpdateSettings, CreateAgentGpuLease, ScheduleGpuState, ClearGpuSchedule,
                SetQueuePaused, UpdateSchedulerSettings, UpdateQueuedTask, NoTaskChanges, tasks
  <1>5. ~\E h \in Gpu : \/ LeaseEnds(h) \/ EntryComesDue(h) \/ TimeIdlePasses(h) \/ CooldownEnds(h)
                        \/ UsageEnds(h) \/ \E u \in Usage : UsageGrows(h, u)
    BY <1>2 DEF LeaseEnds, EntryComesDue, TimeIdlePasses, CooldownEnds, UsageEnds, UsageGrows, tasks
  <1>6. ~\E u \in Task : \/ TaskQueued(u) \/ TaskLeaves(u) \/ TaskEnds(u) \/ TaskIsKilled(u)
                         \/ \E h \in Gpu : HelperDies(u, h) \/ HelperEnds(u, h)
    <2>1. ASSUME NEW u \in Task, TaskEnds(u) \/ TaskIsKilled(u)
          PROVE  queued' = queued
      BY <2>1 DEF TaskEnds, TaskIsKilled, Others
    <2> QED BY <1>2, <2>1 DEF TaskQueued, TaskLeaves, HelperDies, HelperEnds, tasks
  <1> QED
    BY <1>3, <1>4, <1>5, <1>6 DEF Next

\* What others use of a GPU is never more than it has.
LEMMA MemoryInUseKeeps == MemoryInUse /\ [Next]_vars => MemoryInUse'
  <1> SUFFICES ASSUME MemoryInUse, [Next]_vars PROVE MemoryInUse'
    OBVIOUS
  <1>1. CASE used' = used
    BY <1>1 DEF MemoryInUse
  <1>2. ASSUME NEW g \in Gpu, NEW u \in Usage, UsageGrows(g, u)
        PROVE  MemoryInUse'
    BY <1>2, MemoryAssumption DEF MemoryInUse, UsageGrows
  <1>3. ASSUME NEW g \in Gpu, UsageEnds(g)
        PROVE  MemoryInUse'
    BY <1>3, MemoryAssumption DEF MemoryInUse, UsageEnds
  <1>4. CASE \E k \in Tick : TickBegins(k) \/ Resumes(k) \/ QueryFails(k)
    BY <1>1, <1>4 DEF TickBegins, Resumes, Reads, Holds, ScheduleApplied, IdleGpusRestored,
                      PayloadRead, LockGranted, ReservationStarted, ReservationReleased, QueryFails
  <1>5. CASE Requests
    BY <1>1, <1>5 DEF Requests, UpdateSettings, CreateAgentGpuLease, ScheduleGpuState,
         ClearGpuSchedule, SetQueuePaused, UpdateSchedulerSettings, UpdateQueuedTask, NoTaskChanges
  <1>6. ASSUME NEW g \in Gpu, LeaseEnds(g) \/ EntryComesDue(g) \/ TimeIdlePasses(g) \/ CooldownEnds(g)
        PROVE  MemoryInUse'
    BY <1>1, <1>6 DEF LeaseEnds, EntryComesDue, TimeIdlePasses, CooldownEnds
  <1>7. ASSUME NEW t \in Task, \/ TaskQueued(t) \/ TaskLeaves(t) \/ TaskEnds(t) \/ TaskIsKilled(t)
                               \/ \E g \in Gpu : HelperDies(t, g) \/ HelperEnds(t, g)
        PROVE  MemoryInUse'
    BY <1>1, <1>7 DEF TaskQueued, TaskLeaves, TaskEnds, TaskIsKilled, HelperDies, HelperEnds
  <1>8. CASE UNCHANGED vars
    BY <1>1, <1>8 DEF vars
  <1> QED
    BY <1>2, <1>3, <1>4, <1>5, <1>6, <1>7, <1>8 DEF Next

-----------------------------------------------------------------------------
(* Theorems.                                                                 *)

\* At most one tick is in the middle of a plan, the one that holds _lock, and what is
\* left of its plan can still be launched (scheduler.py, _tick).
THEOREM PolicyInvariance == Spec => []PolicyIInv
  <1>1. Init => PolicyIInv
    BY PolicyInitially
  <1>2. PolicyIInv /\ [Next]_vars => PolicyIInv'
    BY PolicyInductive
  <1> QED
    BY <1>1, <1>2, PTL DEF Spec

\* Nobody moves, deletes or launches a task that a suspended tick is about to launch.
THEOREM PlansStayValid == Spec => []PlannedTasksStayQueued
  <1>1. PolicyIInv => PlannedTasksStayQueued
    BY DEF PolicyIInv
  <1> QED
    BY <1>1, PolicyInvariance, PTL

\* No process that holds memory is left behind: one that was not told to end belongs to
\* the handle of its task, which does not run (_sync_memory_reservations,
\* _start_memory_reservation, _release_memory_reservation).
THEOREM NoHelperLeftBehind == Spec => []NoHelperIsForgotten
  <1>1. PolicyIInv => NoHelperIsForgotten
    <2> SUFFICES ASSUME PolicyIInv, NEW x \in helpers
                 PROVE  reservation[x[1]] = x[2] /\ on[x[1]] = NoGpu
      BY DEF NoHelperIsForgotten
    <2>1. x[1] \in Task /\ x[2] \in Gpu /\ reservation[x[1]] = x[2]
      BY DEF PolicyIInv, PolicyTypeOK, HelpersHaveHandles
    <2> QED BY <2>1, GpuAssumption DEF PolicyIInv, RunningTasksHoldNothing, NoGpu
  <1> QED
    BY <1>1, PolicyInvariance, PTL

\* What a tick launches right after its query goes to open GPUs, alone or with memory for
\* all of it together (_match_tasks_to_gpus, _task_has_planned_gpu_capacity).
THEOREM LaunchesHaveRoom == Spec => FreshLaunchesHaveRoom
  <1>1. PolicyIInv /\ MemoryInUse /\ [Next]_vars => [FreshLaunches]_vars
    <2> SUFFICES ASSUME PolicyIInv, MemoryInUse, Next, LockFree, queued' # queued,
                        NEW g \in Gpu, LaunchedOn(g) # {}
                 PROVE  /\ ~paused /\ g \in (allowed \ leased) \ cooldown
                        /\ \A t \in LaunchedOn(g) : g \in Wants[t]
                        /\ (\E t \in LaunchedOn(g) : Budget[t] = 0) => used[g] = 0 /\ g \notin Occupied
                        /\ (\E t \in LaunchedOn(g) : Budget[t] > 0) =>
                              used[g] + SumFunctionOnSet(Budget, LaunchedOn(g)) + Headroom < Memory
      BY DEF FreshLaunches
    <2>1. PICK k \in Tick : \E R : Plans(k, PayloadNow(R))
      BY OnlyPlansLaunch
    <2> QED BY <2>1, PlansHaveRoom
  <1>2. Init => MemoryInUse
    BY MemoryAssumption DEF Init, MemoryInUse
  <1> QED
    BY <1>1, <1>2, MemoryInUseKeeps, PolicyInvariance, PTL DEF Spec, FreshLaunchesHaveRoom
==============================================================================
