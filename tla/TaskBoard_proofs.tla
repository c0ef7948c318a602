--------------------------- MODULE TaskBoard_proofs ---------------------------
(* Proofs about TaskBoard for any tasks, any lists at first and any bounds.  *)
EXTENDS TaskBoard, SequenceTheorems, TLAPS

-----------------------------------------------------------------------------
(* Lists: sequences in which no task is twice.                               *)

IsList(s) == s \in Seq(Task) /\ IsInjective(s)

\* What InsertAt and RemoveAt of the community modules return.
LEMMA InsertAtProperties ==
    ASSUME NEW S, NEW s \in Seq(S), NEW e \in S, NEW j \in 1 .. Len(s) + 1
    PROVE  /\ InsertAt(s, j, e) \in Seq(S)
           /\ Len(InsertAt(s, j, e)) = Len(s) + 1
           /\ \A k \in 1 .. Len(s) + 1 :
                 InsertAt(s, j, e)[k] = IF k < j THEN s[k] ELSE IF k = j THEN e ELSE s[k - 1]
  <1> DEFINE front == SubSeq(s, 1, j - 1)
             back == SubSeq(s, j, Len(s))
             one == <<e>>
             mid == front \o one
  <1>1. /\ Len(s) \in Nat
        /\ front \in Seq(S) /\ Len(front) = j - 1 /\ \A k \in 1 .. j - 1 : front[k] = s[k]
        /\ back \in Seq(S) /\ Len(back) = Len(s) + 1 - j
        /\ \A k \in 1 .. Len(s) + 1 - j : back[k] = s[j + k - 1]
    BY SubSeqProperties, LenProperties
  <1>2. one \in Seq(S) /\ Len(one) = 1 /\ one[1] = e
    OBVIOUS
  <1> HIDE DEF front, back, one
  <1>3. mid \in Seq(S) /\ Len(mid) = j /\ mid[j] = e /\ \A k \in 1 .. j - 1 : mid[k] = s[k]
    <2>1. /\ mid \in Seq(S) /\ Len(mid) = Len(front) + Len(one)
          /\ \A k \in 1 .. Len(front) + Len(one) :
                mid[k] = IF k <= Len(front) THEN front[k] ELSE one[k - Len(front)]
      BY <1>1, <1>2, ConcatProperties
    <2> HIDE DEF mid
    <2> QED BY <1>1, <1>2, <2>1
  <1> HIDE DEF mid
  <1> DEFINE all == mid \o back
  <1>4. /\ all \in Seq(S) /\ Len(all) = Len(s) + 1
        /\ \A k \in 1 .. Len(s) + 1 : all[k] = IF k <= j THEN mid[k] ELSE back[k - j]
    <2>1. /\ all \in Seq(S) /\ Len(all) = Len(mid) + Len(back)
          /\ \A k \in 1 .. Len(mid) + Len(back) :
                all[k] = IF k <= Len(mid) THEN mid[k] ELSE back[k - Len(mid)]
      BY <1>1, <1>3, ConcatProperties
    <2> HIDE DEF all
    <2> QED BY <1>1, <1>3, <2>1
  <1> HIDE DEF all
  <1>5. \A k \in 1 .. Len(s) + 1 :
           all[k] = IF k < j THEN s[k] ELSE IF k = j THEN e ELSE s[k - 1]
    <2> TAKE k \in 1 .. Len(s) + 1
    <2>1. CASE k < j
      <3>1. k \in 1 .. j - 1 /\ k <= j
        BY <1>1, <2>1
      <3> QED BY <1>3, <1>4, <2>1, <3>1
    <2>2. CASE k = j
      BY <1>3, <1>4, <2>2
    <2>3. CASE k > j
      <3>1. k - j \in 1 .. Len(s) + 1 - j /\ ~(k <= j) /\ j + (k - j) - 1 = k - 1
        BY <1>1, <2>3
      <3>2. all[k] = back[k - j] /\ back[k - j] = s[j + (k - j) - 1]
        BY <1>1, <1>4, <3>1
      <3> QED BY <2>3, <3>1, <3>2
    <2> QED BY <1>1, <2>1, <2>2, <2>3
  <1> QED
    BY <1>4, <1>5 DEF InsertAt, front, back, mid, one, all

LEMMA RemoveAtProperties ==
    ASSUME NEW S, NEW s \in Seq(S), NEW j \in 1 .. Len(s)
    PROVE  /\ RemoveAt(s, j) \in Seq(S)
           /\ Len(RemoveAt(s, j)) = Len(s) - 1
           /\ \A k \in 1 .. Len(s) - 1 : RemoveAt(s, j)[k] = IF k < j THEN s[k] ELSE s[k + 1]
  <1> DEFINE front == SubSeq(s, 1, j - 1)
             back == SubSeq(s, j + 1, Len(s))
  <1>1. /\ Len(s) \in Nat
        /\ front \in Seq(S) /\ Len(front) = j - 1 /\ \A k \in 1 .. j - 1 : front[k] = s[k]
        /\ back \in Seq(S) /\ Len(back) = Len(s) - j
        /\ \A k \in 1 .. Len(s) - j : back[k] = s[j + k]
    BY SubSeqProperties, LenProperties
  <1> HIDE DEF front, back
  <1> DEFINE rest == front \o back
  <1>2. /\ rest \in Seq(S) /\ Len(rest) = Len(s) - 1
        /\ \A k \in 1 .. Len(s) - 1 :
              rest[k] = IF k <= j - 1 THEN front[k] ELSE back[k - (j - 1)]
    <2>1. /\ rest \in Seq(S) /\ Len(rest) = Len(front) + Len(back)
          /\ \A k \in 1 .. Len(front) + Len(back) :
                rest[k] = IF k <= Len(front) THEN front[k] ELSE back[k - Len(front)]
      BY <1>1, ConcatProperties
    <2> HIDE DEF rest
    <2>2. Len(front) + Len(back) = Len(s) - 1
      BY <1>1
    <2> QED BY <1>1, <2>1, <2>2
  <1> HIDE DEF rest
  <1>3. \A k \in 1 .. Len(s) - 1 : rest[k] = IF k < j THEN s[k] ELSE s[k + 1]
    <2> TAKE k \in 1 .. Len(s) - 1
    <2>1. CASE k < j
      BY <1>1, <1>2, <2>1
    <2>2. CASE k >= j
      <3>1. k - (j - 1) \in 1 .. Len(s) - j /\ ~(k <= j - 1) /\ j + (k - (j - 1)) = k + 1
        BY <1>1, <2>2
      <3>2. rest[k] = back[k - (j - 1)] /\ back[k - (j - 1)] = s[j + (k - (j - 1))]
        BY <1>1, <1>2, <3>1
      <3> QED BY <2>2, <3>1, <3>2
    <2> QED BY <1>1, <2>1, <2>2
  <1> QED
    BY <1>2, <1>3 DEF RemoveAt, front, back, rest

\* Taking a task out of a list leaves the others in their order.
LEMMA WithoutProperties ==
    ASSUME NEW s, IsList(s), NEW t
    PROVE  /\ IsList(Without(s, t))
           /\ ToSet(Without(s, t)) = ToSet(s) \ {t}
           /\ t \notin ToSet(s) => Without(s, t) = s
           /\ \A i \in 1 .. Len(s) : s[i] = t => Without(s, t) = RemoveAt(s, i)
  <1>1. s \in Seq(Task) /\ DOMAIN s = 1 .. Len(s) /\ Len(s) \in Nat
    BY LenProperties DEF IsList
  <1>2. \A i, j \in 1 .. Len(s) : s[i] = s[j] => i = j
    BY <1>1 DEF IsList, IsInjective
  <1>3. CASE t \notin ToSet(s)
    <2>1. Without(s, t) = s
      BY <1>1, <1>3 DEF Without, RemoveFirst, ToSet
    <2> QED BY <1>1, <1>3, <2>1 DEF ToSet
  <1>4. ASSUME NEW i \in 1 .. Len(s), s[i] = t
        PROVE  Without(s, t) = RemoveAt(s, i)
    <2>1. {j \in 1 .. Len(s) : s[j] = t} = {i}
      BY <1>2, <1>4
    <2>2. Min({i}) = i
      BY DEF Min
    <2> QED BY <1>4, <2>1, <2>2 DEF Without, RemoveFirst, SelectInSeq
  <1>5. CASE t \in ToSet(s)
    <2>1. PICK i \in 1 .. Len(s) : s[i] = t
      BY <1>1, <1>5 DEF ToSet
    <2> DEFINE r == RemoveAt(s, i)
    <2>2. /\ r \in Seq(Task) /\ Len(r) = Len(s) - 1
          /\ \A k \in 1 .. Len(s) - 1 : r[k] = IF k < i THEN s[k] ELSE s[k + 1]
      BY <1>1, RemoveAtProperties
    <2>3. DOMAIN r = 1 .. Len(s) - 1
      BY <2>2, LenProperties
    <2> HIDE DEF r
    <2>4. \A k, m \in 1 .. Len(s) - 1 : r[k] = r[m] => k = m
      <3> DEFINE at(k) == IF k < i THEN k ELSE k + 1
      <3>1. \A k \in 1 .. Len(s) - 1 : at(k) \in 1 .. Len(s) /\ r[k] = s[at(k)]
        BY <1>1, <2>2
      <3>2. \A k, m \in 1 .. Len(s) - 1 : at(k) = at(m) => k = m
        BY <1>1
      <3> HIDE DEF at
      <3> QED BY <1>2, <3>1, <3>2, Zenon
    <2>5. \A k \in 1 .. Len(s) - 1 : \E m \in 1 .. Len(s) : r[k] = s[m] /\ s[m] # t
      BY <1>1, <1>2, <2>1, <2>2
    <2>6. \A m \in 1 .. Len(s) : s[m] # t => \E k \in 1 .. Len(s) - 1 : r[k] = s[m]
      <3> SUFFICES ASSUME NEW m \in 1 .. Len(s), s[m] # t
                   PROVE  \E k \in 1 .. Len(s) - 1 : r[k] = s[m]
        OBVIOUS
      <3>1. CASE m < i
        BY <1>1, <2>2, <3>1
      <3>2. CASE m > i
        <4>1. m - 1 \in 1 .. Len(s) - 1 /\ ~(m - 1 < i) /\ (m - 1) + 1 = m
          BY <1>1, <3>2
        <4>2. r[m - 1] = s[m]
          BY <2>2, <4>1
        <4> QED BY <4>1, <4>2
      <3>3. m # i
        BY <2>1
      <3> QED BY <1>1, <3>1, <3>2, <3>3
    <2>7. ToSet(r) = ToSet(s) \ {t}
      <3>1. ToSet(r) = {r[k] : k \in 1 .. Len(s) - 1} /\ ToSet(s) = {s[m] : m \in 1 .. Len(s)}
        BY <1>1, <2>3 DEF ToSet
      <3>2. \A x : x \in ToSet(r) <=> \E k \in 1 .. Len(s) - 1 : r[k] = x
        BY <3>1, Zenon
      <3>3. \A x : x \in ToSet(s) <=> \E m \in 1 .. Len(s) : s[m] = x
        BY <3>1, Zenon
      <3>4. \A x : x \in ToSet(r) <=> x \in ToSet(s) /\ x # t
        BY <2>5, <2>6, <3>2, <3>3, Zenon
      <3> QED BY <3>4
    <2>8. IsList(r)
      BY <2>2, <2>3, <2>4 DEF IsList, IsInjective
    <2>9. Without(s, t) = r
      BY <1>4, <2>1 DEF r
    <2> QED BY <1>4, <1>5, <2>7, <2>8, <2>9
  <1> QED
    BY <1>3, <1>5

\* A task that is not in a list may be put at either end of it, or anywhere between.
LEMMA AppendIsAList ==
    ASSUME NEW s, IsList(s), NEW t \in Task, t \notin ToSet(s)
    PROVE  IsList(Append(s, t))
  <1> DEFINE r == Append(s, t)
  <1>1. s \in Seq(Task) /\ DOMAIN s = 1 .. Len(s) /\ Len(s) \in Nat
    BY LenProperties DEF IsList
  <1>2. /\ r \in Seq(Task) /\ Len(r) = Len(s) + 1
        /\ \A i \in 1 .. Len(s) : r[i] = s[i]
        /\ r[Len(s) + 1] = t
    BY <1>1, AppendProperties
  <1> HIDE DEF r
  <1>3. DOMAIN r = 1 .. Len(s) + 1
    BY <1>2, LenProperties
  <1>4. \A i \in 1 .. Len(s) : s[i] # t
    BY <1>1 DEF ToSet
  <1>5. \A i, j \in 1 .. Len(s) : s[i] = s[j] => i = j
    BY <1>1 DEF IsList, IsInjective
  <1>6. \A i \in 1 .. Len(s) + 1 : i \in 1 .. Len(s) \/ i = Len(s) + 1
    BY <1>1
  <1>7. \A i, j \in 1 .. Len(s) + 1 : r[i] = r[j] => i = j
    BY <1>2, <1>4, <1>5, <1>6, Zenon
  <1>8. IsList(r)
    BY <1>2, <1>3, <1>7 DEF IsList, IsInjective
  <1> QED
    BY <1>8 DEF r

LEMMA InsertedIsAList ==
    ASSUME NEW s, IsList(s), NEW t \in Task, t \notin ToSet(s), NEW j \in 1 .. Len(s) + 1
    PROVE  IsList(InsertAt(s, j, t))
  <1> DEFINE r == InsertAt(s, j, t)
  <1>1. s \in Seq(Task) /\ DOMAIN s = 1 .. Len(s) /\ Len(s) \in Nat
    BY LenProperties DEF IsList
  <1>2. /\ r \in Seq(Task) /\ Len(r) = Len(s) + 1
        /\ \A k \in 1 .. Len(s) + 1 :
              r[k] = IF k < j THEN s[k] ELSE IF k = j THEN t ELSE s[k - 1]
    BY <1>1, InsertAtProperties
  <1> HIDE DEF r
  <1>3. DOMAIN r = 1 .. Len(s) + 1
    BY <1>2, LenProperties
  <1>4. \A i \in 1 .. Len(s) : s[i] # t
    BY <1>1 DEF ToSet
  <1>5. \A i, k \in 1 .. Len(s) : s[i] = s[k] => i = k
    BY <1>1 DEF IsList, IsInjective
  <1> DEFINE at(k) == IF k < j THEN k ELSE k - 1
  <1>6. \A k \in 1 .. Len(s) + 1 : k # j => at(k) \in 1 .. Len(s) /\ r[k] = s[at(k)]
    BY <1>1, <1>2
  <1>7. \A k, m \in 1 .. Len(s) + 1 : k # j /\ m # j /\ at(k) = at(m) => k = m
    BY <1>1
  <1>8. r[j] = t
    BY <1>1, <1>2
  <1> HIDE DEF at
  <1>9. \A k, m \in 1 .. Len(s) + 1 : r[k] = r[m] => k = m
    BY <1>4, <1>5, <1>6, <1>7, <1>8, Zenon
  <1>10. IsList(r)
    BY <1>2, <1>3, <1>9 DEF IsList, IsInjective
  <1> QED
    BY <1>10 DEF r

LEMMA ConsIsAList ==
    ASSUME NEW s, IsList(s), NEW t \in Task, t \notin ToSet(s)
    PROVE  IsList(<<t>> \o s)
  <1>1. s \in Seq(Task) /\ Len(s) \in Nat
    BY LenProperties DEF IsList
  <1>2. InsertAt(s, 1, t) = <<t>> \o s
    <2>1. SubSeq(s, 1, 1 - 1) = <<>>
      BY SubSeqEmpty
    <2>2. SubSeq(s, 1, Len(s)) = s
      BY <1>1, SubSeqFull
    <2>3. <<t>> \in Seq(Task)
      OBVIOUS
    <2>4. <<>> \o <<t>> = <<t>>
      BY <2>3, ConcatEmptySeq
    <2> QED BY <2>1, <2>2, <2>4 DEF InsertAt
  <1>3. 1 \in 1 .. Len(s) + 1
    BY <1>1
  <1> QED
    BY <1>2, <1>3, InsertedIsAList

\* The head of a list that has one is in it.
LEMMA HeadIsListed ==
    ASSUME NEW s, IsList(s), s # <<>>
    PROVE  Head(s) \in ToSet(s)
  <1>1. s \in Seq(Task) /\ DOMAIN s = 1 .. Len(s) /\ Len(s) \in Nat /\ Len(s) # 0
    BY LenProperties, EmptySeq DEF IsList
  <1>2. 1 \in DOMAIN s /\ Head(s) = s[1]
    BY <1>1
  <1> QED
    BY <1>2 DEF ToSet

LEMMA ListedIsATask ==
    ASSUME NEW s, IsList(s)
    PROVE  ToSet(s) \subseteq Task
  <1>1. s \in Seq(Task) /\ DOMAIN s = 1 .. Len(s)
    BY LenProperties DEF IsList
  <1> QED
    BY <1>1, ElementOfSeq DEF ToSet

LEMMA SingleIsSet == \A x : ToSet(<<x>>) = {x}
  BY DEF ToSet

LEMMA NoneIsSet == ToSet(<<>>) = {}
  BY EmptySeq, LenProperties DEF ToSet

\* What a list has when a task is put at its end, and what two lists have together.
LEMMA AppendedTask ==
    ASSUME NEW s \in Seq(Task), NEW t \in Task
    PROVE  ToSet(Append(s, t)) = ToSet(s) \cup {t}
  <1> DEFINE r == Append(s, t)
  <1>1. DOMAIN s = 1 .. Len(s) /\ Len(s) \in Nat
    BY LenProperties
  <1>2. /\ r \in Seq(Task) /\ Len(r) = Len(s) + 1 /\ r[Len(s) + 1] = t
        /\ \A i \in 1 .. Len(s) : r[i] = s[i]
    BY <1>1, AppendProperties
  <1> HIDE DEF r
  <1>3. DOMAIN r = 1 .. Len(s) + 1
    BY <1>2, LenProperties
  <1>4. \A i \in 1 .. Len(s) + 1 : i \in 1 .. Len(s) \/ i = Len(s) + 1
    BY <1>1
  <1>5. 1 .. Len(s) \subseteq 1 .. Len(s) + 1 /\ Len(s) + 1 \in 1 .. Len(s) + 1
    BY <1>1
  <1>6. ToSet(r) = {r[i] : i \in 1 .. Len(s) + 1} /\ ToSet(s) = {s[i] : i \in 1 .. Len(s)}
    BY <1>1, <1>3 DEF ToSet
  <1>7. ToSet(r) = ToSet(s) \cup {t}
    BY <1>2, <1>4, <1>5, <1>6
  <1> QED
    BY <1>7 DEF r

LEMMA ConcatenatedTasks ==
    ASSUME NEW s \in Seq(Task), NEW r \in Seq(Task)
    PROVE  ToSet(s \o r) = ToSet(s) \cup ToSet(r)
  <1> DEFINE m == s \o r
  <1>1. /\ DOMAIN s = 1 .. Len(s) /\ Len(s) \in Nat
        /\ DOMAIN r = 1 .. Len(r) /\ Len(r) \in Nat
    BY LenProperties
  <1>2. /\ m \in Seq(Task) /\ Len(m) = Len(s) + Len(r)
        /\ \A i \in 1 .. Len(s) + Len(r) : m[i] = IF i <= Len(s) THEN s[i] ELSE r[i - Len(s)]
    BY ConcatProperties
  <1> HIDE DEF m
  <1>3. DOMAIN m = 1 .. Len(s) + Len(r)
    BY <1>2, LenProperties
  <1>4. \A i \in DOMAIN s : i \in DOMAIN m /\ m[i] = s[i]
    BY <1>1, <1>2, <1>3
  <1>5. \A i \in DOMAIN r : i + Len(s) \in DOMAIN m /\ m[i + Len(s)] = r[i]
    BY <1>1, <1>2, <1>3
  <1>6. \A i \in DOMAIN m : \/ i \in DOMAIN s /\ m[i] = s[i]
                            \/ i - Len(s) \in DOMAIN r /\ m[i] = r[i - Len(s)]
    BY <1>1, <1>2, <1>3
  <1>7. ToSet(m) = ToSet(s) \cup ToSet(r)
    BY <1>4, <1>5, <1>6 DEF ToSet
  <1> QED
    BY <1>7 DEF m

-----------------------------------------------------------------------------
(* The lists of the service and of the page.                                 *)

AreLists(ls) == ls = [l \in List |-> ls[l]] /\ \A l \in List : IsList(ls[l])

LEMMA NothingListedFits == AreLists(NothingListed)
  <1>1. IsList(<<>>)
    <2>1. DOMAIN (<<>>) = 1 .. 0
      BY EmptySeq, LenProperties
    <2> QED BY <2>1 DEF IsList, IsInjective
  <1> QED
    BY <1>1 DEF NothingListed, AreLists

LEMMA ChangedListFits ==
    ASSUME NEW ls, AreLists(ls), NEW l \in List, NEW s, IsList(s)
    PROVE  AreLists([ls EXCEPT ![l] = s])
  BY DEF AreLists

LEMMA UnlistedFits ==
    ASSUME NEW ls, AreLists(ls), NEW t
    PROVE  /\ AreLists(Unlisted(ls, t))
           /\ \A l \in List : t \notin ToSet(Unlisted(ls, t)[l])
  <1>1. \A l \in List : IsList(Without(ls[l], t)) /\ t \notin ToSet(Without(ls[l], t))
    BY WithoutProperties DEF AreLists
  <1> QED
    BY <1>1 DEF Unlisted, AreLists

\* A task that goes to an end of a list has left the one it was in.
LEMMA MovedTaskFits ==
    ASSUME NEW ls, AreLists(ls), NEW t \in Task, NEW l \in List
    PROVE  AreLists(ToTail(ls, t, l)) /\ AreLists(ToHead(ls, t, l))
  <1> DEFINE rest == Unlisted(ls, t)
  <1>1. AreLists(rest) /\ IsList(rest[l]) /\ t \notin ToSet(rest[l])
    BY UnlistedFits DEF AreLists
  <1>2. ToTail(ls, t, l) = [rest EXCEPT ![l] = Append(rest[l], t)]
    BY DEF ToTail
  <1>3. ToHead(ls, t, l) = [rest EXCEPT ![l] = <<t>> \o rest[l]]
    BY DEF ToHead
  <1> HIDE DEF rest
  <1>4. IsList(Append(rest[l], t)) /\ IsList(<<t>> \o rest[l])
    BY <1>1, AppendIsAList, ConsIsAList
  <1>5. AreLists([rest EXCEPT ![l] = Append(rest[l], t)])
    BY <1>1, <1>4, ChangedListFits
  <1>6. AreLists([rest EXCEPT ![l] = <<t>> \o rest[l]])
    BY <1>1, <1>4, ChangedListFits
  <1> QED
    BY <1>2, <1>3, <1>5, <1>6

\* Where a task that moves is afterwards, and the others are where they were.
LEMMA MovedTaskIsThere ==
    ASSUME NEW ls, AreLists(ls), NEW t \in Task, NEW l \in List, NEW k \in List
    PROVE  /\ ToSet(Unlisted(ls, t)[k]) = ToSet(ls[k]) \ {t}
           /\ ToSet(ToTail(ls, t, l)[k]) = (ToSet(ls[k]) \ {t}) \cup (IF k = l THEN {t} ELSE {})
           /\ ToSet(ToHead(ls, t, l)[k]) = (ToSet(ls[k]) \ {t}) \cup (IF k = l THEN {t} ELSE {})
  <1> DEFINE rest == Unlisted(ls, t)
  <1>1. /\ AreLists(rest) /\ IsList(rest[k]) /\ ToSet(rest[k]) = ToSet(ls[k]) \ {t}
        /\ rest[k] \in Seq(Task)
    <2>1. AreLists(rest)
      BY UnlistedFits
    <2>2. rest[k] = Without(ls[k], t)
      BY DEF Unlisted
    <2> QED BY <2>1, <2>2, WithoutProperties DEF AreLists, IsList
  <1>2. ToTail(ls, t, l)[k] = IF k = l THEN Append(rest[k], t) ELSE rest[k]
    BY <1>1 DEF ToTail, AreLists
  <1>3. ToHead(ls, t, l)[k] = IF k = l THEN <<t>> \o rest[k] ELSE rest[k]
    BY <1>1 DEF ToHead, AreLists
  <1> HIDE DEF rest
  <1>4. ToSet(Append(rest[k], t)) = ToSet(rest[k]) \cup {t}
    BY <1>1, AppendedTask
  <1>5. ToSet(<<t>> \o rest[k]) = ToSet(rest[k]) \cup {t}
    <2>1. <<t>> \in Seq(Task)
      OBVIOUS
    <2>2. ToSet(<<t>>) = {t}
      BY SingleIsSet
    <2>3. ToSet(<<t>> \o rest[k]) = ToSet(<<t>>) \cup ToSet(rest[k])
      BY <1>1, <2>1, ConcatenatedTasks
    <2> QED BY <2>2, <2>3
  <1>6. ToSet(rest[k]) = ToSet(ls[k]) \ {t}
    BY <1>1
  <1> QED
    <2>1. ToSet(Unlisted(ls, t)[k]) = ToSet(ls[k]) \ {t}
      BY <1>1 DEF rest
    <2>2. CASE k = l
      BY <1>2, <1>3, <1>4, <1>5, <1>6, <2>1, <2>2
    <2>3. CASE k # l
      BY <1>2, <1>3, <1>6, <2>1, <2>3
    <2> QED BY <2>2, <2>3

LEMMA ListedAreTasks ==
    ASSUME NEW ls, AreLists(ls), NEW t
    PROVE  /\ \A l \in List : In(t, ls, l) => t \in Task
           /\ WaitsIn(t, ls) => t \in Task
           /\ Listed(t, ls) => t \in Task
  BY ListedIsATask DEF AreLists, In, WaitsIn, Listed, List, Queue

-----------------------------------------------------------------------------
(* Where a drop puts a task.                                                 *)

\* A task put into a list is where it was put, and taking it out again gives the list back.
LEMMA InsertedIsThere ==
    ASSUME NEW s, IsList(s), NEW t \in Task, t \notin ToSet(s), NEW j \in 1 .. Len(s) + 1
    PROVE  /\ Without(InsertAt(s, j, t), t) = s
           /\ (CHOOSE i \in DOMAIN InsertAt(s, j, t) : InsertAt(s, j, t)[i] = t) = j
           /\ \A k \in 1 .. Len(s) :
                 (CHOOSE i \in DOMAIN InsertAt(s, j, t) : InsertAt(s, j, t)[i] = s[k])
                    = IF k < j THEN k ELSE k + 1
  <1> DEFINE r == InsertAt(s, j, t)
  <1>1. s \in Seq(Task) /\ DOMAIN s = 1 .. Len(s) /\ Len(s) \in Nat
    BY LenProperties DEF IsList
  <1>2. /\ r \in Seq(Task) /\ Len(r) = Len(s) + 1
        /\ \A k \in 1 .. Len(s) + 1 :
              r[k] = IF k < j THEN s[k] ELSE IF k = j THEN t ELSE s[k - 1]
    BY <1>1, InsertAtProperties
  <1>3. IsList(r)
    BY InsertedIsAList
  <1> HIDE DEF r
  <1>4. DOMAIN r = 1 .. Len(s) + 1
    BY <1>2, LenProperties
  <1>5. \A i, k \in DOMAIN r : r[i] = r[k] => i = k
    BY <1>3 DEF IsList, IsInjective
  <1>6. j \in DOMAIN r /\ r[j] = t
    BY <1>1, <1>2, <1>4
  <1>7. \A k \in 1 .. Len(s) : LET m == IF k < j THEN k ELSE k + 1
                               IN m \in DOMAIN r /\ r[m] = s[k]
    <2> TAKE k \in 1 .. Len(s)
    <2>1. CASE k < j
      BY <1>1, <1>2, <1>4, <2>1
    <2>2. CASE ~(k < j)
      <3>1. k + 1 \in 1 .. Len(s) + 1 /\ ~(k + 1 < j) /\ k + 1 # j /\ (k + 1) - 1 = k
        BY <1>1, <2>2
      <3>2. r[k + 1] = s[(k + 1) - 1]
        BY <1>2, <3>1
      <3> QED BY <1>4, <2>2, <3>1, <3>2
    <2> QED BY <2>1, <2>2
  <1>8. \A m \in DOMAIN r : (CHOOSE i \in DOMAIN r : r[i] = r[m]) = m
    BY <1>5
  <1>9. \A k \in 1 .. Len(s) :
           (CHOOSE i \in DOMAIN r : r[i] = s[k]) = IF k < j THEN k ELSE k + 1
    <2> TAKE k \in 1 .. Len(s)
    <2> DEFINE m == IF k < j THEN k ELSE k + 1
    <2>1. m \in DOMAIN r /\ r[m] = s[k]
      BY <1>7
    <2> HIDE DEF m
    <2>2. (CHOOSE i \in DOMAIN r : r[i] = s[k]) = m
      BY <1>8, <2>1
    <2> QED BY <2>2 DEF m
  <1>10. (CHOOSE i \in DOMAIN r : r[i] = t) = j
    BY <1>6, <1>8
  <1>11. Without(r, t) = s
    <2> DEFINE u == RemoveAt(r, j)
    <2>1. Without(r, t) = u
      BY <1>2, <1>3, <1>4, <1>6, WithoutProperties
    <2>2. /\ u \in Seq(Task) /\ Len(u) = Len(r) - 1
          /\ \A k \in 1 .. Len(r) - 1 : u[k] = IF k < j THEN r[k] ELSE r[k + 1]
      BY <1>2, <1>4, <1>6, RemoveAtProperties
    <2> HIDE DEF u
    <2>3. Len(r) - 1 = Len(s)
      BY <1>1, <1>2
    <2>4. \A k \in 1 .. Len(s) : u[k] = s[k]
      <3> TAKE k \in 1 .. Len(s)
      <3>1. u[k] = IF k < j THEN r[k] ELSE r[k + 1]
        BY <2>2, <2>3
      <3> QED BY <1>7, <3>1
    <2>5. u = s
      BY <1>1, <2>2, <2>3, <2>4, SeqEqual
    <2> QED BY <2>1, <2>5
  <1> QED
    BY <1>9, <1>10, <1>11 DEF r

LEMMA AppendedIsInserted ==
    ASSUME NEW s, IsList(s), NEW t \in Task
    PROVE  Append(s, t) = InsertAt(s, Len(s) + 1, t)
  <1>1. s \in Seq(Task) /\ Len(s) \in Nat
    BY LenProperties DEF IsList
  <1>2. /\ SubSeq(s, 1, (Len(s) + 1) - 1) = s
        /\ SubSeq(s, Len(s) + 1, Len(s)) = <<>>
    <2>1. (Len(s) + 1) - 1 = Len(s) /\ Len(s) < Len(s) + 1 /\ Len(s) + 1 \in Int /\ Len(s) \in Int
      BY <1>1
    <2> QED BY <1>1, <2>1, SubSeqFull, SubSeqEmpty
  <1>3. Append(s, t) = s \o <<t>> /\ s \o <<t>> \in Seq(Task)
    <2>1. <<t>> \in Seq(Task)
      OBVIOUS
    <2> QED BY <1>1, <2>1, AppendIsConcat, ConcatProperties
  <1>4. (s \o <<t>>) \o <<>> = s \o <<t>>
    BY <1>3, ConcatEmptySeq
  <1> QED
    BY <1>2, <1>3, <1>4 DEF InsertAt

\* The place of a row in a list, 0 when it is not there.
LEMMA PlaceInAList ==
    ASSUME NEW s, IsList(s), NEW x
    PROVE  LET I == {i \in 1 .. Len(s) : s[i] = x}
               i == IF I # {} THEN Min(I) ELSE 0
           IN IF x \in ToSet(s) THEN i \in 1 .. Len(s) /\ s[i] = x ELSE i = 0
  <1> DEFINE I == {i \in 1 .. Len(s) : s[i] = x}
  <1>1. s \in Seq(Task) /\ DOMAIN s = 1 .. Len(s) /\ Len(s) \in Nat
    BY LenProperties DEF IsList
  <1>2. \A i, j \in 1 .. Len(s) : s[i] = s[j] => i = j
    BY <1>1 DEF IsList, IsInjective
  <1>3. CASE x \in ToSet(s)
    <2>1. PICK i \in 1 .. Len(s) : s[i] = x
      BY <1>1, <1>3 DEF ToSet
    <2>2. I = {i}
      BY <1>2, <2>1
    <2>3. Min({i}) = i
      BY DEF Min
    <2> HIDE DEF I
    <2> QED BY <1>3, <2>1, <2>2, <2>3 DEF I
  <1>4. CASE x \notin ToSet(s)
    <2>1. I = {}
      BY <1>1, <1>4 DEF ToSet
    <2> QED BY <1>4, <2>1
  <1> QED
    BY <1>3, <1>4

\* The ids a drop asks for are a list, with the dragged task beside the row it was
\* dropped on, or last.
LEMMA ArrangedIsPlaced ==
    ASSUME NEW shown, IsList(shown), NEW d, d.task \in Task
    PROVE  /\ IsList(Arranged(shown, d.task, d.over, d.position))
           /\ PlacedBeside(Arranged(shown, d.task, d.over, d.position), shown, d)
  <1> DEFINE t == d.task
             over == d.over
             others == Without(shown, t)
             i == SelectInSeq(others, LAMBDA u : u = over)
             ids == Arranged(shown, t, over, d.position)
  <1>1. IsList(others) /\ t \notin ToSet(others) /\ ToSet(others) = ToSet(shown) \ {t}
    BY WithoutProperties
  <1>2. Len(others) \in Nat
    BY <1>1, LenProperties DEF IsList
  <1>3. Without(shown, t) = others
    OBVIOUS
  <1>4. ids = IF i = 0 THEN Append(others, t)
              ELSE InsertAt(others, IF d.position = "before" THEN i ELSE i + 1, t)
    BY DEF Arranged
  <1> HIDE DEF others, ids
  <1>5. IF over \in ToSet(others) THEN i \in 1 .. Len(others) /\ others[i] = over ELSE i = 0
    <2> DEFINE I == {k \in 1 .. Len(others) : others[k] = over}
    <2>1. i = IF I # {} THEN Min(I) ELSE 0
      BY DEF SelectInSeq
    <2>2. LET k == IF I # {} THEN Min(I) ELSE 0
          IN IF over \in ToSet(others) THEN k \in 1 .. Len(others) /\ others[k] = over ELSE k = 0
      BY <1>1, PlaceInAList
    <2> HIDE DEF I, i
    <2> QED BY <2>1, <2>2
  <1> HIDE DEF i
  <1> DEFINE At(u) == CHOOSE k \in DOMAIN ids : ids[k] = u
  <1>6. PlacedBeside(ids, shown, d) <=>
           /\ IsInjective(ids) /\ Without(ids, t) = others
           /\ IF over \in ToSet(others)
              THEN At(t) = IF d.position = "before" THEN At(over) - 1 ELSE At(over) + 1
              ELSE At(t) = Len(ids)
    BY <1>1, <1>3 DEF PlacedBeside, Ids
  <1>7. CASE over \in ToSet(others)
    <2> DEFINE j == IF d.position = "before" THEN i ELSE i + 1
    <2>1. i \in 1 .. Len(others) /\ others[i] = over /\ ids = InsertAt(others, j, t)
      BY <1>2, <1>5, <1>4, <1>7
    <2>2. j \in 1 .. Len(others) + 1 /\ j \in Int /\ i \in Int
      BY <1>2, <2>1
    <2>3. j = i \/ j = i + 1
      OBVIOUS
    <2>4. d.position = "before" <=> j = i
      BY <2>1
    <2> HIDE DEF j
    <2>5. IsList(ids) /\ Without(ids, t) = others
      BY <1>1, <2>1, <2>2, InsertedIsAList, InsertedIsThere
    <2>6. At(t) = j /\ At(over) = IF i < j THEN i ELSE i + 1
      BY <1>1, <2>1, <2>2, InsertedIsThere
    <2> HIDE DEF At
    <2>7. At(t) = IF d.position = "before" THEN At(over) - 1 ELSE At(over) + 1
      BY <2>2, <2>3, <2>4, <2>6
    <2> QED BY <1>6, <1>7, <2>5, <2>7 DEF ids, IsList
  <1>8. CASE over \notin ToSet(others)
    <2> DEFINE j == Len(others) + 1
    <2>1. ids = InsertAt(others, j, t)
      BY <1>1, <1>5, <1>4, <1>8, AppendedIsInserted
    <2>2. j \in 1 .. Len(others) + 1
      BY <1>2
    <2> HIDE DEF j
    <2>3. IsList(ids) /\ Without(ids, t) = others
      BY <1>1, <2>1, <2>2, InsertedIsAList, InsertedIsThere
    <2>4. At(t) = j
      BY <1>1, <2>1, <2>2, InsertedIsThere
    <2>5. Len(ids) = j
      BY <1>1, <2>1, <2>2, InsertAtProperties DEF j, IsList
    <2> HIDE DEF At
    <2> QED BY <1>6, <1>8, <2>3, <2>4, <2>5 DEF ids, IsList
  <1> QED
    BY <1>7, <1>8

-----------------------------------------------------------------------------
(* The inductive invariant.                                                  *)

\* A request names the queue it is about, and an order it asks for is a list.
RequestFits(rq) ==
    /\ rq.op = "reorder" => rq.queue \in Queue /\ IsList(rq.ids)
    /\ rq.op \in {"create", "requeue", "move", "update"} => rq.queue \in Queue
CallFits(c) ==
    /\ c = [field \in {"id", "sent", "next", "failed", "success"} |-> c[field]]
    /\ \A rq \in c.sent : RequestFits(rq)
    /\ c.next = <<>> \/ (c.next = <<Head(c.next)>> /\ RequestFits(Head(c.next)))
CallsFit == \A c \in calls : CallFits(c)

\* No list has a task twice: of the service, of the page and of an answer under way.
ListsFit == /\ AreLists(lists) /\ AreLists(page)
            /\ \A answer \in answers : AreLists(answer)
            /\ unused \subseteq Task

\* What a history list shows, and what is chosen on the history page, has ended.
AllEnded(S) == \A t \in S : Ended(t)
ServiceFits == /\ \A t \in unused : ~Listed(t, lists)
               /\ AllEnded(ToSet(lists["history"]))
ShownFits == /\ AllEnded(ToSet(page["history"]))
             /\ \A answer \in answers : AllEnded(ToSet(answer["history"]))
ChoiceFits == tab = "history" => AllEnded(batch.chosen)
EndingsFit == ServiceFits /\ ShownFits /\ ChoiceFits

BoardIInv == ListsFit /\ CallsFit /\ EndingsFit /\ ConsoleShowsARunningTask

-----------------------------------------------------------------------------
(* Calls and lists.                                                          *)

LEMMA StartedFits ==
    ASSUME NEW S, NEW n, NEW success, Started(S, n, success), CallsFit,
           \A rq \in S : RequestFits(rq),
           n = <<>> \/ (n = <<Head(n)>> /\ RequestFits(Head(n)))
    PROVE  CallsFit'
  <1> DEFINE c == [id |-> clicks, sent |-> S, next |-> n, failed |-> FALSE, success |-> success]
  <1>1. c = [field \in {"id", "sent", "next", "failed", "success"} |-> c[field]]
    OBVIOUS
  <1>2. c.sent = S /\ c.next = n
    OBVIOUS
  <1>3. calls' = calls \cup {c}
    BY DEF Started
  <1> HIDE DEF c
  <1>4. CallFits(c)
    BY <1>1, <1>2 DEF CallFits
  <1> QED
    BY <1>3, <1>4 DEF CallsFit

\* A request without an order of ids.
LEMMA SimpleRequestFits ==
    /\ \A op, t : op \notin {"reorder", "create", "requeue", "move", "update"} =>
          RequestFits(Request(op, t)) /\ Request(op, t).op # "reorder"
    /\ \A op, t : \A q \in Queue : op # "reorder" =>
          RequestFits(RequestTo(op, t, q)) /\ RequestTo(op, t, q).op # "reorder"
    /\ \A q \in Queue : RequestFits([op |-> "create", queue |-> q])
  BY DEF RequestFits, Request, RequestTo

\* A call with fewer answers to wait for, with its next request sent, or without a handler.
LEMMA AnsweredFits ==
    ASSUME NEW c, CallFits(c), NEW S \in SUBSET c.sent, NEW f
    PROVE  CallFits([c EXCEPT !.sent = S, !.failed = f])
  <1> DEFINE d == [c EXCEPT !.sent = S, !.failed = f]
  <1>1. /\ d = [field \in {"id", "sent", "next", "failed", "success"} |-> d[field]]
        /\ d.sent = S /\ d.next = c.next
    BY DEF CallFits
  <1> HIDE DEF d
  <1>2. CallFits(d)
    BY <1>1 DEF CallFits
  <1> QED
    BY <1>2 DEF d

LEMMA OrphanFits ==
    ASSUME NEW c, CallFits(c)
    PROVE  CallFits([c EXCEPT !.success = "none"])
  <1> DEFINE d == [c EXCEPT !.success = "none"]
  <1>1. /\ d = [field \in {"id", "sent", "next", "failed", "success"} |-> d[field]]
        /\ d.sent = c.sent /\ d.next = c.next
    BY DEF CallFits
  <1> HIDE DEF d
  <1>2. CallFits(d)
    BY <1>1 DEF CallFits
  <1> QED
    BY <1>2 DEF d

LEMMA NextSentFits ==
    ASSUME NEW c, CallFits(c), c.next # <<>>
    PROVE  CallFits([c EXCEPT !.sent = {Head(c.next)}, !.next = Tail(c.next)])
  <1> DEFINE rq == Head(c.next)
             d == [c EXCEPT !.sent = {rq}, !.next = Tail(c.next)]
  <1>1. c.next = <<rq>> /\ RequestFits(rq)
    BY DEF CallFits
  <1>2. Tail(c.next) = <<>>
    <2>1. \A x : Tail(<<x>>) = <<>>
      OBVIOUS
    <2> HIDE DEF rq
    <2> QED BY <1>1, <2>1
  <1> HIDE DEF rq
  <1>3. /\ d = [field \in {"id", "sent", "next", "failed", "success"} |-> d[field]]
        /\ d.sent = {rq} /\ d.next = Tail(c.next)
    BY DEF CallFits
  <1> HIDE DEF d
  <1>4. CallFits(d)
    BY <1>1, <1>2, <1>3 DEF CallFits
  <1> QED
    BY <1>4 DEF d, rq

\* What the service does of a request it accepts keeps its lists.
LEMMA ExecutedFits ==
    ASSUME ListsFit, NEW rq, RequestFits(rq), Accepts(rq), Executed(rq)
    PROVE  AreLists(lists') /\ unused' \subseteq Task
  <1>1. AreLists(lists) /\ unused \subseteq Task
    BY DEF ListsFit
  <1>2. Queue \subseteq List
    BY DEF List
  <1>3. CASE Enqueues(rq)
    <2>1. PICK t \in unused : unused' = unused \ {t} /\ lists' = ToTail(lists, t, rq.queue)
      BY <1>3 DEF Executed
    <2>2. rq.queue \in Queue
      BY <1>3 DEF Enqueues, RequestFits
    <2> QED BY <1>1, <1>2, <2>1, <2>2, MovedTaskFits
  <1>4. CASE ~Enqueues(rq)
    <2>1. /\ unused' = unused
          /\ lists' = CASE rq.op = "reorder" -> [lists EXCEPT ![rq.queue] = rq.ids]
                        [] rq.op = "delete" -> Unlisted(lists, rq.task)
                        [] rq.op \in {"move", "update"} /\ ~In(rq.task, lists, rq.queue)
                             -> ToTail(lists, rq.task, rq.queue)
                        [] OTHER -> lists
      BY <1>4 DEF Executed
    <2>2. CASE rq.op = "reorder"
      <3>1. lists' = [lists EXCEPT ![rq.queue] = rq.ids]
        BY <2>1, <2>2
      <3>2. rq.queue \in List /\ IsList(rq.ids)
        BY <1>2, <2>2 DEF RequestFits
      <3>3. AreLists([lists EXCEPT ![rq.queue] = rq.ids])
        BY <1>1, <3>2, ChangedListFits
      <3> QED BY <1>1, <2>1, <3>1, <3>3
    <2>3. CASE rq.op = "delete"
      <3>1. lists' = Unlisted(lists, rq.task)
        BY <2>1, <2>3
      <3> QED BY <1>1, <2>1, <3>1, UnlistedFits
    <2>4. CASE rq.op \in {"move", "update"} /\ ~In(rq.task, lists, rq.queue)
      <3>1. lists' = ToTail(lists, rq.task, rq.queue)
        BY <2>1, <2>4
      <3>2. WaitsIn(rq.task, lists) /\ rq.queue \in Queue
        BY <2>4 DEF Accepts, RequestFits
      <3>3. rq.task \in Task
        BY <1>1, <3>2, ListedAreTasks
      <3> QED BY <1>1, <1>2, <2>1, <3>1, <3>2, <3>3, MovedTaskFits
    <2>5. CASE /\ rq.op \notin {"reorder", "delete"}
               /\ ~(rq.op \in {"move", "update"} /\ ~In(rq.task, lists, rq.queue))
      <3>1. lists' = lists
        BY <2>1, <2>5
      <3> QED BY <1>1, <2>1, <3>1
    <2> QED BY <2>2, <2>3, <2>4, <2>5
  <1> QED
    BY <1>3, <1>4

-----------------------------------------------------------------------------
(* Steps of the service, of the handlers and of the refreshes.               *)

LEMMA ServiceKeeps ==
    ASSUME ListsFit, CallsFit, Service
    PROVE  ListsFit' /\ CallsFit' /\ UNCHANGED <<page, controls, clicks>>
  <1>1. AreLists(lists) /\ AreLists(page) /\ (\A answer \in answers : AreLists(answer))
        /\ unused \subseteq Task
    BY DEF ListsFit
  <1>2. Queue \subseteq List /\ "running" \in List /\ "history" \in List
    BY DEF List
  <1>3. ASSUME NEW t \in Task, Launch(t)
        PROVE  ListsFit' /\ CallsFit' /\ UNCHANGED <<page, controls, clicks>>
    <2>1. AreLists(lists')
      BY <1>1, <1>2, <1>3, MovedTaskFits DEF Launch
    <2>2. UNCHANGED <<unused, page, answers, controls, calls, clicks>>
      BY <1>3 DEF Launch
    <2> QED BY <1>1, <2>1, <2>2 DEF ListsFit, CallsFit
  <1>4. ASSUME NEW t \in Task, Leaves(t)
        PROVE  ListsFit' /\ CallsFit' /\ UNCHANGED <<page, controls, clicks>>
    <2>1. AreLists(lists')
      BY <1>1, <1>2, <1>4, MovedTaskFits DEF Leaves
    <2>2. UNCHANGED <<unused, page, answers, controls, calls, clicks>>
      BY <1>4 DEF Leaves
    <2> QED BY <1>1, <2>1, <2>2 DEF ListsFit, CallsFit
  <1>5. ASSUME NEW c \in calls, NEW rq \in c.sent, Serve(c, rq)
        PROVE  ListsFit' /\ CallsFit' /\ UNCHANGED <<page, controls, clicks>>
    <2>1. CallFits(c) /\ RequestFits(rq)
      BY DEF CallsFit, CallFits
    <2>2. AreLists(lists') /\ unused' \subseteq Task
      BY <1>1, <1>5, <2>1, ExecutedFits DEF Serve
    <2>3. UNCHANGED <<page, answers, controls, clicks>>
      BY <1>5 DEF Serve
    <2>4. \E f : calls' = (calls \ {c}) \cup {[c EXCEPT !.sent = c.sent \ {rq}, !.failed = f]}
      BY <1>5 DEF Serve
    <2>5. \A d \in calls' : d \in calls
                            \/ \E f : d = [c EXCEPT !.sent = c.sent \ {rq}, !.failed = f]
      BY <2>4
    <2>6. \A f : CallFits([c EXCEPT !.sent = c.sent \ {rq}, !.failed = f])
      BY <2>1, AnsweredFits
    <2>7. CallsFit'
      BY <2>5, <2>6, Zenon DEF CallsFit
    <2> QED BY <1>1, <2>2, <2>3, <2>7 DEF ListsFit
  <1> QED
    BY <1>3, <1>4, <1>5 DEF Service

\* A handler that goes on touches nothing but the dialog and the choice, which it may end.
LEMMA HandlersKeep ==
    ASSUME CallsFit, Handlers
    PROVE  /\ CallsFit'
           /\ UNCHANGED <<lists, unused, page, answers, tab, drag, selected, clicks>>
           /\ batch' \in {batch, NotChoosing}
  <1> DEFINE Rest == UNCHANGED <<lists, unused, page, answers, tab, drag, selected, clicks>>
             Same == batch' = batch
             Ends == batch' \in {batch, NotChoosing}
  <1>1. PICK c \in calls : CallFails(c) \/ OrphanEnds(c) \/ CallProceeds(c) \/ CallSucceeds(c)
    BY DEF Handlers
  <1>2. CallFits(c)
    BY DEF CallsFit
  <1>3. CASE CallFails(c)
    <2>1. Rest /\ Same
      BY <1>3 DEF CallFails, service, controls
    <2>2. \A d \in calls' : d \in calls \/ d = [c EXCEPT !.success = "none"]
      BY <1>3 DEF CallFails
    <2>3. CallsFit'
      BY <1>2, <2>2, OrphanFits DEF CallsFit
    <2> QED BY <2>1, <2>3
  <1>4. CASE OrphanEnds(c)
    BY <1>4 DEF OrphanEnds, CallsFit, service, controls
  <1>5. CASE CallProceeds(c)
    <2>1. Rest /\ Same
      BY <1>5 DEF CallProceeds, service, controls
    <2>2. \A d \in calls' : \/ d \in calls
                            \/ d = [c EXCEPT !.sent = {Head(c.next)}, !.next = Tail(c.next)]
      BY <1>5 DEF CallProceeds
    <2>3. c.next # <<>>
      BY <1>5 DEF CallProceeds
    <2>4. CallsFit'
      BY <1>2, <2>2, <2>3, NextSentFits DEF CallsFit
    <2> QED BY <2>1, <2>4
  <1>6. CASE CallSucceeds(c)
    <2>1. Rest
      BY <1>6 DEF CallSucceeds, service
    <2>2. Ends
      BY <1>6 DEF CallSucceeds
    <2>3. CallsFit'
      BY <1>6 DEF CallSucceeds, CallsFit
    <2> QED BY <2>1, <2>2, <2>3
  <1> QED
    BY <1>1, <1>3, <1>4, <1>5, <1>6

LEMMA RefreshesKeep ==
    ASSUME ListsFit, CallsFit, Refreshes
    PROVE  /\ ListsFit' /\ CallsFit' /\ UNCHANGED <<tab, dialog, drag, batch, clicks>>
           /\ UNCHANGED lists /\ UNCHANGED unused
           /\ UNCHANGED <<page, selected>> \/ selected' = Followed(page', selected)
  <1>1. CASE AnswerRefresh
    BY <1>1 DEF AnswerRefresh, ListsFit, CallsFit, service, controls
  <1>2. CASE ApplyRefresh
    BY <1>2 DEF ApplyRefresh, ListsFit, CallsFit, service
  <1> QED
    BY <1>1, <1>2 DEF Refreshes

-----------------------------------------------------------------------------
(* Steps of the user.                                                        *)

\* An order of ids that a call of a drop asks for fits the list and the drag of now.
DropFits(c) ==
    \A rq \in c.sent \cup ToSet(c.next) :
       rq.op = "reorder" => PlacedBeside(rq.ids, page[rq.queue], drag)

StartsWell == CallsFit' /\ \A c \in calls' \ calls : DropFits(c)

LEMMA NothingStarted ==
    ASSUME CallsFit, UNCHANGED calls
    PROVE  StartsWell
  BY DEF StartsWell, CallsFit

\* A handler that sends requests with no order of ids in them.
LEMMA SimpleStart ==
    ASSUME CallsFit, NEW S, NEW success, Started(S, <<>>, success),
           \A rq \in S : RequestFits(rq) /\ rq.op # "reorder"
    PROVE  StartsWell
  <1>1. CallsFit'
    BY StartedFits
  <1>2. \A c \in calls' \ calls : c.sent = S /\ c.next = <<>>
    BY DEF Started
  <1> QED
    BY <1>1, <1>2, NoneIsSet DEF StartsWell, DropFits

LEMMA ClickedStarts ==
    ASSUME CallsFit, NEW rq, Clicked(rq), RequestFits(rq), rq.op # "reorder"
    PROVE  StartsWell /\ UNCHANGED <<lists, unused, page, answers, controls>>
  BY SimpleStart DEF Clicked, service

LEMMA DropStarts ==
    ASSUME ListsFit, CallsFit, NEW q \in Queue, handleDrop(q)
    PROVE  StartsWell
  <1> DEFINE t == drag.task
             order == [op |-> "reorder", queue |-> q,
                       ids |-> Arranged(page[q], t, drag.over, drag.position)]
             move == RequestTo("move", t, q)
  <1>1. IsList(page[q]) /\ AreLists(page)
    BY DEF ListsFit, AreLists, List
  <1>2. CASE ~Listed(t, page)
    <2>1. ~In(t, page, q)
      BY <1>2 DEF Listed, List
    <2>2. UNCHANGED calls
      BY <1>2, <2>1 DEF handleDrop
    <2> QED BY <2>2, NothingStarted
  <1>3. CASE Listed(t, page)
    <2>1. t \in Task
      BY <1>1, <1>3, ListedAreTasks
    <2>2. order.op = "reorder" /\ order.queue = q
          /\ order.ids = Arranged(page[q], t, drag.over, drag.position)
      OBVIOUS
    <2>3. IsList(order.ids) /\ PlacedBeside(order.ids, page[order.queue], drag)
      BY <1>1, <2>1, <2>2, ArrangedIsPlaced
    <2>4. RequestFits(order)
      BY <2>2, <2>3 DEF RequestFits
    <2>5. RequestFits(move) /\ move.op # "reorder"
      BY SimpleRequestFits
    <2>6. Started({order}, <<>>, "refresh") \/ Started({move}, <<order>>, "refresh")
      BY <1>3 DEF handleDrop
    <2> HIDE DEF order, move
    <2>7. <<order>> = <<Head(<<order>>)>> /\ Head(<<order>>) = order
      OBVIOUS
    <2>8. CallsFit'
      BY <2>4, <2>5, <2>6, <2>7, StartedFits
    <2>9. \A c \in calls' \ calls : c.sent \cup ToSet(c.next) \subseteq {order, move}
      <3>1. \A c \in calls' \ calls : \/ c.sent = {order} /\ c.next = <<>>
                                      \/ c.sent = {move} /\ c.next = <<order>>
        BY <2>6 DEF Started
      <3> QED BY <3>1, SingleIsSet, NoneIsSet
    <2> QED BY <2>3, <2>5, <2>8, <2>9 DEF StartsWell, DropFits
  <1> QED
    BY <1>2, <1>3

\* Whatever the user does, the lists are the service's and the page's, and what is sent
\* fits what the page shows.
LEMMA UserKeeps ==
    ASSUME ListsFit, CallsFit, User
    PROVE  StartsWell /\ UNCHANGED <<lists, unused, page, answers>>
  <1> DEFINE Kept == StartsWell /\ UNCHANGED <<lists, unused, page, answers>>
  <1>1. ASSUME UNCHANGED <<lists, unused, page, answers, calls>>
        PROVE  Kept
    BY <1>1, NothingStarted
  <1>2. ASSUME NEW rq, Clicked(rq), RequestFits(rq), rq.op # "reorder"
        PROVE  Kept
    BY <1>2, ClickedStarts
  <1>3. ASSUME NEW tb \in Tab, SwitchTab(tb)
        PROVE  Kept
    BY <1>3, <1>1 DEF SwitchTab, Control, service
  <1>4. ASSUME NEW t \in Task, SelectCard(t)
        PROVE  Kept
    BY <1>4, <1>1 DEF SelectCard, Control, service
  <1>5. ASSUME NEW t \in Task, ClickOnCard(t)
        PROVE  Kept
    <2>1. Clicked(Request("stop", t)) \/ Clicked(Request("preempt", t))
      BY <1>5 DEF ClickOnCard
    <2> QED BY <1>2, <2>1, SimpleRequestFits
  <1>6. ASSUME NEW t \in Task, ClickOnQueueRow(t)
        PROVE  Kept
    <2>1. \E q \in Queue : Clicked(RequestTo("move", t, q))
      BY <1>6 DEF ClickOnQueueRow, Queue
    <2> QED BY <1>2, <2>1, SimpleRequestFits
  <1>7. ASSUME NEW t \in Task, ClickOnHistoryRow(t)
        PROVE  Kept
    <2>1. \E q \in Queue : Clicked(RequestTo("requeue", t, q))
      BY <1>7 DEF ClickOnHistoryRow, Queue
    <2> QED BY <1>2, <2>1, SimpleRequestFits
  <1>8. ASSUME NEW t \in Task, DeleteRow(t)
        PROVE  Kept
    BY <1>8, <1>2, SimpleRequestFits DEF DeleteRow
  <1>9. ASSUME NEW t \in Task, duplicateTask(t) \/ editTask(t)
        PROVE  Kept
    BY <1>9, <1>1 DEF duplicateTask, editTask, OpenFor, Control, service
  <1>10. ASSUME NEW t \in Task, handleDragStart(t)
         PROVE  Kept
    BY <1>10, <1>1 DEF handleDragStart, Control, service
  <1>11. ASSUME NEW t \in Task, toggleTaskForBatchDelete(t)
         PROVE  Kept
    BY <1>11, <1>1 DEF toggleTaskForBatchDelete, Control, service
  <1>12. CASE openNewTaskModal \/ CloseDialog
    BY <1>12, <1>1 DEF openNewTaskModal, CloseDialog, Control, service
  <1>13. CASE submitTask
    <2>1. UNCHANGED <<lists, unused, page, answers>>
      BY <1>13 DEF submitTask, service
    <2>2. PICK q \in Queue :
            Started({IF isMetadataOnlyTaskEdit THEN Request("metadata", dialog.task)
                     ELSE IF dialog.editing /\ dialog.task # None
                          THEN RequestTo("update", dialog.task, q)
                     ELSE [op |-> "create", queue |-> q]}, <<>>, "close")
      BY <1>13 DEF submitTask
    <2>3. PICK rq : Started({rq}, <<>>, "close")
                    /\ rq \in {Request("metadata", dialog.task), RequestTo("update", dialog.task, q),
                               [op |-> "create", queue |-> q]}
      BY <2>2
    <2>4. RequestFits(rq) /\ rq.op # "reorder"
      BY <2>3, SimpleRequestFits
    <2>5. StartsWell
      BY <2>3, <2>4, SimpleStart
    <2> QED BY <2>1, <2>5
  <1>14. CASE DragOver
    BY <1>14, <1>1 DEF DragOver, handleDragOver, Control, service
  <1>15. CASE DragEnd
    BY <1>15, <1>1 DEF DragEnd, Control, service
  <1>16. ASSUME NEW q \in Queue, handleDrop(q)
         PROVE  Kept
    <2>1. UNCHANGED <<lists, unused, page, answers>>
      BY <1>16 DEF handleDrop, service
    <2> QED BY <1>16, <2>1, DropStarts
  <1>17. CASE ToggleBatchMode
    BY <1>17, <1>1 DEF ToggleBatchMode, Control, service
  <1>18. CASE batchDeleteTasks
    <2>1. UNCHANGED <<lists, unused, page, answers>>
      BY <1>18 DEF batchDeleteTasks, service
    <2>2. Started({Request("delete", t) : t \in tasksToDelete}, <<>>, "unselect")
      BY <1>18 DEF batchDeleteTasks
    <2>3. \A rq \in {Request("delete", t) : t \in tasksToDelete} :
             RequestFits(rq) /\ rq.op # "reorder"
      BY SimpleRequestFits
    <2>4. StartsWell
      BY <2>2, <2>3, SimpleStart
    <2> QED BY <2>1, <2>4
  <1> HIDE DEF Kept
  <1>19. Kept
    <2>1. ASSUME NEW t \in Task, ClicksOn(t) PROVE Kept
      BY <2>1, <1>4, <1>5, <1>6, <1>7, <1>8, <1>9, <1>10, <1>11 DEF ClicksOn
    <2>2. CASE openNewTaskModal \/ CloseDialog \/ submitTask \/ DragOver \/ DragEnd
               \/ ToggleBatchMode \/ batchDeleteTasks
      BY <2>2, <1>12, <1>13, <1>14, <1>15, <1>17, <1>18 DEF Kept
    <2>3. CASE \E tb \in Tab : SwitchTab(tb)
      BY <2>3, <1>3
    <2>4. CASE \E q \in Queue : handleDrop(q)
      BY <2>4, <1>16
    <2> QED BY <2>1, <2>2, <2>3, <2>4 DEF User
  <1> QED
    BY <1>19 DEF Kept

-----------------------------------------------------------------------------
(* What has ended stays so, and what is shown or chosen as ended has ended.   *)

\* A task that had not ended goes to an end of a list, out of the one it was in.
LEMMA MoveKeepsEndings ==
    ASSUME ListsFit, ServiceFits, NEW t \in Task, ~Ended(t), NEW l \in List,
           lists' \in {ToTail(lists, t, l), ToHead(lists, t, l)}, unused' = unused \ {t}
    PROVE  ServiceFits' /\ \A u : Ended(u) => Ended(u)'
  <1>1. AreLists(lists) /\ Queue \subseteq List /\ "running" \in List /\ "history" \in List
        /\ "history" \notin Queue
    BY DEF ListsFit, List, Queue
  <1>2. \A k \in List : ToSet(lists'[k])
                          = (ToSet(lists[k]) \ {t}) \cup (IF k = l THEN {t} ELSE {})
    BY <1>1, MovedTaskIsThere
  <1>3. \A u, k : k \in List /\ u # t => (In(u, lists', k) <=> In(u, lists, k))
    BY <1>2 DEF In
  <1>4. \A u : u # t => /\ Ended(u) => Ended(u)'
                        /\ Listed(u, lists') => Listed(u, lists)
    BY <1>1, <1>3 DEF Ended, WaitsIn, Listed
  <1>5. \A u : Ended(u) => Ended(u)'
    BY <1>4
  <1>6. \A u \in unused' : ~Listed(u, lists')
    BY <1>4 DEF ServiceFits
  <1>7. t \in ToSet(lists'["history"]) => Ended(t)'
    <2> SUFFICES ASSUME t \in ToSet(lists'["history"]) PROVE Ended(t)'
      OBVIOUS
    <2>1. l = "history"
      BY <1>1, <1>2
    <2>2. \A k \in List \ {"history"} : ~In(t, lists', k)
      BY <1>2, <2>1 DEF In
    <2> QED BY <1>1, <2>2 DEF Ended, WaitsIn
  <1>8. \A u \in ToSet(lists'["history"]) : u # t => Ended(u)'
    BY <1>1, <1>2, <1>5 DEF ServiceFits, AllEnded
  <1>9. AllEnded(ToSet(lists["history"]))'
    BY <1>7, <1>8 DEF AllEnded
  <1> QED
    BY <1>5, <1>6, <1>9 DEF ServiceFits

\* Nothing comes into a list.
LEMMA SameKeepsEndings ==
    ASSUME ServiceFits, unused' = unused,
           \A k \in List : ToSet(lists'[k]) \subseteq ToSet(lists[k])
    PROVE  ServiceFits' /\ \A u : Ended(u) => Ended(u)'
  <1>1. Queue \subseteq List /\ "running" \in List /\ "history" \in List
    BY DEF List
  <1>2. \A u, k : k \in List /\ In(u, lists', k) => In(u, lists, k)
    BY DEF In
  <1>3. \A u : Ended(u) => Ended(u)'
    BY <1>1, <1>2 DEF Ended, WaitsIn
  <1>4. \A u \in unused' : ~Listed(u, lists')
    BY <1>2 DEF ServiceFits, Listed
  <1>5. AllEnded(ToSet(lists["history"]))'
    BY <1>1, <1>3 DEF ServiceFits, AllEnded
  <1> QED
    BY <1>3, <1>4, <1>5 DEF ServiceFits

\* A task on a list of the service has an id, and one that waits or runs has not ended.
LEMMA ListedNotEnded ==
    ASSUME ListsFit, ServiceFits, NEW t, WaitsIn(t, lists) \/ In(t, lists, "running")
    PROVE  t \in Task /\ ~Ended(t) /\ unused = unused \ {t}
  <1>1. Queue \subseteq List /\ "running" \in List /\ AreLists(lists)
    BY DEF List, ListsFit
  <1>2. Listed(t, lists)
    BY <1>1 DEF WaitsIn, Listed
  <1>3. t \in Task /\ t \notin unused
    BY <1>1, <1>2, ListedAreTasks DEF ServiceFits
  <1> QED
    BY <1>3 DEF Ended

LEMMA ExecutedKeepsEndings ==
    ASSUME ListsFit, ServiceFits, NEW rq, RequestFits(rq), Accepts(rq), Executed(rq)
    PROVE  ServiceFits' /\ \A u : Ended(u) => Ended(u)'
  <1>1. AreLists(lists) /\ unused \subseteq Task /\ Queue \subseteq List
    BY DEF ListsFit, List
  <1>2. CASE Enqueues(rq)
    <2>1. PICK t \in unused : unused' = unused \ {t} /\ lists' = ToTail(lists, t, rq.queue)
      BY <1>2 DEF Executed
    <2>2. rq.queue \in List /\ t \in Task /\ ~Ended(t)
      BY <1>1, <1>2, <2>1 DEF Enqueues, RequestFits, Ended
    <2> QED BY <2>1, <2>2, MoveKeepsEndings
  <1>3. CASE ~Enqueues(rq)
    <2>1. /\ unused' = unused
          /\ lists' = CASE rq.op = "reorder" -> [lists EXCEPT ![rq.queue] = rq.ids]
                        [] rq.op = "delete" -> Unlisted(lists, rq.task)
                        [] rq.op \in {"move", "update"} /\ ~In(rq.task, lists, rq.queue)
                             -> ToTail(lists, rq.task, rq.queue)
                        [] OTHER -> lists
      BY <1>3 DEF Executed
    <2>2. CASE rq.op = "reorder"
      <3>1. lists' = [lists EXCEPT ![rq.queue] = rq.ids] /\ rq.queue \in List
        BY <1>1, <2>1, <2>2 DEF RequestFits
      <3>2. ToSet(rq.ids) = ToSet(lists[rq.queue])
        BY <2>2 DEF Accepts
      <3>3. \A k \in List : lists'[k] = IF k = rq.queue THEN rq.ids ELSE lists[k]
        BY <1>1, <3>1 DEF AreLists
      <3>4. \A k \in List : ToSet(lists'[k]) \subseteq ToSet(lists[k])
        BY <3>2, <3>3
      <3> QED BY <2>1, <3>4, SameKeepsEndings
    <2>3. CASE rq.op = "delete"
      <3>1. lists' = Unlisted(lists, rq.task)
        BY <2>1, <2>3
      <3>2. \A k \in List : lists'[k] = Without(lists[k], rq.task)
        BY <3>1 DEF Unlisted
      <3>3. \A k \in List : ToSet(lists'[k]) \subseteq ToSet(lists[k])
        BY <1>1, <3>2, WithoutProperties DEF AreLists
      <3> QED BY <2>1, <3>3, SameKeepsEndings
    <2>4. CASE rq.op \in {"move", "update"} /\ ~In(rq.task, lists, rq.queue)
      <3>1. lists' = ToTail(lists, rq.task, rq.queue)
        BY <2>1, <2>4
      <3>2. WaitsIn(rq.task, lists) /\ rq.queue \in List
        BY <1>1, <2>4 DEF Accepts, RequestFits
      <3>3. rq.task \in Task /\ ~Ended(rq.task) /\ unused' = unused \ {rq.task}
        BY <2>1, <3>2, ListedNotEnded
      <3> QED BY <3>1, <3>2, <3>3, MoveKeepsEndings
    <2>5. CASE /\ rq.op \notin {"reorder", "delete"}
               /\ ~(rq.op \in {"move", "update"} /\ ~In(rq.task, lists, rq.queue))
      <3>1. lists' = lists
        BY <2>1, <2>5
      <3> QED BY <2>1, <3>1, SameKeepsEndings
    <2> QED BY <2>2, <2>3, <2>4, <2>5
  <1> QED
    BY <1>2, <1>3

LEMMA ServiceKeepsEndings ==
    ASSUME ListsFit, CallsFit, ServiceFits, Service
    PROVE  ServiceFits' /\ \A u : Ended(u) => Ended(u)'
  <1> DEFINE Kept == ServiceFits' /\ \A u : Ended(u) => Ended(u)'
  <1>1. AreLists(lists) /\ Queue \subseteq List /\ {"running", "history"} \subseteq List
    BY DEF ListsFit, List
  <1>2. ASSUME NEW t \in Task, Launch(t)
        PROVE  Kept
    <2>1. PICK q \in {"urgent", "normal"} : lists[q] # <<>> /\ t = Head(lists[q])
      BY <1>2 DEF Launch
    <2>2. q \in Queue /\ IsList(lists[q])
      BY <1>1 DEF Queue, AreLists
    <2>3. WaitsIn(t, lists)
      BY <2>1, <2>2, HeadIsListed DEF WaitsIn, In
    <2>4. lists' = ToTail(lists, t, "running") /\ unused' = unused
      BY <1>2 DEF Launch
    <2> QED BY <1>1, <2>3, <2>4, ListedNotEnded, MoveKeepsEndings
  <1>3. ASSUME NEW t \in Task, Leaves(t)
        PROVE  Kept
    <2>1. PICK l \in List : lists' = ToHead(lists, t, l)
      BY <1>1, <1>3 DEF Leaves
    <2>2. In(t, lists, "running") /\ unused' = unused
      BY <1>3 DEF Leaves
    <2> QED BY <2>1, <2>2, ListedNotEnded, MoveKeepsEndings
  <1>4. ASSUME NEW c \in calls, NEW rq \in c.sent, Serve(c, rq)
        PROVE  Kept
    <2>1. RequestFits(rq)
      BY DEF CallsFit, CallFits
    <2>2. CASE Accepts(rq) /\ Executed(rq)
      BY <2>1, <2>2, ExecutedKeepsEndings
    <2>3. CASE UNCHANGED <<lists, unused>>
      BY <2>3, SameKeepsEndings
    <2> QED BY <1>4, <2>2, <2>3 DEF Serve
  <1> HIDE DEF Kept
  <1>5. Kept
    BY <1>2, <1>3, <1>4 DEF Service
  <1> QED
    BY <1>5 DEF Kept

\* What has ended before a step of the service is shown or chosen after it as well.
LEMMA SameEndings ==
    ASSUME EndingsFit, UNCHANGED <<lists, unused, page, answers>>, ChoiceFits'
    PROVE  EndingsFit'
  BY DEF EndingsFit, ServiceFits, ShownFits, AllEnded, Ended, WaitsIn, In, Listed

LEMMA SameChoice ==
    ASSUME EndingsFit, UNCHANGED <<lists, unused, tab>>,
           batch' = batch \/ batch'.chosen = {}
    PROVE  ChoiceFits'
  BY DEF EndingsFit, ChoiceFits, AllEnded, Ended, WaitsIn, In

\* The user ends a choice, or chooses one of the rows that are shown.
LEMMA UserKeepsChoice ==
    ASSUME EndingsFit, User, UNCHANGED <<lists, unused>>
    PROVE  ChoiceFits'
  <1>1. ASSUME NEW tb \in Tab, SwitchTab(tb)
        PROVE  ChoiceFits'
    BY <1>1 DEF SwitchTab, NotChoosing, ChoiceFits, AllEnded
  <1>2. ASSUME UNCHANGED <<tab, batch>>
        PROVE  ChoiceFits'
    BY <1>2, SameChoice
  <1>3. CASE ToggleBatchMode
    <2>1. batch'.chosen = {} /\ tab' = tab
      BY <1>3 DEF ToggleBatchMode, NotChoosing, Control
    <2> QED BY <2>1, SameChoice
  <1>4. ASSUME NEW t \in Task, toggleTaskForBatchDelete(t)
        PROVE  ChoiceFits'
    <2>1. /\ tab' = tab /\ t \in Rows
          /\ batch' = [batch EXCEPT !.chosen = IF t \in @ THEN @ \ {t} ELSE @ \cup {t}]
      BY <1>4 DEF toggleTaskForBatchDelete, Control
    <2>2. batch'.chosen \subseteq batch.chosen \cup {t} \/ batch' = batch
      BY <2>1
    <2>3. tab = "history" => AllEnded(batch.chosen) /\ Ended(t)
      BY <2>1 DEF Rows, HistoryRows, QueueRows, EndingsFit, ShownFits, ChoiceFits, AllEnded
    <2>4. \A u : Ended(u) => Ended(u)'
      BY DEF Ended, WaitsIn, In
    <2> QED BY <2>1, <2>2, <2>3, <2>4 DEF ChoiceFits, AllEnded
  <1>5. ASSUME NEW t \in Task, ClicksOn(t)
        PROVE  ChoiceFits'
    <2>1. CASE SelectCard(t)
      BY <1>2, <2>1 DEF SelectCard, Control
    <2>2. CASE ClickOnCard(t) \/ ClickOnQueueRow(t) \/ ClickOnHistoryRow(t) \/ DeleteRow(t)
      <3>1. \E rq : Clicked(rq)
        BY <2>2 DEF ClickOnCard, ClickOnQueueRow, ClickOnHistoryRow, DeleteRow
      <3> QED BY <1>2, <3>1 DEF Clicked, controls
    <2>3. CASE duplicateTask(t) \/ editTask(t)
      BY <1>2, <2>3 DEF duplicateTask, editTask, OpenFor, Control
    <2>4. CASE handleDragStart(t)
      BY <1>2, <2>4 DEF handleDragStart, Control
    <2> QED BY <1>4, <1>5, <2>1, <2>2, <2>3, <2>4 DEF ClicksOn
  <1>6. CASE openNewTaskModal \/ CloseDialog \/ DragEnd
    BY <1>2, <1>6 DEF openNewTaskModal, CloseDialog, DragEnd, Control
  <1>7. CASE submitTask \/ batchDeleteTasks
    BY <1>2, <1>7 DEF submitTask, batchDeleteTasks, controls
  <1>8. CASE DragOver
    BY <1>2, <1>8 DEF DragOver, handleDragOver, Control
  <1>9. ASSUME NEW q \in Queue, handleDrop(q)
        PROVE  ChoiceFits'
    BY <1>2, <1>9 DEF handleDrop
  <1> QED
    BY <1>1, <1>3, <1>5, <1>6, <1>7, <1>8, <1>9 DEF User

\* What a step of the user sends for deletion.
LEMMA DeletionsSent ==
    ASSUME EndingsFit, User, clicks' # clicks, tab = "history",
           NEW c \in calls' \ calls, NEW rq \in c.sent, rq.op = "delete"
    PROVE  Ended(rq.task)
  <1>1. ASSUME NEW S, NEW n, NEW e, Started(S, n, e)
        PROVE  rq \in S
    BY <1>1 DEF Started
  <1>2. ASSUME NEW r, Clicked(r)
        PROVE  rq = r
    BY <1>1, <1>2 DEF Clicked
  <1>3. ASSUME NEW t \in Task, ClicksOn(t)
        PROVE  Ended(rq.task)
    <2>1. CASE ClickOnCard(t) \/ ClickOnQueueRow(t) \/ ClickOnHistoryRow(t)
      BY <1>2, <2>1 DEF ClickOnCard, ClickOnQueueRow, ClickOnHistoryRow, Request, RequestTo
    <2>2. CASE DeleteRow(t)
      <3>1. rq = Request("delete", t) /\ t \in Rows
        BY <1>2, <2>2 DEF DeleteRow
      <3>2. t \in ToSet(page["history"])
        BY <3>1 DEF Rows, HistoryRows, QueueRows
      <3> QED BY <3>1, <3>2 DEF Request, EndingsFit, ShownFits, AllEnded
    <2>3. CASE ~(ClickOnCard(t) \/ ClickOnQueueRow(t) \/ ClickOnHistoryRow(t) \/ DeleteRow(t))
      BY <1>3, <2>3 DEF ClicksOn, SelectCard, duplicateTask, editTask, OpenFor, handleDragStart,
                        toggleTaskForBatchDelete, Control
    <2> QED BY <2>1, <2>2, <2>3
  <1>4. CASE batchDeleteTasks
    <2>1. PICK t \in tasksToDelete : rq = Request("delete", t)
      BY <1>1, <1>4 DEF batchDeleteTasks
    <2>2. t \in batch.chosen
      BY DEF tasksToDelete
    <2> QED BY <2>1, <2>2 DEF Request, EndingsFit, ChoiceFits, AllEnded
  <1>5. CASE submitTask
    BY <1>1, <1>5 DEF submitTask, Request, RequestTo
  <1>6. ASSUME NEW q \in Queue, handleDrop(q)
        PROVE  Ended(rq.task)
    <2>1. \E order : order.op = "reorder" /\ (\/ Started({order}, <<>>, "refresh")
                                              \/ Started({RequestTo("move", drag.task, q)},
                                                         <<order>>, "refresh"))
      BY <1>6 DEF handleDrop
    <2> QED BY <1>1, <2>1 DEF RequestTo
  <1>7. CASE \E tb \in Tab : SwitchTab(tb)
    BY <1>7 DEF SwitchTab, Control
  <1>8. CASE openNewTaskModal \/ CloseDialog \/ DragEnd \/ ToggleBatchMode
    BY <1>8 DEF openNewTaskModal, CloseDialog, DragEnd, ToggleBatchMode, Control
  <1>9. CASE DragOver
    BY <1>9 DEF DragOver, handleDragOver, Control
  <1> QED
    BY <1>3, <1>4, <1>5, <1>6, <1>7, <1>8, <1>9 DEF User

-----------------------------------------------------------------------------
(* The console.                                                              *)

\* Which task the console shows: a refresh has it follow the page it brings.
LEMMA FollowedFits ==
    ASSUME NEW ls, AreLists(ls), NEW prev
    PROVE  /\ ls["running"] # <<>> => In(Followed(ls, prev), ls, "running")
           /\ Followed(ls, prev) # None => Listed(Followed(ls, prev), ls)
  <1>1. "running" \in List /\ IsList(ls["running"])
    BY DEF AreLists, List
  <1>2. ls["running"] # <<>> => In(Head(ls["running"]), ls, "running")
    BY <1>1, HeadIsListed DEF In
  <1>3. \A t : In(t, ls, "running") => Listed(t, ls)
    BY <1>1 DEF Listed
  <1>4. \A t : In(t, ls, "running") => ls["running"] # <<>>
    BY NoneIsSet DEF In
  <1> QED
    BY <1>2, <1>3 DEF Followed

LEMMA SameConsole ==
    ASSUME ConsoleShowsARunningTask, UNCHANGED <<page, selected>>
    PROVE  ConsoleShowsARunningTask'
  BY DEF ConsoleShowsARunningTask, In, Listed

LEMMA FollowedConsole ==
    ASSUME AreLists(page'), selected' = Followed(page', selected)
    PROVE  ConsoleShowsARunningTask'
  BY FollowedFits DEF ConsoleShowsARunningTask, In, Listed

LEMMA UserKeepsConsole ==
    ASSUME ConsoleShowsARunningTask, User, UNCHANGED page
    PROVE  ConsoleShowsARunningTask'
  <1>1. ASSUME NEW t \in Task, SelectCard(t)
        PROVE  ConsoleShowsARunningTask'
    <2>1. selected' = t /\ t \in ToSet(page["running"])
      BY <1>1 DEF SelectCard, Cards
    <2>2. "running" \in List
      BY DEF List
    <2> QED BY <2>1, <2>2 DEF ConsoleShowsARunningTask, In, Listed
  <1>2. ASSUME UNCHANGED selected
        PROVE  ConsoleShowsARunningTask'
    BY <1>2, SameConsole
  <1>3. ASSUME NEW t \in Task, ClicksOn(t), ~SelectCard(t)
        PROVE  ConsoleShowsARunningTask'
    <2>1. CASE ClickOnCard(t) \/ ClickOnQueueRow(t) \/ ClickOnHistoryRow(t) \/ DeleteRow(t)
      <3>1. \E rq : Clicked(rq)
        BY <2>1 DEF ClickOnCard, ClickOnQueueRow, ClickOnHistoryRow, DeleteRow
      <3> QED BY <1>2, <3>1 DEF Clicked, controls
    <2>2. CASE duplicateTask(t) \/ editTask(t) \/ handleDragStart(t) \/ toggleTaskForBatchDelete(t)
      BY <1>2, <2>2
         DEF duplicateTask, editTask, OpenFor, handleDragStart, toggleTaskForBatchDelete, Control
    <2> QED BY <1>3, <2>1, <2>2 DEF ClicksOn
  <1>4. CASE \E tb \in Tab : SwitchTab(tb)
    BY <1>2, <1>4 DEF SwitchTab, Control
  <1>5. CASE openNewTaskModal \/ CloseDialog \/ DragEnd \/ ToggleBatchMode
    BY <1>2, <1>5 DEF openNewTaskModal, CloseDialog, DragEnd, ToggleBatchMode, Control
  <1>6. CASE submitTask \/ batchDeleteTasks
    BY <1>2, <1>6 DEF submitTask, batchDeleteTasks, controls
  <1>7. CASE DragOver
    BY <1>2, <1>7 DEF DragOver, handleDragOver, Control
  <1>8. CASE \E q \in Queue : handleDrop(q)
    BY <1>2, <1>8 DEF handleDrop
  <1> QED
    BY <1>1, <1>3, <1>4, <1>5, <1>6, <1>7, <1>8 DEF User

-----------------------------------------------------------------------------
LEMMA BoardInitIInv == BoardInit => BoardIInv
  <1> SUFFICES ASSUME BoardInit PROVE BoardIInv
    OBVIOUS
  <1>1. PICK s \in Starts :
          /\ lists = [NothingListed EXCEPT !["normal"] = s[1], !["running"] = s[2]]
          /\ unused = Task \ ToSet(s[1] \o s[2])
    BY DEF BoardInit
  <1>2. IsList(s[1]) /\ IsList(s[2]) /\ "normal" \in List /\ "running" \in List
    BY StartsAreLists DEF IsList, List, Queue
  <1> DEFINE waiting == [NothingListed EXCEPT !["normal"] = s[1]]
  <1>3. AreLists(waiting)
    BY <1>2, NothingListedFits, ChangedListFits
  <1>4. lists = [waiting EXCEPT !["running"] = s[2]]
    BY <1>1
  <1> HIDE DEF waiting
  <1>5. AreLists(lists)
    BY <1>2, <1>3, <1>4, ChangedListFits
  <1>6. ListsFit
    BY <1>1, <1>5, NothingListedFits DEF ListsFit, BoardInit
  <1>7. CallsFit
    BY DEF CallsFit, BoardInit
  <1>8. EndingsFit
    <2>1. NothingListed["history"] = <<>> /\ lists["history"] = <<>>
      BY <1>1 DEF NothingListed, List
    <2>2. \A l \in List : ToSet(lists[l]) \subseteq ToSet(s[1]) \cup ToSet(s[2])
      <3>1. \A l \in List : lists[l] \in {<<>>, s[1], s[2]}
        BY <1>1 DEF NothingListed
      <3> QED BY <3>1, NoneIsSet
    <2>3. ToSet(s[1] \o s[2]) = ToSet(s[1]) \cup ToSet(s[2])
      BY <1>2, ConcatenatedTasks DEF IsList
    <2>4. \A t \in unused : ~Listed(t, lists)
      BY <1>1, <2>2, <2>3 DEF Listed, In
    <2> QED
      BY <2>1, <2>4, NoneIsSet
         DEF EndingsFit, ServiceFits, ShownFits, ChoiceFits, AllEnded, BoardInit
  <1>9. ConsoleShowsARunningTask
    <2>1. page["running"] = <<>> /\ selected = None
      BY <1>2 DEF BoardInit, NothingListed
    <2> QED BY <2>1 DEF ConsoleShowsARunningTask
  <1> QED
    BY <1>6, <1>7, <1>8, <1>9 DEF BoardIInv

LEMMA BoardInductive == BoardIInv /\ [BoardNext]_boardVars => BoardIInv'
  <1> SUFFICES ASSUME BoardIInv, [BoardNext]_boardVars PROVE BoardIInv'
    OBVIOUS
  <1>1. ListsFit /\ CallsFit /\ EndingsFit /\ ConsoleShowsARunningTask
    BY DEF BoardIInv
  <1>2. CASE Service
    <2>1. ListsFit' /\ CallsFit' /\ UNCHANGED <<page, controls, clicks>>
      BY <1>1, <1>2, ServiceKeeps
    <2>2. ServiceFits' /\ \A u : Ended(u) => Ended(u)'
      BY <1>1, <1>2, ServiceKeepsEndings DEF EndingsFit
    <2>3. answers' = answers
      BY <1>2 DEF Service, Launch, Leaves, Serve
    <2>4. EndingsFit'
      BY <1>1, <2>1, <2>2, <2>3 DEF EndingsFit, ShownFits, ChoiceFits, AllEnded, controls
    <2>5. ConsoleShowsARunningTask'
      BY <1>1, <2>1, SameConsole DEF controls
    <2> QED BY <2>1, <2>4, <2>5 DEF BoardIInv
  <1>3. CASE Handlers
    <2>1. /\ CallsFit' /\ UNCHANGED <<lists, unused, page, answers, tab, selected>>
          /\ batch' \in {batch, NotChoosing}
      BY <1>1, <1>3, HandlersKeep
    <2>2. EndingsFit'
      BY <1>1, <2>1, SameChoice, SameEndings DEF NotChoosing
    <2>3. ListsFit'
      BY <1>1, <2>1 DEF ListsFit
    <2>4. ConsoleShowsARunningTask'
      BY <1>1, <2>1, SameConsole
    <2> QED BY <2>1, <2>2, <2>3, <2>4 DEF BoardIInv
  <1>4. CASE Refreshes
    <2>1. /\ ListsFit' /\ CallsFit' /\ UNCHANGED <<tab, batch, lists, unused>>
          /\ UNCHANGED <<page, selected>> \/ selected' = Followed(page', selected)
      BY <1>1, <1>4, RefreshesKeep
    <2>2. AreLists(page')
      BY <2>1 DEF ListsFit
    <2>3. ConsoleShowsARunningTask'
      BY <1>1, <2>1, <2>2, SameConsole, FollowedConsole
    <2>4. page' \in answers \cup {page} /\ answers' \subseteq answers \cup {lists}
      BY <1>4 DEF Refreshes, AnswerRefresh, ApplyRefresh
    <2>5. \A u : Ended(u) <=> Ended(u)'
      BY <2>1 DEF Ended, WaitsIn, In
    <2>6. ShownFits' /\ ServiceFits'
      BY <1>1, <2>1, <2>4, <2>5 DEF EndingsFit, ShownFits, ServiceFits, AllEnded, Listed, In
    <2>7. ChoiceFits'
      BY <1>1, <2>1, SameChoice
    <2> QED BY <2>1, <2>3, <2>6, <2>7 DEF BoardIInv, EndingsFit
  <1>5. CASE User
    <2>1. CallsFit' /\ UNCHANGED <<lists, unused, page, answers>>
      BY <1>1, <1>5, UserKeeps DEF StartsWell
    <2>2. ListsFit'
      BY <1>1, <2>1 DEF ListsFit
    <2>3. EndingsFit'
      BY <1>1, <1>5, <2>1, UserKeepsChoice, SameEndings
    <2>4. ConsoleShowsARunningTask'
      BY <1>1, <1>5, <2>1, UserKeepsConsole
    <2> QED BY <2>1, <2>2, <2>3, <2>4 DEF BoardIInv
  <1>6. CASE UNCHANGED boardVars
    <2>1. UNCHANGED <<lists, unused, page, answers, calls, tab, batch, selected>>
      BY <1>6 DEF boardVars, service, controls
    <2>2. ListsFit' /\ CallsFit'
      BY <1>1, <2>1 DEF ListsFit, CallsFit
    <2>3. EndingsFit'
      BY <1>1, <2>1, SameChoice, SameEndings
    <2>4. ConsoleShowsARunningTask'
      BY <1>1, <2>1, SameConsole
    <2> QED BY <2>2, <2>3, <2>4 DEF BoardIInv
  <1> QED
    BY <1>2, <1>3, <1>4, <1>5, <1>6 DEF BoardNext

\* Whatever the user clicks and in whichever order answers come, no list has a task
\* twice, every call asks for something the service can make sense of, what a history list
\* shows has ended, and the console fits the page.
THEOREM BoardInvariance == BoardSpec => []BoardIInv
  BY BoardInitIInv, BoardInductive, PTL DEF BoardSpec

\* The console shows a task that runs whenever the page shows one that runs.
THEOREM ConsoleFollows == BoardSpec => []ConsoleShowsARunningTask
  <1>1. BoardIInv => ConsoleShowsARunningTask
    BY DEF BoardIInv
  <1> QED
    BY <1>1, BoardInvariance, PTL

\* Whatever lists are shown and whatever was chosen before, a deletion asked for on the
\* history page is of a task that has ended at the service.
THEOREM HistoryDeletionsSpareWork == BoardSpec => HistoryDeletionsAreOfEndedTasks
  <1> DEFINE Spares == clicks' # clicks /\ tab = "history" =>
                         \A c \in calls' \ calls : \A rq \in c.sent :
                            rq.op = "delete" => Ended(rq.task)
  <1>1. BoardIInv /\ [BoardNext]_boardVars => [Spares]_boardVars
    <2> SUFFICES ASSUME BoardIInv, [BoardNext]_boardVars PROVE Spares
      OBVIOUS
    <2>1. ListsFit /\ CallsFit /\ EndingsFit
      BY DEF BoardIInv
    <2>2. CASE User
      BY <2>1, <2>2, DeletionsSent
    <2>3. CASE Service
      BY <2>1, <2>3, ServiceKeeps
    <2>4. CASE Handlers
      BY <2>1, <2>4, HandlersKeep
    <2>5. CASE Refreshes
      BY <2>1, <2>5, RefreshesKeep
    <2>6. CASE UNCHANGED boardVars
      BY <2>6 DEF boardVars
    <2> QED BY <2>2, <2>3, <2>4, <2>5, <2>6 DEF BoardNext
  <1> HIDE DEF Spares
  <1>2. BoardSpec => [][Spares]_boardVars
    BY <1>1, BoardInvariance, PTL DEF BoardSpec
  <1> QED
    BY <1>2 DEF HistoryDeletionsAreOfEndedTasks, Spares

\* A drop asks for the list that was shown with the dragged task beside the row it was
\* dropped on, and with nothing else moved, lost or doubled.
THEOREM DropsLandWell == BoardSpec => DropsLandBesideTheirRow
  <1> DEFINE Lands == clicks' # clicks => \A c \in calls' \ calls : DropFits(c)
  <1>1. BoardIInv /\ [BoardNext]_boardVars => [Lands]_boardVars
    <2> SUFFICES ASSUME BoardIInv, [BoardNext]_boardVars PROVE Lands
      OBVIOUS
    <2>1. ListsFit /\ CallsFit
      BY DEF BoardIInv
    <2>2. CASE User
      BY <2>1, <2>2, UserKeeps DEF StartsWell
    <2>3. CASE Service
      BY <2>1, <2>3, ServiceKeeps
    <2>4. CASE Handlers
      BY <2>1, <2>4, HandlersKeep
    <2>5. CASE Refreshes
      BY <2>1, <2>5, RefreshesKeep
    <2>6. CASE UNCHANGED boardVars
      BY <2>6 DEF boardVars
    <2> QED BY <2>2, <2>3, <2>4, <2>5, <2>6 DEF BoardNext
  <1> HIDE DEF Lands
  <1>2. BoardSpec => [][Lands]_boardVars
    BY <1>1, BoardInvariance, PTL DEF BoardSpec
  <1> QED
    BY <1>2 DEF DropsLandBesideTheirRow, Lands, DropFits
==============================================================================
