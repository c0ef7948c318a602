----------------------------- MODULE Page_proofs -----------------------------
(* Proofs about what the page shows of the service: its lists and drafts     *)
(* (PageFeed) and the console and log viewer of a task (LogStream), for any  *)
(* GPUs, filters and outputs, any width of the screen and length of the      *)
(* queue, and any number of refreshes, changes, clicks and faults.           *)
EXTENDS PageFeed, LogStream, SequenceTheorems, WellFoundedInduction, TLAPS

-----------------------------------------------------------------------------
(* The choice of GPUs and its flag.  The invariant is inductive as it stands: *)
(* every handler that changes one of the three writes the other two with it,  *)
(* and TakesAllowed decides by the flag of before, which was true by then.    *)

\* A draft that a refresh finds stays, and is one only while it differs.
LEMMA TakesAllowedKeeps ==
    ASSUME DraftFlagIsTrue, NEW S, TakesAllowed(S)
    PROVE  DraftFlagIsTrue'
  <1>1. CASE draftRef
    <2>1. enabled' = enabled /\ applied' = S /\ draftRef' = (enabled # S)
      BY <1>1 DEF TakesAllowed, DraftFlagIsTrue, hasGpuSettingsDraft
    <2> QED BY <2>1 DEF DraftFlagIsTrue, hasGpuSettingsDraft
  <1>2. CASE ~draftRef
    <2>1. enabled' = S /\ applied' = S /\ draftRef' = FALSE
      BY <1>2 DEF TakesAllowed
    <2> QED BY <1>2, <2>1 DEF DraftFlagIsTrue, hasGpuSettingsDraft
  <1> QED
    BY <1>1, <1>2

LEMMA SameDraftKeeps ==
    ASSUME DraftFlagIsTrue, UNCHANGED gpuDraft
    PROVE  DraftFlagIsTrue'
  BY DEF DraftFlagIsTrue, hasGpuSettingsDraft, gpuDraft

\* A refresh that fails, or that is only answered, touches no choice.
LEMMA FeedKeeps ==
    ASSUME DraftFlagIsTrue, NEW r \in Refresh, Feed(r)
    PROVE  DraftFlagIsTrue'
  <1>1. CASE TimerFires(r) \/ EventArrives(r)
    BY <1>1, SameDraftKeeps DEF TimerFires, EventArrives, Answered
  <1>2. CASE RefreshFails(r)
    BY <1>2, SameDraftKeeps DEF RefreshFails
  <1>3. CASE ApplyRefresh(r)
    BY <1>3, TakesAllowedKeeps DEF ApplyRefresh
  <1> QED
    BY <1>1, <1>2, <1>3 DEF Feed

LEMMA ClicksKeep ==
    ASSUME DraftFlagIsTrue, Clicks
    PROVE  DraftFlagIsTrue'
  <1>1. CASE discardGpuSettingsDraft
    BY <1>1 DEF discardGpuSettingsDraft, DraftFlagIsTrue, hasGpuSettingsDraft
  <1>2. CASE applyGpuSettings \/ toggleQueue \/ saveSchedulerSettings
    BY <1>2, SameDraftKeeps DEF applyGpuSettings, toggleQueue, saveSchedulerSettings, Sends
  <1>3. ASSUME NEW S, updateEnabledGpuDraft(S)
        PROVE  DraftFlagIsTrue'
    BY <1>3 DEF updateEnabledGpuDraft, DraftFlagIsTrue, hasGpuSettingsDraft
  <1>4. ASSUME NEW f \in Filter, ChooseFilter(f)
        PROVE  DraftFlagIsTrue'
    BY <1>4, SameDraftKeeps DEF ChooseFilter
  <1>5. ASSUME NEW f, NEW v, Enters(f, v)
        PROVE  DraftFlagIsTrue'
    BY <1>5, SameDraftKeeps DEF Enters
  <1> QED
    BY <1>1, <1>2, <1>3, <1>4, <1>5
       DEF Clicks, toggleGpu, chooseAllGpus, EditSetting, ToggleSetting

\* The answer to a request for GPUs makes them the choice.
LEMMA RespondKeeps ==
    ASSUME DraftFlagIsTrue, Respond
    PROVE  DraftFlagIsTrue'
  <1>1. CASE call.op = "gpus"
    BY <1>1 DEF Respond, DraftFlagIsTrue, hasGpuSettingsDraft
  <1>2. CASE call.op # "gpus"
    BY <1>2, SameDraftKeeps DEF Respond
  <1> QED
    BY <1>1, <1>2

LEMMA StepKeeps ==
    ASSUME DraftFlagIsTrue, [FeedNext]_feedVars
    PROVE  DraftFlagIsTrue'
  <1>1. CASE ServiceChanges
    BY <1>1, SameDraftKeeps DEF ServiceChanges
  <1>2. CASE SourceFails
    BY <1>2, SameDraftKeeps DEF SourceFails
  <1>3. CASE Serve \/ CallFails
    BY <1>3, SameDraftKeeps DEF Serve, CallFails
  <1>4. CASE Respond
    BY <1>4, RespondKeeps
  <1>5. CASE Clicks
    BY <1>5, ClicksKeep
  <1>6. CASE \E r \in Refresh : Feed(r)
    BY <1>6, FeedKeeps
  <1>7. CASE UNCHANGED feedVars
    BY <1>7, SameDraftKeeps DEF feedVars
  <1> QED
    BY <1>1, <1>2, <1>3, <1>4, <1>5, <1>6, <1>7 DEF FeedNext

-----------------------------------------------------------------------------
\* The ref by which a refresh spares the user's choice of GPUs is set exactly while the
\* choice differs from what was applied, whichever answers come in between.
THEOREM DraftFlagStaysTrue == FeedSpec => []DraftFlagIsTrue
  <1>1. FeedInit => DraftFlagIsTrue
    BY DEF FeedInit, DraftFlagIsTrue, hasGpuSettingsDraft
  <1>2. DraftFlagIsTrue /\ [FeedNext]_feedVars => DraftFlagIsTrue'
    BY StepKeeps
  <1> QED
    BY <1>1, <1>2, PTL DEF FeedSpec

-----------------------------------------------------------------------------
(* Induction over positions, by the least one that is wrong: the decoder and *)
(* the length of the queue are recursive functions of a position.            *)

LEMMA LeastOfNaturals ==
    ASSUME NEW B \in SUBSET Nat, B # {}
    PROVE  \E m \in B : \A n \in B : m <= n
  <1>1. PICK m \in B : \A n \in B : ~ (<<n, m>> \in OpToRel(<, Nat))
    BY NatLessThanWellFounded, WFMin
  <1>2. \A n \in B : m <= n
    <2> SUFFICES ASSUME NEW n \in B, n < m PROVE FALSE
      OBVIOUS
    <2>1. <<n, m>> \in Nat \X Nat /\ <<n, m>>[1] < <<n, m>>[2]
      OBVIOUS
    <2>2. <<n, m>> \in OpToRel(<, Nat)
      BY <2>1 DEF OpToRel
    <2> QED BY <1>1, <2>2
  <1> QED
    BY <1>2

-----------------------------------------------------------------------------
(* The decoder.                                                              *)

\* h is the loop over bytes from start, up to position n, with d before it.
IsLoop(h, bytes, start, n, d) ==
    h = [i \in start .. n |-> IF i = start THEN d ELSE DecodedByte(bytes, i, h[i - 1])]

LEMMA LoopSteps ==
    ASSUME NEW h, NEW bytes, NEW start \in Nat, NEW n \in Nat, NEW d,
           start <= n, IsLoop(h, bytes, start, n, d)
    PROVE  h[start] = d /\ \A i \in start + 1 .. n : h[i] = DecodedByte(bytes, i, h[i - 1])
  <1> DEFINE at(i) == IF i = start THEN d ELSE DecodedByte(bytes, i, h[i - 1])
  <1>1. \A i \in start .. n : h[i] = at(i)
    BY DEF IsLoop
  <1>2. start \in start .. n /\ \A i \in start + 1 .. n : i \in start .. n /\ i # start
    OBVIOUS
  <1> QED
    BY <1>1, <1>2

LEMMA LoopsExist ==
    ASSUME NEW bytes, NEW start \in Nat, NEW n \in Nat, start <= n, NEW d
    PROVE  \E h : IsLoop(h, bytes, start, n, d)
  <1> DEFINE B == {m \in Nat : start <= m /\ ~\E h : IsLoop(h, bytes, start, m, d)}
  <1> SUFFICES ASSUME B # {} PROVE FALSE
    OBVIOUS
  <1>1. PICK m \in B : \A k \in B : m <= k
    <2>1. B \in SUBSET Nat
      OBVIOUS
    <2> HIDE DEF B
    <2> QED BY <2>1, LeastOfNaturals
  <1>2. m \in Nat /\ start <= m /\ ~\E h : IsLoop(h, bytes, start, m, d)
    OBVIOUS
  <1>3. CASE m = start
    <2> DEFINE h == [i \in start .. m |-> d]
    <2>1. h = [i \in start .. m |-> IF i = start THEN d ELSE DecodedByte(bytes, i, h[i - 1])]
      BY <1>3
    <2> HIDE DEF h
    <2>2. IsLoop(h, bytes, start, m, d)
      BY <2>1 DEF IsLoop
    <2> QED BY <1>2, <2>2
  <1>4. CASE m # start
    <2>1. m - 1 \in Nat /\ start <= m - 1 /\ ~(m <= m - 1)
      BY <1>2, <1>4
    <2>2. m - 1 \notin B
      BY <1>1, <2>1
    <2>3. PICK h : IsLoop(h, bytes, start, m - 1, d)
      BY <2>1, <2>2
    <2>4. h[start] = d /\ \A i \in start + 1 .. m - 1 : h[i] = DecodedByte(bytes, i, h[i - 1])
      BY <2>1, <2>3, LoopSteps
    <2> DEFINE last == DecodedByte(bytes, m, h[m - 1])
               k == [i \in start .. m |-> IF i = m THEN last ELSE h[i]]
               at(i) == IF i = start THEN d ELSE DecodedByte(bytes, i, k[i - 1])
    <2>5. \A i \in start .. m : k[i] = at(i)
      <3> SUFFICES ASSUME NEW i \in start .. m PROVE k[i] = at(i)
        OBVIOUS
      <3>1. CASE i = start
        BY <1>2, <1>4, <2>4, <3>1
      <3>2. CASE i # start
        <4>1. i - 1 \in start .. m /\ i - 1 # m
          BY <1>2, <3>2
        <4>2. k[i - 1] = h[i - 1]
          BY <4>1
        <4>3. CASE i = m
          BY <3>2, <4>2, <4>3
        <4>4. CASE i # m
          <5>1. i \in start + 1 .. m - 1
            BY <1>2, <3>2, <4>4
          <5>2. k[i] = h[i]
            BY <4>4
          <5> HIDE DEF k
          <5> QED BY <2>4, <3>2, <4>2, <5>1, <5>2
        <4> QED BY <4>3, <4>4
      <3> QED BY <3>1, <3>2
    <2>6. k = [i \in start .. m |-> k[i]]
      OBVIOUS
    <2> HIDE DEF k
    <2>7. k = [i \in start .. m |-> at(i)]
      <3> HIDE DEF at
      <3> QED BY <2>5, <2>6
    <2>8. IsLoop(k, bytes, start, m, d)
      BY <2>7 DEF IsLoop
    <2> QED BY <1>2, <2>8
  <1> QED
    BY <1>3, <1>4

LEMMA DecodedIsALoop ==
    ASSUME NEW bytes, Len(bytes) \in Nat, NEW start \in Nat, start <= Len(bytes), NEW d
    PROVE  \E h : IsLoop(h, bytes, start, Len(bytes), d) /\ Decoded(bytes, start, d) = h[Len(bytes)]
  <1> DEFINE H == CHOOSE h : IsLoop(h, bytes, start, Len(bytes), d)
  <1>1. IsLoop(H, bytes, start, Len(bytes), d)
    BY LoopsExist
  <1>2. Decoded(bytes, start, d) = H[Len(bytes)]
    BY DEF Decoded, IsLoop
  <1> HIDE DEF H
  <1> QED
    BY <1>1, <1>2

\* h follows the bytes after position first up to position last.
Follows(h, bytes, first, last) ==
    \A i \in first + 1 .. last : h[i] = DecodedByte(bytes, i, h[i - 1])

\* The bytes of b after position first up to last read as those that are m further on in a.
ReadAlike(a, m, b, first, last) ==
    \A i \in first + 1 .. last : \A d : DecodedByte(a, m + i, d) = DecodedByte(b, i, d)

\* u is m after p.
Further(m, p, u) == u = m + p

\* Two loops that agree at a position go on alike while their bytes read alike.
LEMMA LoopsAgree ==
    ASSUME NEW a, NEW b, NEW m \in Nat, NEW p \in Nat, NEW q \in Nat, p <= q,
           NEW u, NEW v, Further(m, p, u), Further(m, q, v),
           NEW h, NEW k, h[u] = k[p],
           Follows(h, a, u, v), Follows(k, b, p, q), ReadAlike(a, m, b, p, q)
    PROVE  h[v] = k[q]
  <1>0. u = m + p /\ v = m + q
    BY DEF Further
  <1> DEFINE B == {j \in p .. q : h[m + j] # k[j]}
  <1> SUFFICES ASSUME B # {} PROVE FALSE
    BY <1>0
  <1>1. PICK j \in B : \A l \in B : j <= l
    <2>1. B \in SUBSET Nat
      OBVIOUS
    <2> HIDE DEF B
    <2> QED BY <2>1, LeastOfNaturals
  <1>2. j \in p + 1 .. q /\ j - 1 \in p .. q /\ ~(j <= j - 1)
    BY <1>0
  <1>3. m + j \in u + 1 .. v /\ m + j - 1 = m + (j - 1)
    BY <1>0, <1>2
  <1>4. h[m + (j - 1)] = k[j - 1]
    BY <1>1, <1>2
  <1>5. h[m + j] = DecodedByte(a, m + j, h[m + (j - 1)])
    <2> DEFINE x == m + j
    <2>1. x \in u + 1 .. v /\ x - 1 = m + (j - 1)
      BY <1>3
    <2> HIDE DEF x
    <2>2. h[x] = DecodedByte(a, x, h[x - 1])
      BY <2>1 DEF Follows
    <2> QED BY <2>1, <2>2 DEF x
  <1>6. k[j] = DecodedByte(b, j, k[j - 1])
    BY <1>2 DEF Follows
  <1>7. DecodedByte(a, m + j, k[j - 1]) = DecodedByte(b, j, k[j - 1])
    BY <1>2 DEF ReadAlike
  <1> QED
    BY <1>1, <1>4, <1>5, <1>6, <1>7

\* What the decoder keeps between chunks, and that no carriage return waits in it.
IsDecoder(d) == d = [cr |-> d.cr, width |-> d.width, ansi |-> d.ansi, shown |-> d.shown]
NothingWaits(d) == IsDecoder(d) /\ d.cr = FALSE

LEMMA NothingWaitsAfterALine ==
    ASSUME NEW d
    PROVE  NothingWaits(NewLine(d)) /\ NothingWaits(pushEraseWrappedLine(d))
  BY DEF NothingWaits, IsDecoder, NewLine, pushEraseWrappedLine

\* Before the last byte of a chunk no carriage return waits.
LEMMA NothingWaitsInside ==
    ASSUME NEW bytes, NEW i, i # Len(bytes) \/ bytes[i] # "cr", NEW d, NothingWaits(d)
    PROVE  NothingWaits(DecodedByte(bytes, i, d))
  <1>1. PICK w, a, s : d = [cr |-> FALSE, width |-> w, ansi |-> a, shown |-> s]
    BY DEF NothingWaits, IsDecoder
  <1>2. \E x, y, z : trackTerminalCellWidth(bytes[i], d) =
                        [cr |-> FALSE, width |-> x, ansi |-> y, shown |-> z]
    <2> DEFINE x == IF d.ansi = "normal" THEN NextWidth(d.width, bytes[i]) ELSE d.width
               y == NextAnsi(d.ansi, bytes[i])
               z == Append(d.shown, bytes[i])
    <2>1. trackTerminalCellWidth(bytes[i], d) = [d EXCEPT !.shown = z, !.ansi = y, !.width = x]
      BY <1>1 DEF trackTerminalCellWidth
    <2> HIDE DEF x, y, z
    <2> QED BY <1>1, <2>1
  <1>3. NothingWaits(trackTerminalCellWidth(bytes[i], d))
    BY <1>2 DEF NothingWaits, IsDecoder
  <1> QED
    BY <1>3, NothingWaitsAfterALine DEF DecodedByte

LEMMA NothingWaitsInALoop ==
    ASSUME NEW bytes, Len(bytes) \in Nat, NEW start \in Nat, start <= Len(bytes),
           NEW d, NothingWaits(d), NEW h, IsLoop(h, bytes, start, Len(bytes), d),
           NEW i \in start .. Len(bytes), i # Len(bytes) \/ i = start \/ bytes[i] # "cr"
    PROVE  NothingWaits(h[i])
  <1> DEFINE B == {j \in start .. i : ~NothingWaits(h[j])}
  <1>1. h[start] = d /\ \A j \in start + 1 .. Len(bytes) : h[j] = DecodedByte(bytes, j, h[j - 1])
    <2> DEFINE n == Len(bytes)
    <2>1. n \in Nat /\ start <= n /\ IsLoop(h, bytes, start, n, d)
      OBVIOUS
    <2> HIDE DEF n
    <2>2. h[start] = d /\ \A j \in start + 1 .. n : h[j] = DecodedByte(bytes, j, h[j - 1])
      BY <2>1, LoopSteps
    <2> QED BY <2>2 DEF n
  <1> SUFFICES ASSUME B # {} PROVE FALSE
    OBVIOUS
  <1>2. PICK j \in B : \A l \in B : j <= l
    <2>1. B \in SUBSET Nat
      OBVIOUS
    <2> HIDE DEF B
    <2> QED BY <2>1, LeastOfNaturals
  <1>3. j # start
    BY <1>1
  <1>4. j \in start + 1 .. Len(bytes) /\ j - 1 \in start .. i /\ ~(j <= j - 1)
        /\ (j # Len(bytes) \/ bytes[j] # "cr")
    BY <1>3
  <1>5. NothingWaits(h[j - 1])
    BY <1>2, <1>4
  <1>6. NothingWaits(h[j])
    BY <1>1, <1>4, <1>5, NothingWaitsInside
  <1> QED
    BY <1>2, <1>6

\* A byte reads in a whole as it does in the piece that it is in, unless it is the last of
\* the first piece or the line feed of a carriage return there.
LEMMA BytesReadAlike ==
    ASSUME NEW S, NEW s \in Seq(S), NEW c \in Seq(S), NEW d
    PROVE  /\ \A i \in 1 .. Len(s) :
                 i # Len(s) \/ s[i] # "cr" => DecodedByte(s \o c, i, d) = DecodedByte(s, i, d)
           /\ \A j \in 1 .. Len(c) :
                 j > 1 \/ c[1] # "lf" \/ Len(s) = 0 \/ s[Len(s)] # "cr"
                    => DecodedByte(s \o c, Len(s) + j, d) = DecodedByte(c, j, d)
  <1> DEFINE w == s \o c
  <1>1. /\ Len(s) \in Nat /\ Len(c) \in Nat /\ Len(w) = Len(s) + Len(c)
        /\ \A i \in 1 .. Len(s) : w[i] = s[i]
        /\ \A j \in 1 .. Len(c) : w[Len(s) + j] = c[j]
    OBVIOUS
  <1> HIDE DEF w
  <1>2. ASSUME NEW i \in 1 .. Len(s), i # Len(s) \/ s[i] # "cr"
        PROVE  DecodedByte(w, i, d) = DecodedByte(s, i, d)
    <2>1. w[i] = s[i] /\ (i > 1 => w[i - 1] = s[i - 1])
      BY <1>1
    <2>2. s[i] = "cr" => i # Len(s) /\ i # Len(w) /\ w[i + 1] = s[i + 1]
      <3> SUFFICES ASSUME s[i] = "cr" PROVE i # Len(s) /\ i # Len(w) /\ w[i + 1] = s[i + 1]
        OBVIOUS
      <3>1. i # Len(s)
        BY <1>2
      <3>2. i + 1 \in 1 .. Len(s) /\ i # Len(w)
        BY <1>1, <3>1
      <3> QED BY <1>1, <3>1, <3>2
    <2> QED BY <2>1, <2>2 DEF DecodedByte
  <1>3. ASSUME NEW j \in 1 .. Len(c), j > 1 \/ c[1] # "lf" \/ Len(s) = 0 \/ s[Len(s)] # "cr"
        PROVE  DecodedByte(w, Len(s) + j, d) = DecodedByte(c, j, d)
    <2>1. w[Len(s) + j] = c[j]
      BY <1>1
    <2>2. j = Len(c) <=> Len(s) + j = Len(w)
      <3> DEFINE m == Len(s)
                 n == Len(c)
                 l == Len(w)
      <3>1. m \in Nat /\ n \in Nat /\ l = m + n /\ j \in 1 .. n
        BY <1>1
      <3> HIDE DEF m, n, l
      <3>2. j = n <=> m + j = l
        BY <3>1
      <3> QED BY <3>2 DEF m, n, l
    <2>3. j # Len(c) => w[Len(s) + j + 1] = c[j + 1]
      <3> SUFFICES ASSUME j # Len(c) PROVE w[Len(s) + j + 1] = c[j + 1]
        OBVIOUS
      <3>1. j + 1 \in 1 .. Len(c) /\ Len(s) + j + 1 = Len(s) + (j + 1)
        BY <1>1
      <3> QED BY <1>1, <3>1
    <2>4. c[j] = "lf" => (w[Len(s) + j] = "lf" /\ Len(s) + j > 1 /\ w[Len(s) + j - 1] = "cr"
                          <=> c[j] = "lf" /\ j > 1 /\ c[j - 1] = "cr")
      <3>1. CASE j > 1
        <4>1. j - 1 \in 1 .. Len(c) /\ Len(s) + j - 1 = Len(s) + (j - 1) /\ Len(s) + j > 1
          BY <1>1, <3>1
        <4> QED BY <1>1, <2>1, <3>1, <4>1
      <3>2. CASE j = 1
        <4>1. Len(s) # 0 => Len(s) \in 1 .. Len(s)
          BY <1>1
        <4> QED BY <1>1, <1>3, <3>2, <4>1
      <3> QED BY <3>1, <3>2
    <2> QED BY <2>1, <2>2, <2>3, <2>4 DEF DecodedByte
  <1> QED
    BY <1>2, <1>3 DEF w

\* A carriage return that waits does not change what comes of the line.
LEMMA WaitingKeepsTheLine ==
    ASSUME NEW d, NothingWaits(d)
    PROVE  LET e == [d EXCEPT !.cr = TRUE]
           IN e.cr = TRUE /\ NewLine(e) = NewLine(d) /\ pushEraseWrappedLine(e) = pushEraseWrappedLine(d)
  <1>1. PICK w, a, s : d = [cr |-> FALSE, width |-> w, ansi |-> a, shown |-> s]
    BY DEF NothingWaits, IsDecoder
  <1> DEFINE e == [d EXCEPT !.cr = TRUE]
  <1>2. e = [cr |-> TRUE, width |-> w, ansi |-> a, shown |-> s]
    <2> DEFINE yes == TRUE
               no == FALSE
    <2>1. d = [cr |-> no, width |-> w, ansi |-> a, shown |-> s] /\ e = [d EXCEPT !.cr = yes]
      BY <1>1
    <2> HIDE DEF yes, no, e
    <2>2. e = [cr |-> yes, width |-> w, ansi |-> a, shown |-> s]
      BY <2>1
    <2> QED BY <2>2 DEF yes
  <1> HIDE DEF e
  <1>3. e.cr = TRUE /\ e.width = d.width /\ e.shown = d.shown
    BY <1>1, <1>2
  <1> QED
    BY <1>3 DEF e, NewLine, pushEraseWrappedLine

\* A loop in use: its first value and its steps.
LEMMA Looping ==
    ASSUME NEW bytes, Len(bytes) \in Nat, NEW start \in Nat, start <= Len(bytes), NEW d
    PROVE  \E h : /\ IsLoop(h, bytes, start, Len(bytes), d)
                  /\ Decoded(bytes, start, d) = h[Len(bytes)]
                  /\ h[start] = d
                  /\ Follows(h, bytes, start, Len(bytes))
  <1> DEFINE n == Len(bytes)
  <1>1. PICK h : IsLoop(h, bytes, start, n, d) /\ Decoded(bytes, start, d) = h[n]
    BY DecodedIsALoop
  <1>2. n \in Nat /\ start <= n
    OBVIOUS
  <1> HIDE DEF n
  <1>3. h[start] = d /\ \A i \in start + 1 .. n : h[i] = DecodedByte(bytes, i, h[i - 1])
    BY <1>1, <1>2, LoopSteps
  <1> QED
    BY <1>1, <1>3 DEF n, Follows

LEMMA LoopInPieces ==
    ASSUME NEW S, NEW s \in Seq(S), NEW c \in Seq(S), c # <<>>,
           NEW start \in 0 .. Len(s), start = Len(s) => Len(s) = 0 \/ s[Len(s)] # "cr",
           NEW d, NothingWaits(d)
    PROVE  Decoded(s \o c, start, d) = decodeTerminalBytes(c, Decoded(s, start, d))
  <1> DEFINE w == s \o c
             n == Len(s)
             m == Len(c)
             l == Len(w)
  <1>1. /\ n \in Nat /\ m \in Nat /\ l \in Nat /\ m >= 1 /\ l = n + m
        /\ start \in Nat /\ start <= n /\ start <= l
        /\ \A i \in 1 .. n : w[i] = s[i]
        /\ \A j \in 1 .. m : w[n + j] = c[j]
    OBVIOUS
  <1>2. ASSUME NEW e
        PROVE  /\ \A i \in 1 .. n : i # n \/ s[i] # "cr" => DecodedByte(w, i, e) = DecodedByte(s, i, e)
               /\ \A j \in 1 .. m : j > 1 \/ c[1] # "lf" \/ n = 0 \/ s[n] # "cr"
                                      => DecodedByte(w, n + j, e) = DecodedByte(c, j, e)
    BY BytesReadAlike
  <1>3. n = Len(s) /\ m = Len(c) /\ l = Len(w) /\ (start = n => n = 0 \/ s[n] # "cr")
    OBVIOUS
  <1> HIDE DEF w, n, m, l
  <1>4. PICK h : Decoded(w, start, d) = h[l] /\ h[start] = d /\ Follows(h, w, start, l)
    <2>1. Len(w) \in Nat /\ start <= Len(w)
      BY <1>1, <1>3
    <2>2. \E h : /\ Decoded(w, start, d) = h[Len(w)]
                 /\ h[start] = d
                 /\ Follows(h, w, start, Len(w))
      BY <1>1, <2>1, Looping
    <2> QED BY <1>3, <2>2
  <1>5. PICK k : /\ IsLoop(k, s, start, n, d)
                 /\ Decoded(s, start, d) = k[n]
                 /\ k[start] = d
                 /\ Follows(k, s, start, n)
    BY <1>1, <1>3, Looping
  <1>6. ASSUME NEW i \in start .. n, i # n \/ i = start \/ s[n] # "cr"
        PROVE  h[i] = k[i] /\ NothingWaits(k[i])
    <2> DEFINE none == 0
    <2>1. /\ none \in Nat /\ i \in Nat /\ start <= i
          /\ Further(none, start, start) /\ Further(none, i, i)
          /\ \A j \in start + 1 .. i : none + j = j /\ j \in 1 .. n /\ (j # n \/ s[j] # "cr")
      BY <1>1, <1>6 DEF Further
    <2> HIDE DEF none
    <2>2. ReadAlike(w, none, s, start, i)
      BY <1>2, <2>1 DEF ReadAlike
    <2>3. Follows(h, w, start, i) /\ Follows(k, s, start, i)
      BY <1>1, <1>4, <1>5, <2>1 DEF Follows
    <2>4. h[start] = k[start]
      BY <1>4, <1>5
    <2>5. h[i] = k[i]
      BY <1>1, <2>1, <2>2, <2>3, <2>4, LoopsAgree
    <2>6. NothingWaits(k[i])
      BY <1>1, <1>3, <1>5, <1>6, NothingWaitsInALoop
    <2> QED BY <2>1, <2>5, <2>6
  \* The second piece goes on from where the first one stopped.
  <1>7. ASSUME NEW p \in {0, 1}, NEW e, h[n + p] = e,
               p = 1 \/ c[1] # "lf" \/ n = 0 \/ s[n] # "cr"
        PROVE  h[l] = Decoded(c, p, e)
    <2>1. p \in Nat /\ p <= m /\ m = Len(c)
      BY <1>1, <1>3
    <2>2. PICK g : Decoded(c, p, e) = g[m] /\ g[p] = e /\ Follows(g, c, p, m)
      BY <1>1, <2>1, Looping
    <2>3. \A i \in p + 1 .. m : i \in 1 .. m /\ (i > 1 \/ c[1] # "lf" \/ n = 0 \/ s[n] # "cr")
      BY <1>1, <1>7
    <2>4. ReadAlike(w, n, c, p, m)
      BY <1>2, <2>3 DEF ReadAlike
    <2> DEFINE u == n + p
    <2>5. Further(n, p, u) /\ Further(n, m, l) /\ h[u] = g[p]
          /\ \A i \in u + 1 .. l : i \in start + 1 .. l
      BY <1>1, <1>7, <2>1, <2>2 DEF Further
    <2> HIDE DEF u
    <2>6. Follows(h, w, u, l)
      BY <1>4, <2>5 DEF Follows
    <2>7. h[l] = g[m]
      BY <1>1, <2>1, <2>2, <2>4, <2>5, <2>6, LoopsAgree
    <2> QED BY <2>2, <2>7
  <1>8. c # <<>>
    OBVIOUS
  <1>9. CASE start = n \/ s[n] # "cr"
    <2>1. h[n] = k[n] /\ NothingWaits(k[n])
      BY <1>1, <1>6, <1>9
    <2>2. decodeTerminalBytes(c, k[n]) = Decoded(c, 0, k[n])
      BY <2>1 DEF decodeTerminalBytes, NothingWaits
    <2>3. h[n + 0] = k[n] /\ (c[1] # "lf" \/ n = 0 \/ s[n] # "cr")
      BY <1>1, <1>3, <1>9, <2>1
    <2>4. h[l] = Decoded(c, 0, k[n])
      BY <1>7, <2>3
    <2> QED BY <1>4, <1>5, <2>2, <2>4 DEF w
  <1>10. CASE start # n /\ s[n] = "cr"
    <2> DEFINE e == k[n - 1]
    <2>1. n - 1 \in start .. n /\ n - 1 # n /\ n \in start + 1 .. n /\ n \in start + 1 .. l
          /\ n \in 1 .. n /\ 1 \in 1 .. m /\ n # l /\ n + 1 \in start + 1 .. l
      BY <1>1, <1>10
    <2>2. h[n - 1] = e /\ NothingWaits(e)
      BY <1>6, <2>1
    <2>3. k[n] = [e EXCEPT !.cr = TRUE]
      BY <1>3, <1>5, <1>10, <2>1 DEF DecodedByte, Follows
    <2>4. k[n].cr = TRUE /\ NewLine(k[n]) = NewLine(e)
          /\ pushEraseWrappedLine(k[n]) = pushEraseWrappedLine(e)
      BY <2>2, <2>3, WaitingKeepsTheLine
    <2>5. w[n] = "cr" /\ w[n + 1] = c[1]
      BY <1>1, <1>10, <2>1
    <2>6. h[n] = IF c[1] = "lf" THEN NewLine(e) ELSE pushEraseWrappedLine(e)
      <3>1. h[n] = DecodedByte(w, n, e)
        BY <1>4, <2>1, <2>2 DEF Follows
      <3> HIDE DEF e
      <3> QED BY <1>3, <2>1, <2>5, <3>1 DEF DecodedByte
    <2>7. CASE c[1] = "lf"
      <3> DEFINE x == n + 1
      <3>1. x \in start + 1 .. l /\ x - 1 = n /\ x > 1 /\ w[x] = "lf" /\ w[n] = "cr"
        BY <1>1, <2>1, <2>5, <2>7
      <3> HIDE DEF x
      <3>2. h[x] = h[n]
        BY <1>4, <3>1 DEF Follows, DecodedByte
      <3>3. h[l] = Decoded(c, 1, NewLine(e))
        BY <1>7, <2>6, <2>7, <3>2 DEF x
      <3>4. decodeTerminalBytes(c, k[n]) = Decoded(c, 1, NewLine(e))
        BY <1>8, <2>4, <2>7 DEF decodeTerminalBytes
      <3> QED BY <1>4, <1>5, <3>3, <3>4 DEF w
    <2>8. CASE c[1] # "lf"
      <3>1. h[n + 0] = pushEraseWrappedLine(e)
        BY <1>1, <2>6, <2>8
      <3>2. h[l] = Decoded(c, 0, pushEraseWrappedLine(e))
        BY <1>7, <2>8, <3>1
      <3>3. decodeTerminalBytes(c, k[n]) = Decoded(c, 0, pushEraseWrappedLine(e))
        BY <1>8, <2>4, <2>8 DEF decodeTerminalBytes
      <3> QED BY <1>4, <1>5, <3>2, <3>3 DEF w
    <2> QED BY <2>7, <2>8
  <1> QED
    BY <1>9, <1>10

\* A chunk may be cut anywhere: what the decoder gives out for its pieces, one after the
\* other, is what it gives out for the whole (decodeTerminalBytes).
THEOREM ChunksMayBeCut ==
    ASSUME NEW S, NEW s \in Seq(S), NEW c \in Seq(S),
           NEW d, IsDecoder(d), d.cr \in BOOLEAN
    PROVE  decodeTerminalBytes(s \o c, d) = decodeTerminalBytes(c, decodeTerminalBytes(s, d))
  <1>1. \A e : decodeTerminalBytes(<<>>, e) = e
    <2> TAKE e
    <2> DEFINE none == <<>>
               start == 0
    <2>0. Len(none) = start
      OBVIOUS
    <2>1. Len(none) \in Nat /\ start \in Nat /\ start <= Len(none)
      OBVIOUS
    <2>2. decodeTerminalBytes(none, e) = Decoded(none, start, e)
      BY DEF decodeTerminalBytes
    <2> HIDE DEF none, start
    <2>3. PICK h : Decoded(none, start, e) = h[Len(none)] /\ h[start] = e
      BY <2>1, Looping
    <2> QED BY <2>0, <2>2, <2>3 DEF none
  <1>2. CASE c = <<>>
    <2>1. s \o c = s
      BY <1>2
    <2> QED BY <1>1, <1>2, <2>1
  <1>3. CASE s = <<>>
    <2>1. s \o c = c
      BY <1>3
    <2> QED BY <1>1, <1>3, <2>1
  <1>4. CASE s # <<>> /\ c # <<>>
    <2> DEFINE w == s \o c
    <2>1. w # <<>> /\ w[1] = s[1] /\ Len(s) \in Nat /\ Len(s) >= 1
      BY <1>4
    <2>2. 0 \in 0 .. Len(s) /\ 1 \in 0 .. Len(s) /\ 0 # Len(s)
      BY <2>1
    <2>3. ASSUME NEW start \in 0 .. Len(s), start = Len(s) => Len(s) = 0 \/ s[Len(s)] # "cr",
                 NEW e, NothingWaits(e)
          PROVE  Decoded(w, start, e) = decodeTerminalBytes(c, Decoded(s, start, e))
      BY <1>4, <2>3, LoopInPieces
    <2> HIDE DEF w
    <2>4. CASE ~d.cr
      <3>1. NothingWaits(d)
        BY <2>4 DEF NothingWaits
      <3>2. Decoded(w, 0, d) = decodeTerminalBytes(c, Decoded(s, 0, d))
        BY <2>2, <2>3, <3>1
      <3> QED BY <2>4, <3>2 DEF w, decodeTerminalBytes
    <2>5. CASE d.cr /\ s[1] = "lf"
      <3>1. 1 = Len(s) => s[Len(s)] # "cr"
        BY <2>5
      <3>2. Decoded(w, 1, NewLine(d)) = decodeTerminalBytes(c, Decoded(s, 1, NewLine(d)))
        BY <2>2, <2>3, <3>1, NothingWaitsAfterALine
      <3>3. /\ decodeTerminalBytes(w, d) = Decoded(w, 1, NewLine(d))
            /\ decodeTerminalBytes(s, d) = Decoded(s, 1, NewLine(d))
        BY <1>4, <2>1, <2>5 DEF decodeTerminalBytes
      <3> QED BY <3>2, <3>3 DEF w
    <2>6. CASE d.cr /\ s[1] # "lf"
      <3>1. Decoded(w, 0, pushEraseWrappedLine(d)) =
                decodeTerminalBytes(c, Decoded(s, 0, pushEraseWrappedLine(d)))
        BY <2>2, <2>3, NothingWaitsAfterALine
      <3>2. /\ decodeTerminalBytes(w, d) = Decoded(w, 0, pushEraseWrappedLine(d))
            /\ decodeTerminalBytes(s, d) = Decoded(s, 0, pushEraseWrappedLine(d))
        BY <1>4, <2>1, <2>6 DEF decodeTerminalBytes
      <3> QED BY <3>1, <3>2 DEF w
    <2> QED BY <2>4, <2>5, <2>6
  <1> QED
    BY <1>2, <1>3, <1>4

-----------------------------------------------------------------------------
(* How much is queued.                                                       *)

\* h has the sums of the first chunks of q, up to n of them.
IsTotal(h, q, n) == h = [i \in 0 .. n |-> IF i = 0 THEN 0 ELSE h[i - 1] + q[i]]

LEMMA TotalSteps ==
    ASSUME NEW h, NEW q, NEW n \in Nat, IsTotal(h, q, n)
    PROVE  h[0] = 0 /\ \A i \in 1 .. n : h[i] = h[i - 1] + q[i]
  <1> DEFINE at(i) == IF i = 0 THEN 0 ELSE h[i - 1] + q[i]
  <1>1. \A i \in 0 .. n : h[i] = at(i)
    BY DEF IsTotal
  <1>2. 0 \in 0 .. n /\ \A i \in 1 .. n : i \in 0 .. n /\ i # 0
    OBVIOUS
  <1> QED
    BY <1>1, <1>2

LEMMA TotalsExist ==
    ASSUME NEW q, NEW n \in Nat
    PROVE  \E h : IsTotal(h, q, n)
  <1> DEFINE B == {m \in Nat : ~\E h : IsTotal(h, q, m)}
  <1> SUFFICES ASSUME B # {} PROVE FALSE
    OBVIOUS
  <1>1. PICK m \in B : \A k \in B : m <= k
    <2>1. B \in SUBSET Nat
      OBVIOUS
    <2> HIDE DEF B
    <2> QED BY <2>1, LeastOfNaturals
  <1>2. m \in Nat /\ ~\E h : IsTotal(h, q, m)
    OBVIOUS
  <1>3. CASE m = 0
    <2> DEFINE h == [i \in 0 .. m |-> 0]
    <2>1. h = [i \in 0 .. m |-> IF i = 0 THEN 0 ELSE h[i - 1] + q[i]]
      BY <1>3
    <2> HIDE DEF h
    <2>2. IsTotal(h, q, m)
      BY <2>1 DEF IsTotal
    <2> QED BY <1>2, <2>2
  <1>4. CASE m # 0
    <2>1. m - 1 \in Nat /\ ~(m <= m - 1)
      BY <1>2, <1>4
    <2>2. m - 1 \notin B
      BY <1>1, <2>1
    <2>3. PICK h : IsTotal(h, q, m - 1)
      BY <2>1, <2>2
    <2>4. h[0] = 0 /\ \A i \in 1 .. m - 1 : h[i] = h[i - 1] + q[i]
      BY <2>1, <2>3, TotalSteps
    <2> DEFINE last == h[m - 1] + q[m]
               k == [i \in 0 .. m |-> IF i = m THEN last ELSE h[i]]
               at(i) == IF i = 0 THEN 0 ELSE k[i - 1] + q[i]
    <2>5. \A i \in 0 .. m : k[i] = at(i)
      <3> SUFFICES ASSUME NEW i \in 0 .. m PROVE k[i] = at(i)
        OBVIOUS
      <3>1. CASE i = 0
        BY <1>2, <1>4, <2>4, <3>1
      <3>2. CASE i # 0
        <4>1. i - 1 \in 0 .. m /\ i - 1 # m
          BY <1>2, <3>2
        <4>2. k[i - 1] = h[i - 1]
          BY <4>1
        <4>3. CASE i = m
          BY <3>2, <4>2, <4>3
        <4>4. CASE i # m
          <5>1. i \in 1 .. m - 1
            BY <1>2, <3>2, <4>4
          <5>2. k[i] = h[i]
            BY <4>4
          <5> HIDE DEF k
          <5> QED BY <2>4, <3>2, <4>2, <5>1, <5>2
        <4> QED BY <4>3, <4>4
      <3> QED BY <3>1, <3>2
    <2>6. k = [i \in 0 .. m |-> k[i]]
      OBVIOUS
    <2> HIDE DEF k
    <2>7. k = [i \in 0 .. m |-> at(i)]
      <3> HIDE DEF at
      <3> QED BY <2>5, <2>6
    <2>8. IsTotal(k, q, m)
      BY <2>7 DEF IsTotal
    <2> QED BY <1>2, <2>8
  <1> QED
    BY <1>3, <1>4

\* k adds up the first n chunks of r; h adds them to what it is at m.
AddsUp(k, r, n) == k[0] = 0 /\ \A i \in 1 .. n : k[i] = k[i - 1] + r[i]
AddsOn(h, m, r, n) == \A i \in 1 .. n : h[m + i] = h[m + (i - 1)] + r[i]

\* The sums of q from its m-th chunk on are those of r, a sequence that reads like it there,
\* and what came before.
LEMMA TotalsAgree ==
    ASSUME NEW m \in Nat, NEW n \in Nat, NEW r \in Seq(Nat), n <= Len(r), NEW h, NEW k, h[m] \in Nat,
           AddsUp(k, r, n), AddsOn(h, m, r, n)
    PROVE  k[n] \in Nat /\ h[m + n] = h[m] + k[n]
  <1> DEFINE good(j) == k[j] \in Nat /\ h[m + j] = h[m] + k[j]
             B == {j \in 0 .. n : ~good(j)}
  <1> SUFFICES ASSUME B # {} PROVE FALSE
    <2>1. n \in 0 .. n
      OBVIOUS
    <2>2. SUFFICES good(n)
      OBVIOUS
    <2> HIDE DEF good
    <2> QED BY <2>1
  <1>1. PICK j \in B : \A l \in B : j <= l
    <2>1. B \in SUBSET Nat
      OBVIOUS
    <2> HIDE DEF B
    <2> QED BY <2>1, LeastOfNaturals
  <1>2. j # 0
    BY DEF AddsUp
  <1>3. j \in 1 .. n /\ j - 1 \in 0 .. n /\ ~(j <= j - 1) /\ r[j] \in Nat
    <2>1. j \in 1 .. n /\ j - 1 \in 0 .. n /\ ~(j <= j - 1)
      BY <1>2
    <2>2. j \in 1 .. Len(r)
      BY <2>1
    <2>3. r[j] \in Nat
      BY <2>2, ElementOfSeq
    <2> QED BY <2>1, <2>3
  <1>4. k[j - 1] \in Nat /\ h[m + (j - 1)] = h[m] + k[j - 1]
    BY <1>1, <1>3
  <1>5. k[j] = k[j - 1] + r[j] /\ h[m + j] = h[m + (j - 1)] + r[j]
    BY <1>3 DEF AddsUp, AddsOn
  <1>6. k[j] \in Nat /\ h[m + j] = h[m] + k[j]
    <2> DEFINE x == h[m + (j - 1)]
               y == k[j - 1]
    <2>1. y \in Nat /\ x = h[m] + y /\ k[j] = y + r[j] /\ h[m + j] = x + r[j]
      BY <1>4, <1>5
    <2> DEFINE z == h[m + j]
               k1 == k[j]
               r1 == r[j]
    <2>2. r1 \in Nat /\ k1 = y + r1 /\ z = x + r1
      BY <1>3, <2>1
    <2> HIDE DEF x, y, z, k1, r1
    <2>3. k1 \in Nat /\ z = h[m] + k1
      BY <2>1, <2>2
    <2> QED BY <2>3 DEF z, k1
  <1> QED
    BY <1>6

LEMMA BytesAreATotal ==
    ASSUME NEW q \in Seq(Nat)
    PROVE  \E h : /\ Bytes(q) = h[Len(q)]
                  /\ h[0] = 0
                  /\ \A i \in 1 .. Len(q) : h[i] = h[i - 1] + q[i]
  <1> DEFINE n == Len(q)
             H == CHOOSE h : IsTotal(h, q, n)
  <1>1. n \in Nat
    OBVIOUS
  <1>2. Bytes(q) = H[n]
    BY DEF Bytes, IsTotal
  <1> HIDE DEF n
  <1>3. IsTotal(H, q, n)
    BY <1>1, TotalsExist
  <1> HIDE DEF H
  <1>4. H[0] = 0 /\ \A i \in 1 .. n : H[i] = H[i - 1] + q[i]
    BY <1>1, <1>3, TotalSteps
  <1> QED
    BY <1>2, <1>4 DEF n

LEMMA BytesOfNothing == Bytes(<<>>) = 0
  <1> DEFINE q == <<>>
  <1>1. q \in Seq(Nat) /\ Len(q) = 0
    OBVIOUS
  <1> HIDE DEF q
  <1>2. PICK h : Bytes(q) = h[Len(q)] /\ h[0] = 0
    BY <1>1, BytesAreATotal
  <1> QED
    BY <1>1, <1>2 DEF q

\* One chunk more at the end, one less in front.
LEMMA BytesOfMore ==
    ASSUME NEW q \in Seq(Nat), NEW b \in Nat
    PROVE  Bytes(q) \in Nat /\ Bytes(Append(q, b)) = Bytes(q) + b
  <1> DEFINE n == Len(q)
             r == Append(q, b)
  <1>1. n \in Nat /\ r \in Seq(Nat) /\ Len(r) = n + 1 /\ r[n + 1] = b
        /\ \A i \in 1 .. n : r[i] = q[i]
    OBVIOUS
  <1>2. PICK k : Bytes(q) = k[n] /\ k[0] = 0 /\ \A i \in 1 .. n : k[i] = k[i - 1] + q[i]
    BY BytesAreATotal
  <1> HIDE DEF r
  <1>3. PICK h : Bytes(r) = h[Len(r)] /\ h[0] = 0 /\ \A i \in 1 .. Len(r) : h[i] = h[i - 1] + r[i]
    BY <1>1, BytesAreATotal
  <1>4. n = Len(q)
    OBVIOUS
  <1> HIDE DEF n
  <1> DEFINE none == 0
  <1>5. none \in Nat /\ h[none] \in Nat /\ n <= Len(q)
        /\ \A i \in 1 .. n : h[none + i] = h[none + (i - 1)] + q[i]
    <2> SUFFICES ASSUME NEW i \in 1 .. n PROVE h[i] = h[i - 1] + q[i]
      BY <1>1, <1>3, <1>4
    <2>1. i \in 1 .. Len(r)
      BY <1>1
    <2> QED BY <1>1, <1>3, <2>1
  <1>6. k[n] \in Nat /\ h[none + n] = h[none] + k[n]
    <2>1. n \in Nat
      BY <1>1
    <2>2. AddsUp(k, q, n)
      BY <1>2 DEF AddsUp
    <2> HIDE DEF none
    <2>3. AddsOn(h, none, q, n)
      BY <1>5 DEF AddsOn
    <2> QED BY <1>5, <2>1, <2>2, <2>3, TotalsAgree
  <1>7. none + n = n /\ h[none] = 0
    BY <1>1, <1>3
  <1>8. h[n + 1] = h[n] + b
    <2> DEFINE x == n + 1
    <2>1. x \in 1 .. Len(r) /\ x - 1 = n /\ r[x] = b
      BY <1>1
    <2> HIDE DEF x
    <2>2. h[x] = h[n] + b
      BY <1>3, <2>1
    <2> QED BY <2>2 DEF x
  <1> QED
    BY <1>1, <1>2, <1>3, <1>5, <1>6, <1>7, <1>8 DEF r

LEMMA BytesOfLess ==
    ASSUME NEW q \in Seq(Nat), q # <<>>
    PROVE  Bytes(Tail(q)) \in Nat /\ Bytes(q) = Head(q) + Bytes(Tail(q))
  <1> DEFINE r == Tail(q)
             n == Len(r)
  <1>1. n \in Nat /\ r \in Seq(Nat) /\ Len(q) = n + 1 /\ Head(q) = q[1] /\ q[1] \in Nat
        /\ \A i \in 1 .. n : q[i + 1] = r[i]
    OBVIOUS
  <1> HIDE DEF r
  <1>2. PICK k : Bytes(r) = k[n] /\ k[0] = 0 /\ \A i \in 1 .. n : k[i] = k[i - 1] + r[i]
    BY <1>1, BytesAreATotal
  <1>3. n <= Len(r)
    BY <1>1
  <1> HIDE DEF n
  <1>4. PICK h : Bytes(q) = h[Len(q)] /\ h[0] = 0 /\ \A i \in 1 .. Len(q) : h[i] = h[i - 1] + q[i]
    BY BytesAreATotal
  <1> DEFINE one == 1
  <1>5. one \in Nat /\ h[one] = Head(q) /\ h[one] \in Nat /\ one + n = Len(q)
    <2>1. 1 \in 1 .. Len(q)
      BY <1>1
    <2>2. h[1] = h[1 - 1] + q[1]
      BY <1>4, <2>1
    <2> QED BY <1>1, <1>4, <2>2
  <1>6. \A i \in 1 .. n : h[one + i] = h[one + (i - 1)] + r[i]
    <2> SUFFICES ASSUME NEW i \in 1 .. n PROVE h[1 + i] = h[1 + (i - 1)] + r[i]
      OBVIOUS
    <2> DEFINE x == 1 + i
    <2>1. x \in 1 .. Len(q) /\ x - 1 = 1 + (i - 1) /\ q[x] = r[i]
      BY <1>1
    <2> HIDE DEF x
    <2>2. h[x] = h[x - 1] + q[x]
      BY <1>4, <2>1
    <2> QED BY <2>1, <2>2 DEF x
  <1> HIDE DEF one
  <1>7. k[n] \in Nat /\ h[one + n] = h[one] + k[n]
    <2>1. AddsUp(k, r, n) /\ AddsOn(h, one, r, n)
      BY <1>2, <1>6 DEF AddsUp, AddsOn
    <2> QED BY <1>1, <1>3, <1>5, <2>1, TotalsAgree
  <1> QED
    BY <1>2, <1>4, <1>5, <1>7 DEF r

-----------------------------------------------------------------------------
(* The console.  Beside the property, the invariant says that the queue holds *)
(* numbers and that what is shown and written are beginnings of the output.   *)

StreamIInv == /\ output \in Seq(STRING)
              /\ written \in 0 .. Len(output) /\ got \in 0 .. Len(output)
              /\ queue \in Seq(Nat)
              /\ ScreenShowsTheOutput

LEMMA BlankWaitsForNothing == IsDecoder(Blank) /\ Blank.cr \in BOOLEAN
  BY DEF IsDecoder, Blank

\* The output up to a position and what follows it up to another.
LEMMA OutputInPieces ==
    ASSUME NEW S, NEW o \in Seq(S), NEW m \in Nat, NEW n \in Nat, m + n <= Len(o)
    PROVE  /\ SubSeq(o, 1, m) \in Seq(S) /\ SubSeq(o, m + 1, m + n) \in Seq(S)
           /\ SubSeq(o, 1, m + n) = SubSeq(o, 1, m) \o SubSeq(o, m + 1, m + n)
  <1>1. Len(o) \in Nat /\ \A i \in 1 .. Len(o) : o[i] \in S
    BY ElementOfSeq
  <1>2. SubSeq(o, 1, m) \in Seq(S) /\ SubSeq(o, m + 1, m + n) \in Seq(S)
    BY <1>1
  <1>3. 1 \in 1 .. Len(o) + 1 /\ m \in 1 - 1 .. Len(o) /\ m + n \in m .. Len(o)
    BY <1>1
  <1>4. SubSeq(o, 1, m) \o SubSeq(o, m + 1, m + n) = SubSeq(o, 1, m + n)
    BY <1>3, ConcatAdjacentSubSeq
  <1> QED BY <1>2, <1>4

\* A chunk that arrives goes on where the screen stopped.
LEMMA ChunkGoesOn ==
    ASSUME StreamIInv, ChunkArrives
    PROVE  StreamIInv'
  <1> DEFINE head == Head(queue)
             rest == Bytes(Tail(queue))
  <1>1. /\ stream = "open" /\ control = "none" /\ queue # <<>>
        /\ queue' = Tail(queue) /\ got' = got + head
        /\ term' = decodeTerminalBytes(SubSeq(output, got + 1, got + head), term)
        /\ UNCHANGED <<output, written, subscribed, control, stream>>
    BY DEF ChunkArrives, session
  <1>2. subscribed /\ term = decodeTerminalBytes(SubSeq(output, 1, got), Blank)
        /\ got + Bytes(queue) = written
    BY <1>1 DEF StreamIInv, ScreenShowsTheOutput
  <1>3. queue \in Seq(Nat) /\ output \in Seq(STRING) /\ Len(output) \in Nat
        /\ written \in Nat /\ written <= Len(output) /\ got \in Nat
    BY DEF StreamIInv
  <1>4. head \in Nat /\ Tail(queue) \in Seq(Nat)
    BY <1>1, <1>3
  <1>5. rest \in Nat /\ Bytes(queue) = head + rest
    BY <1>1, <1>3, BytesOfLess
  <1> HIDE DEF head, rest
  <1>6. got + head \in 0 .. Len(output) /\ got + head <= Len(output) /\ got + head + rest = written
    BY <1>2, <1>3, <1>4, <1>5
  <1>7. term' = decodeTerminalBytes(SubSeq(output, 1, got + head), Blank)
    <2> DEFINE a == SubSeq(output, 1, got)
               b == SubSeq(output, got + 1, got + head)
    <2>1. a \in Seq(STRING) /\ b \in Seq(STRING) /\ SubSeq(output, 1, got + head) = a \o b
      BY <1>3, <1>4, <1>6, OutputInPieces
    <2>2. term' = decodeTerminalBytes(b, decodeTerminalBytes(a, Blank))
      BY <1>1, <1>2
    <2> HIDE DEF a, b
    <2>3. decodeTerminalBytes(a \o b, Blank) = decodeTerminalBytes(b, decodeTerminalBytes(a, Blank))
      BY <2>1, BlankWaitsForNothing, ChunksMayBeCut
    <2> QED BY <2>1, <2>2, <2>3
  <1>8. got' + Bytes(queue') = written'
    BY <1>1, <1>6 DEF rest
  <1> QED
    BY <1>1, <1>2, <1>3, <1>4, <1>6, <1>7, <1>8 DEF StreamIInv, ScreenShowsTheOutput

LEMMA ServiceGoesOn ==
    ASSUME StreamIInv, NEW n \in 1 .. Len(output), AppendBytes(n)
    PROVE  StreamIInv'
  <1>1. /\ written + n <= Len(output) /\ written' = written + n
        /\ UNCHANGED <<output, stream, got, term>>
    BY DEF AppendBytes, screen
  <1>2. queue \in Seq(Nat) /\ output \in Seq(STRING) /\ Len(output) \in Nat
        /\ written \in Nat /\ got \in 0 .. Len(output) /\ n \in Nat
    BY DEF StreamIInv
  <1>3. written' \in 0 .. Len(output)
    BY <1>1, <1>2
  <1>4. CASE UNCHANGED subscriber /\ ~subscribed
    BY <1>1, <1>2, <1>3, <1>4 DEF subscriber, StreamIInv, ScreenShowsTheOutput
  <1>5. CASE Unsubscribed("disconnect")
    BY <1>1, <1>2, <1>3, <1>5 DEF Unsubscribed, StreamIInv, ScreenShowsTheOutput
  <1>6. CASE queue' = Append(queue, n) /\ UNCHANGED <<subscribed, control>>
    <2>1. queue' \in Seq(Nat)
      BY <1>2, <1>6
    <2>2. Bytes(queue) \in Nat /\ Bytes(queue') = Bytes(queue) + n
      BY <1>2, <1>6, BytesOfMore
    <2>3. got + Bytes(queue) = written => got + Bytes(queue') = written + n
      BY <1>2, <2>2
    <2> QED BY <1>1, <1>2, <1>3, <1>6, <2>1, <2>3 DEF StreamIInv, ScreenShowsTheOutput
  <1> QED
    BY <1>4, <1>5, <1>6 DEF AppendBytes

\* A snapshot is the whole log so far, and nothing is queued behind it.
LEMMA SnapshotIsWhole ==
    ASSUME StreamIInv, Connects
    PROVE  StreamIInv'
  <1>1. UNCHANGED <<output, written>>
    BY DEF Connects, session
  <1>2. CASE phase = "runs"
    <2>1. /\ got' = written /\ queue' = <<>> /\ subscribed' = TRUE
          /\ term' = decodeTerminalBytes(SubSeq(output, 1, written), Blank)
      BY <1>2 DEF Connects
    <2>2. got' + Bytes(queue') = written
      BY <2>1, BytesOfNothing DEF StreamIInv
    <2>3. queue' \in Seq(Nat)
      BY <2>1
    <2> QED BY <1>1, <2>1, <2>2, <2>3 DEF StreamIInv, ScreenShowsTheOutput
  <1>3. CASE phase # "runs"
    BY <1>1, <1>3 DEF Connects, screen, subscriber, StreamIInv, ScreenShowsTheOutput
  <1> QED
    BY <1>2, <1>3

\* What neither touches the stream nor the output, and what closes the stream or opens it anew.
LEMMA StreamUntouched ==
    ASSUME StreamIInv, UNCHANGED <<output, written, screen, subscriber>>
    PROVE  StreamIInv'
  BY DEF screen, subscriber, StreamIInv, ScreenShowsTheOutput

LEMMA StreamOpensAnew ==
    ASSUME StreamIInv, UNCHANGED <<output, written>>, stream' # "open",
           got' = got \/ got' = 0, queue' = <<>>
    PROVE  StreamIInv'
  <1>1. queue' \in Seq(Nat) /\ got' \in 0 .. Len(output)
    BY DEF StreamIInv
  <1> QED
    BY <1>1 DEF StreamIInv, ScreenShowsTheOutput

LEMMA SelectingKeeps ==
    ASSUME StreamIInv, UNCHANGED session, NEW runs, NEW attempt, NEW whole,
           Selects(runs, attempt, whole)
    PROVE  StreamIInv'
  <1> DEFINE live == runs /\ attempt = 0
             anew == ~isLiveSelected \/ whole # full
  <1>1. Streams(live, anew)
    BY DEF Selects
  <1> HIDE DEF live, anew
  <1>2. CASE UNCHANGED <<screen, subscriber>>
    BY <1>2, StreamUntouched DEF session
  <1>3. CASE stream' = (IF live THEN "opening" ELSE "none") /\ got' = 0 /\ queue' = <<>>
    BY <1>3, StreamOpensAnew DEF session
  <1> QED
    BY <1>1, <1>2, <1>3 DEF Streams

LEMMA StreamInductive == StreamIInv /\ [StreamNext]_streamVars => StreamIInv'
  <1> SUFFICES ASSUME StreamIInv, [StreamNext]_streamVars PROVE StreamIInv'
    OBVIOUS
  <1>1. CASE \E n \in 1 .. Len(output) : AppendBytes(n)
    BY <1>1, ServiceGoesOn
  <1>2. CASE TaskEnds
    BY <1>2, StreamUntouched DEF TaskEnds
  <1>3. CASE PublishExit
    <2>1. UNCHANGED <<output, written, screen>>
      BY <1>3 DEF PublishExit
    <2>2. CASE UNCHANGED subscriber
      BY <2>1, <2>2, StreamUntouched
    <2>3. CASE Unsubscribed("exit")
      BY <2>1, <2>3 DEF Unsubscribed, screen, StreamIInv, ScreenShowsTheOutput
    <2> QED BY <1>3, <2>2, <2>3 DEF PublishExit
  <1>4. CASE Connects
    BY <1>4, SnapshotIsWhole
  <1>5. CASE ChunkArrives
    BY <1>5, ChunkGoesOn
  <1>6. CASE StreamEnds \/ ConnectionLost
    BY <1>6, StreamOpensAnew DEF StreamEnds, ConnectionLost, session
  <1>7. CASE StatusChanges \/ handleToggleFullLog
    BY <1>7, SelectingKeeps DEF StatusChanges, handleToggleFullLog
  <1>8. CASE LoadAnswered \/ LoadFails \/ handleDeleteLog \/ LogDeleted
    BY <1>8, StreamUntouched DEF LoadAnswered, LoadFails, handleDeleteLog, LogDeleted, session
  <1>9. CASE ApplyLoad
    <2>1. UNCHANGED session
      BY <1>9 DEF ApplyLoad
    <2>2. CASE UNCHANGED <<screen, subscriber>>
      BY <2>1, <2>2, StreamUntouched DEF session
    <2>3. CASE Selects(pageRuns, ask.content.attempt, full)
      BY <2>1, <2>3, SelectingKeeps
    <2> QED BY <1>9, <2>2, <2>3 DEF ApplyLoad
  <1>10. CASE \E attempt \in 0 .. 2 : handleSelectAttempt(attempt)
    BY <1>10, SelectingKeeps DEF handleSelectAttempt
  <1>11. CASE DeleteAnswered
    <2>1. UNCHANGED session
      BY <1>11 DEF DeleteAnswered
    <2>2. CASE UNCHANGED <<screen, subscriber>>
      BY <2>1, <2>2, StreamUntouched DEF session
    <2>3. ASSUME NEW next, Selects(pageRuns, next, full)
          PROVE  StreamIInv'
      BY <2>1, <2>3, SelectingKeeps
    <2> QED BY <1>11, <2>2, <2>3 DEF DeleteAnswered
  <1>12. CASE UNCHANGED streamVars
    BY <1>12, StreamUntouched DEF streamVars, session
  <1> QED
    BY <1>1, <1>2, <1>3, <1>4, <1>5, <1>6, <1>7, <1>8, <1>9, <1>10, <1>11, <1>12 DEF StreamNext

LEMMA StreamInitially == StreamInit => StreamIInv
  <1> SUFFICES ASSUME StreamInit PROVE StreamIInv
    OBVIOUS
  <1>1. output \in Seq(STRING) /\ queue = <<>> /\ written = 0 /\ got = 0 /\ stream = "opening"
    BY OutputsAreBytes DEF StreamInit
  <1>2. Len(output) \in Nat /\ queue \in Seq(Nat)
    BY <1>1
  <1> QED
    BY <1>1, <1>2 DEF StreamIInv, ScreenShowsTheOutput

\* The live console shows the output as if it had come in one piece, whatever is written,
\* wherever it is cut, and however often the stream is opened again (StreamingTerminal).
THEOREM ConsoleShowsTheOutput == StreamSpec => []ScreenShowsTheOutput
  <1>1. StreamIInv => ScreenShowsTheOutput
    BY DEF StreamIInv
  <1> QED
    BY <1>1, StreamInitially, StreamInductive, PTL DEF StreamSpec
-----------------------------------------------------------------------------
(* The log viewer.  An answer that has not been applied yet is of the attempt *)
(* selected, or finds none selected and then selects its own.                 *)

AnswerFits == /\ DOMAIN ask = {"at", "logs", "content"}
              /\ ask.content.attempt \in 0 .. 2
              /\ ask.content.at = "log" => ask.content.attempt # 0
              /\ ask.content.attempt # 0 => selected \in {0, ask.content.attempt}

\* The text in the viewer is never one attempt's log under another's name.
ViewerShowsTheSelected == content.at = "log" => selected # 0 /\ content.attempt = selected

ViewerIInv == selected \in 0 .. 2 /\ AnswerFits /\ ViewerShowsTheSelected

LEMMA NoAnswerFits ==
    ASSUME ask' = NoAnswer
    PROVE  AnswerFits'
  <1>1. /\ DOMAIN NoAnswer = {"at", "logs", "content"}
        /\ NoAnswer.content.attempt = 0 /\ NoAnswer.content.at = "waiting"
    BY DEF NoAnswer, Text
  <1> QED
    BY <1>1 DEF AnswerFits

\* Whatever the viewer comes to select, a load under way is either dropped or still fits.
LEMMA SelectingFits ==
    ASSUME ViewerIInv, NEW runs, NEW attempt \in 0 .. 2, NEW whole, Selects(runs, attempt, whole)
    PROVE  selected' \in 0 .. 2 /\ AnswerFits'
  <1>1. selected' = attempt
    BY DEF Selects
  <1>2. CASE ask' = NoAnswer
    BY <1>1, <1>2, NoAnswerFits
  <1>3. CASE attempt = selected /\ ask' = ask
    BY <1>1, <1>3 DEF ViewerIInv, AnswerFits
  <1> QED
    BY <1>2, <1>3 DEF Selects

LEMMA AttemptsAreTwo == \A shownLogs : LastLog(shownLogs) \in 0 .. 2
  BY DEF LastLog

LEMMA TextsAreOfNoAttempt ==
    \A what : /\ Text(what).at = what /\ Text(what).attempt = 0
              /\ LogText(what).at = "log" /\ LogText(what).attempt = what
  BY DEF Text, LogText

\* An answer is of the attempt selected when it is given.
LEMMA AnsweredFits ==
    ASSUME ViewerIInv, LoadAnswered
    PROVE  ViewerIInv'
  <1> DEFINE attempt == IF selected = 0 THEN LastLog(files) ELSE selected
             text == IF isLiveSelected THEN Text("waiting")
                     ELSE IF attempt = 0 THEN Text("empty")
                     ELSE IF attempt \notin files THEN Text("failed")
                     ELSE LogText(attempt)
  <1>1. ask' = [at |-> "answered", logs |-> files, content |-> text]
        /\ UNCHANGED <<selected, content>>
    BY DEF LoadAnswered, viewer
  <1>2. attempt \in 0 .. 2 /\ (selected # 0 => attempt = selected)
    BY AttemptsAreTwo DEF ViewerIInv
  <1>3. \/ text.attempt = 0 /\ text.at # "log"
        \/ text.attempt = attempt /\ attempt # 0
    <2> HIDE DEF attempt
    <2> QED BY TextsAreOfNoAttempt
  <1> HIDE DEF attempt, text
  <1>4. DOMAIN ask' = {"at", "logs", "content"} /\ ask'.content = text
    BY <1>1
  <1>5. AnswerFits'
    BY <1>1, <1>2, <1>3, <1>4 DEF AnswerFits
  <1> QED
    BY <1>1, <1>5 DEF ViewerIInv, ViewerShowsTheSelected

LEMMA FailureFits ==
    ASSUME ViewerIInv, LoadFails
    PROVE  ViewerIInv'
  <1>1. ask' = [ask EXCEPT !.content = Text("failed")] /\ UNCHANGED <<selected, content>>
    BY DEF LoadFails, viewer
  <1>2. DOMAIN ask' = {"at", "logs", "content"} /\ ask'.content = Text("failed")
    BY <1>1 DEF ViewerIInv, AnswerFits
  <1>3. AnswerFits'
    BY <1>2, TextsAreOfNoAttempt DEF AnswerFits
  <1> QED
    BY <1>1, <1>3 DEF ViewerIInv, ViewerShowsTheSelected

\* What is applied is the answer to the selection, or becomes it.
LEMMA ApplyingFits ==
    ASSUME ViewerIInv, ApplyLoad
    PROVE  ViewerIInv'
  <1>1. content' = ask.content
    BY DEF ApplyLoad
  <1>2. CASE selected = 0 /\ ask.content.attempt # 0
    <2>1. Selects(pageRuns, ask.content.attempt, full) /\ ask.content.attempt \in 0 .. 2
      BY <1>2 DEF ApplyLoad, ViewerIInv, AnswerFits
    <2>2. selected' = ask.content.attempt
      BY <2>1 DEF Selects
    <2>3. selected' \in 0 .. 2 /\ AnswerFits'
      BY <2>1, SelectingFits
    <2> QED BY <1>1, <1>2, <2>2, <2>3 DEF ViewerIInv, ViewerShowsTheSelected
  <1>3. CASE ~(selected = 0 /\ ask.content.attempt # 0)
    <2>1. ask' = NoAnswer /\ selected' = selected
      BY <1>3 DEF ApplyLoad
    <2>2. AnswerFits'
      BY <2>1, NoAnswerFits
    <2> QED BY <1>1, <1>3, <2>1, <2>2 DEF ViewerIInv, AnswerFits, ViewerShowsTheSelected
  <1> QED
    BY <1>2, <1>3

\* A handler that selects leaves a message where the text was.
LEMMA MessageFits ==
    ASSUME ViewerIInv, NEW runs, NEW attempt \in 0 .. 2, NEW whole, Selects(runs, attempt, whole),
           NEW what, what # "log", content' = Text(what)
    PROVE  ViewerIInv'
  <1>1. selected' \in 0 .. 2 /\ AnswerFits'
    BY SelectingFits
  <1> QED
    BY <1>1, TextsAreOfNoAttempt DEF ViewerIInv, ViewerShowsTheSelected

LEMMA DeleteAnsweredFits ==
    ASSUME ViewerIInv, DeleteAnswered
    PROVE  ViewerIInv'
  <1> DEFINE next == LastLog(Selectable(deleting.logs \ {deleting.attempt}, deleting.runs))
  <1>1. CASE deleting.at = "refused"
    <2>1. content' = Text("failed") /\ UNCHANGED <<selected, ask>>
      BY <1>1 DEF DeleteAnswered
    <2>2. AnswerFits'
      BY <2>1 DEF ViewerIInv, AnswerFits
    <2> QED BY <2>1, <2>2, TextsAreOfNoAttempt DEF ViewerIInv, ViewerShowsTheSelected
  <1>2. CASE deleting.at # "refused"
    <2>1. Selects(pageRuns, next, full)
          /\ content' = Text(IF next = 0 /\ deleting.runs THEN "waiting" ELSE "none left")
      BY <1>2 DEF DeleteAnswered
    <2>2. next \in 0 .. 2
      BY AttemptsAreTwo
    <2> DEFINE what == IF next = 0 /\ deleting.runs THEN "waiting" ELSE "none left"
    <2>3. what # "log" /\ content' = Text(what)
      BY <2>1
    <2> HIDE DEF next, what
    <2> QED BY <2>1, <2>2, <2>3, MessageFits
  <1> QED
    BY <1>1, <1>2

LEMMA ViewerUntouched ==
    ASSUME ViewerIInv, UNCHANGED <<selected, content, ask>>
    PROVE  ViewerIInv'
  BY DEF ViewerIInv, AnswerFits, ViewerShowsTheSelected

LEMMA ViewerInductive == ViewerIInv /\ [StreamNext]_streamVars => ViewerIInv'
  <1> SUFFICES ASSUME ViewerIInv, [StreamNext]_streamVars PROVE ViewerIInv'
    OBVIOUS
  <1>1. CASE \E n \in 1 .. Len(output) : AppendBytes(n)
    BY <1>1, ViewerUntouched DEF AppendBytes, viewer
  <1>2. CASE TaskEnds \/ PublishExit \/ Connects \/ ChunkArrives \/ StreamEnds \/ ConnectionLost
    BY <1>2, ViewerUntouched
       DEF TaskEnds, PublishExit, Connects, ChunkArrives, StreamEnds, ConnectionLost, viewer
  <1>3. CASE StatusChanges
    <2>1. Selects(FALSE, 0, FALSE) /\ content' = Text("waiting")
      BY <1>3 DEF StatusChanges
    <2>2. 0 \in 0 .. 2
      OBVIOUS
    <2> QED BY <2>1, <2>2, MessageFits
  <1>4. CASE LoadAnswered
    BY <1>4, AnsweredFits
  <1>5. CASE LoadFails
    BY <1>5, FailureFits
  <1>6. CASE ApplyLoad
    BY <1>6, ApplyingFits
  <1>7. CASE \E attempt \in 0 .. 2 : handleSelectAttempt(attempt)
    BY <1>7, MessageFits DEF handleSelectAttempt
  <1>8. CASE handleToggleFullLog
    <2>1. selected \in 0 .. 2
      BY DEF ViewerIInv
    <2> QED BY <1>8, <2>1, MessageFits DEF handleToggleFullLog
  <1>9. CASE handleDeleteLog \/ LogDeleted
    BY <1>9, ViewerUntouched DEF handleDeleteLog, LogDeleted, viewer
  <1>10. CASE DeleteAnswered
    BY <1>10, DeleteAnsweredFits
  <1>11. CASE UNCHANGED streamVars
    BY <1>11, ViewerUntouched DEF streamVars, viewer
  <1> QED
    BY <1>1, <1>2, <1>3, <1>4, <1>5, <1>6, <1>7, <1>8, <1>9, <1>10, <1>11 DEF StreamNext

\* TaskLogViewer never shows the log of one attempt while another is selected, although
\* answers come after the selection has changed, logs are deleted and the task ends.
THEOREM ViewerShowsTheRightLog == StreamSpec => []ViewerShowsTheSelected
  <1>1. StreamInit => ViewerIInv
    BY TextsAreOfNoAttempt DEF StreamInit, ViewerIInv, ViewerShowsTheSelected, AnswerFits, NoAnswer
  <1>2. ViewerIInv => ViewerShowsTheSelected
    BY DEF ViewerIInv
  <1> QED
    BY <1>1, <1>2, ViewerInductive, PTL DEF StreamSpec
=============================================================================
