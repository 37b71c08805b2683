------------------------- MODULE OutboundLimitsProofs -------------------------
(***************************************************************************)
(* OutboundLimits, for any number of workers and tasks, any limit and any  *)
(* pace.                                                                   *)
(***************************************************************************)
EXTENDS OutboundLimits, FiniteSetTheorems, TLAPS

(***************************************************************************)
(* Lines: what joining and leaving one does to its members.                *)
(***************************************************************************)
LEMMA Joined ==
  ASSUME NEW s \in Seq(Tasks), Distinct(s), NEW t \in Tasks, ~In(t, s)
  PROVE  /\ Append(s, t) \in Seq(Tasks)
         /\ Distinct(Append(s, t))
         /\ \A u \in Tasks : In(u, Append(s, t)) <=> u = t \/ In(u, s)
         /\ \A i \in 1 .. Len(s) : i \in 1 .. Len(Append(s, t)) /\ Append(s, t)[i] = s[i]
<1> DEFINE a == Append(s, t)
<1>1. /\ a \in Seq(Tasks) /\ Len(a) = Len(s) + 1 /\ Len(s) \in Nat
      /\ \A i \in 1 .. Len(s) : a[i] = s[i]
      /\ a[Len(s) + 1] = t
  OBVIOUS
<1> HIDE DEF a
<1>2. Distinct(a)
  BY <1>1 DEF Distinct, In
<1>3. \A u \in Tasks : In(u, a) <=> u = t \/ In(u, s)
  BY <1>1 DEF In
<1>4. QED
  BY <1>1, <1>2, <1>3 DEF a

LEMMA Place ==
  ASSUME NEW s, NEW t, In(t, s)
  PROVE  PlaceOf(t, s) \in 1 .. Len(s) /\ s[PlaceOf(t, s)] = t
BY DEF In, PlaceOf

LEMMA Left ==
  ASSUME NEW s \in Seq(Tasks), Distinct(s), NEW t \in Tasks
  PROVE  /\ Without(t, s) \in Seq(Tasks)
         /\ Distinct(Without(t, s))
         /\ \A u \in Tasks : In(u, Without(t, s)) <=> u # t /\ In(u, s)
         /\ \A i \in 1 .. Len(s) : s[i] # t =>
              \E j \in 1 .. Len(Without(t, s)) : j <= i /\ Without(t, s)[j] = s[i]
<1>1. CASE ~In(t, s)
  BY <1>1 DEF Without, In
<1>2. CASE In(t, s)
  <2> DEFINE k == PlaceOf(t, s)
             r == Without(t, s)
  <2>1. k \in 1 .. Len(s) /\ s[k] = t /\ Len(s) \in Nat
    BY <1>2, Place
  <2> HIDE DEF k
  <2>2. /\ r = [i \in 1 .. Len(s) - 1 |-> IF i < k THEN s[i] ELSE s[i + 1]]
        /\ r \in Seq(Tasks) /\ Len(r) = Len(s) - 1
    BY <1>2, <2>1 DEF Without, k
  <2> HIDE DEF r
  <2>3. \A i \in 1 .. Len(r) : r[i] = IF i < k THEN s[i] ELSE s[i + 1]
    BY <2>1, <2>2
  <2>4. Distinct(r)
    BY <2>1, <2>2, <2>3 DEF Distinct
  <2>5. ASSUME NEW i \in 1 .. Len(s), s[i] # t
        PROVE  \E j \in 1 .. Len(r) : j <= i /\ r[j] = s[i]
    <3>1. CASE i < k
      BY <2>1, <2>2, <2>3, <3>1
    <3>2. CASE i > k
      <4>1. i - 1 \in 1 .. Len(r) /\ r[i - 1] = s[i]
        BY <2>1, <2>2, <2>3, <3>2
      <4>2. QED
        BY <4>1
    <3>3. QED
      BY <2>1, <2>5, <3>1, <3>2
  <2>6. ASSUME NEW u \in Tasks, In(u, r) PROVE u # t /\ In(u, s)
    <3>1. PICK j \in 1 .. Len(r) : r[j] = u
      BY <2>6 DEF In
    <3>2. \E i \in 1 .. Len(s) : i # k /\ s[i] = u
      BY <2>1, <2>2, <2>3, <3>1
    <3>3. QED
      BY <2>1, <3>2 DEF In, Distinct
  <2>7. QED
    BY <2>2, <2>4, <2>5, <2>6 DEF r, In
<1>3. QED
  BY <1>1, <1>2

Lines == [Workers -> Seq(Tasks)]

LEMMA JoinsLined ==
  ASSUME NEW lines \in Lines, NEW tasks, Lined(lines, tasks),
         NEW t \in Tasks, t \notin tasks
  PROVE  /\ Joins(t, lines) \in Lines
         /\ Lined(Joins(t, lines), tasks \cup {t})
<1> USE LimitsAssumption DEF Lines
<1> DEFINE h == Home[t]
<1>1. h \in Workers /\ lines[h] \in Seq(Tasks) /\ Distinct(lines[h]) /\ ~In(t, lines[h])
  BY DEF Lined
<1>2. Joins(t, lines) = [lines EXCEPT ![h] = Append(lines[h], t)]
  BY DEF Joins
<1> HIDE DEF h
<1>3. Joins(t, lines) \in Lines
  BY <1>1, <1>2, Joined
<1>4. ASSUME NEW w \in Workers
      PROVE  /\ Distinct(Joins(t, lines)[w])
             /\ \A u \in Tasks :
                  In(u, Joins(t, lines)[w]) <=> Home[u] = w /\ u \in tasks \cup {t}
  <2>1. CASE w = h
    BY <1>1, <1>2, <2>1, Joined DEF Lined, h
  <2>2. CASE w # h
    BY <1>1, <1>2, <2>2 DEF Lined, h
  <2>3. QED
    BY <2>1, <2>2
<1>5. QED
  BY <1>3, <1>4 DEF Lined

LEMMA LeavesLined ==
  ASSUME NEW lines \in Lines, NEW tasks, Lined(lines, tasks), NEW t \in Tasks
  PROVE  /\ Leaves(t, lines) \in Lines
         /\ Lined(Leaves(t, lines), tasks \ {t})
<1> USE LimitsAssumption DEF Lines
<1> DEFINE h == Home[t]
<1>1. h \in Workers /\ lines[h] \in Seq(Tasks) /\ Distinct(lines[h])
  BY DEF Lined
<1>2. Leaves(t, lines) = [lines EXCEPT ![h] = Without(t, lines[h])]
  BY DEF Leaves
<1> HIDE DEF h
<1>3. Leaves(t, lines) \in Lines
  BY <1>1, <1>2, Left
<1>4. ASSUME NEW w \in Workers
      PROVE  /\ Distinct(Leaves(t, lines)[w])
             /\ \A u \in Tasks :
                  In(u, Leaves(t, lines)[w]) <=> Home[u] = w /\ u \in tasks \ {t}
  <2>1. CASE w = h
    <3>1. Leaves(t, lines)[w] = Without(t, lines[h])
      BY <1>1, <1>2, <2>1
    <3>2. /\ Distinct(Without(t, lines[h]))
          /\ \A u \in Tasks : In(u, Without(t, lines[h])) <=> u # t /\ In(u, lines[h])
      BY <1>1, Left
    <3>3. QED
      BY <2>1, <3>1, <3>2 DEF Lined, h
  <2>2. CASE w # h
    BY <1>1, <1>2, <2>2 DEF Lined, h
  <2>3. QED
    BY <2>1, <2>2
<1>5. QED
  BY <1>3, <1>4 DEF Lined

(***************************************************************************)
(* Nobody in a line moves back.                                            *)
(***************************************************************************)
Within(u, s, n) == \E i \in 1 .. Len(s) : i <= n /\ s[i] = u

LEMMA JoinsKeeps ==
  ASSUME NEW lines \in Lines, NEW tasks, Lined(lines, tasks), NEW t \in Tasks,
         t \notin tasks, NEW w \in Workers, NEW u, NEW n \in Nat, Within(u, lines[w], n)
  PROVE  Within(u, Joins(t, lines)[w], n)
<1> USE LimitsAssumption DEF Lines
<1>1. CASE w = Home[t]
  <2>1. ~In(t, lines[w]) /\ Distinct(lines[w]) /\ lines[w] \in Seq(Tasks)
    BY <1>1 DEF Lined
  <2>2. Joins(t, lines)[w] = Append(lines[w], t)
    BY <1>1 DEF Joins
  <2>3. QED
    BY <2>1, <2>2, Joined DEF Within
<1>2. CASE w # Home[t]
  BY <1>2 DEF Joins
<1>3. QED
  BY <1>1, <1>2

LEMMA LeavesKeeps ==
  ASSUME NEW lines \in Lines, NEW tasks, Lined(lines, tasks), NEW t \in Tasks,
         NEW w \in Workers, NEW u, u # t, NEW n \in Nat, Within(u, lines[w], n)
  PROVE  Within(u, Leaves(t, lines)[w], n)
<1> USE LimitsAssumption DEF Lines
<1>1. CASE w = Home[t]
  <2>1. Distinct(lines[w]) /\ lines[w] \in Seq(Tasks)
    BY <1>1 DEF Lined
  <2>2. Leaves(t, lines)[w] = Without(t, lines[w])
    BY <1>1 DEF Leaves
  <2>3. PICK i \in 1 .. Len(lines[w]) : i <= n /\ lines[w][i] = u
    BY DEF Within
  <2>4. PICK j \in 1 .. Len(Without(t, lines[w])) :
               j <= i /\ Without(t, lines[w])[j] = lines[w][i]
    BY <2>1, <2>3, Left
  <2>5. Without(t, lines[w]) \in Seq(Tasks) /\ lines[w] \in Seq(Tasks)
    BY <2>1, Left
  <2>6. j <= n
    BY <2>3, <2>4, <2>5
  <2>7. QED
    BY <2>2, <2>3, <2>4, <2>6 DEF Within
<1>2. CASE w # Home[t]
  BY <1>2 DEF Leaves
<1>3. QED
  BY <1>1, <1>2

LEMMA First ==
  ASSUME NEW s \in Seq(Tasks), NEW u, In(u, s)
  PROVE  Head(s) = u <=> Within(u, s, 1)
BY DEF In, Within

(***************************************************************************)
(* The invariant.                                                          *)
(***************************************************************************)
LEMMA InitIInv == Init => IInv
<1> SUFFICES ASSUME Init PROVE IInv
  OBVIOUS
<1> USE LimitsAssumption DEF Init
<1>1. TypeOK
  BY DEF TypeOK, Places
<1>2. Busy = {} /\ Pacing = {}
  BY DEF Busy, Pacing
<1>3. Lined(line, Busy) /\ Lined(paceLine, Pacing)
  BY <1>2 DEF Lined, Distinct, In
<1>4. Holding /\ LongEnough
  BY DEF Holding, LongEnough
<1>5. QED
  BY <1>1, <1>3, <1>4 DEF IInv

LinesOK == /\ line \in Lines /\ paceLine \in Lines
           /\ Lined(line, Busy) /\ Lined(paceLine, Pacing)

LEMMA NextLines ==
  ASSUME IInv, [Next]_vars
  PROVE  LinesOK'
<1>0. LinesOK /\ pc \in [Tasks -> Places]
  BY DEF IInv, LinesOK, TypeOK, Lines
<1> USE <1>0 DEF LinesOK, Goto
<1>1. ASSUME NEW t \in Tasks, Enter(t) PROVE LinesOK'
  <2>1. t \notin Busy /\ Busy' = Busy \cup {t} /\ Pacing' = Pacing
    BY <1>1 DEF Enter, Busy, Pacing
  <2>2. QED
    BY <1>1, <2>1, JoinsLined DEF Enter
<1>2. ASSUME NEW t \in Tasks, AcquireSemaphore(t) PROVE LinesOK'
  <2>1. t \notin Pacing /\ Pacing' = Pacing \cup {t} /\ Busy' = Busy
    BY <1>2 DEF AcquireSemaphore, Busy, Pacing
  <2>2. QED
    BY <1>2, <2>1, JoinsLined DEF AcquireSemaphore
<1>3. ASSUME NEW t \in Tasks, PaceSleep(t) PROVE LinesOK'
  <2>1. Pacing' = Pacing /\ Busy' = Busy
    BY <1>3 DEF PaceSleep, HasLock, Busy, Pacing
  <2>2. QED
    BY <1>3, <2>1 DEF PaceSleep
<1>4. ASSUME NEW t \in Tasks, BeginCall(t), t \in Pacing PROVE LinesOK'
  <2>1. Pacing' = Pacing \ {t} /\ Busy' = Busy
    BY <1>4 DEF BeginCall, Busy, Pacing
  <2>2. QED
    BY <1>4, <2>1, LeavesLined DEF BeginCall
<1>5. ASSUME NEW t \in Tasks, LeavesAll(t) PROVE LinesOK'
  <2>1. Pacing' = Pacing \ {t} /\ Busy' = Busy \ {t}
    BY <1>5 DEF LeavesAll, Busy, Pacing
  <2>2. QED
    BY <1>5, <2>1, LeavesLined DEF LeavesAll
<1>6. CASE Tick \/ UNCHANGED vars
  <2>1. UNCHANGED <<pc, line, paceLine>>
    BY <1>6 DEF Tick, vars
  <2>2. Busy' = Busy /\ Pacing' = Pacing
    BY <2>1 DEF Busy, Pacing
  <2>3. QED
    BY <2>1, <2>2
<1>7. QED
  BY <1>1, <1>2, <1>3, <1>4, <1>5, <1>6
     DEF Next, Proceed, PaceGo, PaceWake, HasLock, Return, Cancel, Pacing

LEMMA NextTypeOK == IInv /\ [Next]_vars => TypeOK'
<1> SUFFICES ASSUME IInv, [Next]_vars PROVE TypeOK'
  OBVIOUS
<1>1. line' \in [Workers -> Seq(Tasks)] /\ paceLine' \in [Workers -> Seq(Tasks)]
  BY NextLines DEF LinesOK, Lines
<1> USE LimitsAssumption DEF IInv, TypeOK, Goto, Places
<1>2. pc' \in [Tasks -> Places]
  BY DEF Next, Enter, Proceed, AcquireSemaphore, PaceSleep, PaceGo, PaceWake,
         BeginCall, Return, Cancel, LeavesAll, Tick, vars
<1>3. rest' \in [Tasks -> 0 .. Interval]
  <2>1. CASE Tick
    BY <2>1 DEF Tick
  <2>2. ASSUME NEW t \in Tasks, PaceSleep(t) PROVE rest' \in [Tasks -> 0 .. Interval]
    <3>1. Interval - since[Home[t]] \in 0 .. Interval
      OBVIOUS
    <3>2. QED
      BY <2>2, <3>1 DEF PaceSleep
  <2>3. ASSUME NEW t \in Tasks, LeavesAll(t) PROVE rest' \in [Tasks -> 0 .. Interval]
    BY <2>3 DEF LeavesAll
  <2>4. QED
    BY <2>1, <2>2, <2>3
       DEF Next, Enter, Proceed, AcquireSemaphore, PaceGo, PaceWake, BeginCall,
           Return, Cancel, vars
<1>4. since' \in [Workers -> 0 .. Interval]
  <2>1. CASE Tick
    BY <2>1 DEF Tick, Older
  <2>2. ASSUME NEW t \in Tasks, BeginCall(t) PROVE since' \in [Workers -> 0 .. Interval]
    BY <2>2 DEF BeginCall
  <2>3. QED
    BY <2>1, <2>2
       DEF Next, Enter, Proceed, AcquireSemaphore, PaceSleep, PaceGo, PaceWake,
           Return, Cancel, LeavesAll, vars
<1>5. QED
  BY <1>1, <1>2, <1>3, <1>4

LEMMA NextHolding == IInv /\ [Next]_vars => Holding'
<1> SUFFICES ASSUME IInv, [Next]_vars, NEW u \in Tasks,
                    pc'[u] \in {"pacing", "sleeping", "calling"}
             PROVE  Within(u, line'[Home[u]], Limit)
  BY DEF Holding, Holds, Within
<1> USE LimitsAssumption
<1>0. /\ line \in Lines /\ Lined(line, Busy) /\ pc \in [Tasks -> Places]
      /\ Home[u] \in Workers
      /\ pc[u] \in {"pacing", "sleeping", "calling"} => Within(u, line[Home[u]], Limit)
  BY DEF IInv, TypeOK, Lines, Holding, Holds, Within
<1>1. ASSUME NEW t \in Tasks, Enter(t) PROVE Within(u, line'[Home[u]], Limit)
  <2>1. t \notin Busy /\ u # t /\ pc'[u] = pc[u]
    BY <1>0, <1>1 DEF Enter, Goto, Busy
  <2>2. QED
    BY <1>0, <1>1, <2>1, JoinsKeeps DEF Enter
<1>2. ASSUME NEW t \in Tasks, AcquireSemaphore(t) \/ PaceSleep(t) \/ PaceGo(t) \/ PaceWake(t)
      PROVE  Within(u, line'[Home[u]], Limit)
  <2>1. CASE u = t /\ AcquireSemaphore(t)
    BY <2>1 DEF AcquireSemaphore, Holds, Within
  <2>2. CASE u # t \/ ~AcquireSemaphore(t)
    <3>1. pc[u] \in {"pacing", "sleeping", "calling"}
      BY <1>0, <1>2, <2>2
         DEF AcquireSemaphore, PaceSleep, PaceGo, PaceWake, HasLock, BeginCall, Goto
    <3>2. line' = line
      BY <1>2 DEF AcquireSemaphore, PaceSleep, PaceGo, PaceWake, BeginCall
    <3>3. QED
      BY <1>0, <3>1, <3>2
  <2>3. QED
    BY <2>1, <2>2
<1>3. ASSUME NEW t \in Tasks, LeavesAll(t) PROVE Within(u, line'[Home[u]], Limit)
  <2>1. u # t /\ pc'[u] = pc[u]
    BY <1>0, <1>3 DEF LeavesAll, Goto
  <2>2. QED
    BY <1>0, <1>3, <2>1, LeavesKeeps DEF LeavesAll
<1>4. CASE Tick \/ UNCHANGED vars
  BY <1>0, <1>4 DEF Tick, vars
<1>5. QED
  BY <1>1, <1>2, <1>3, <1>4 DEF Next, Proceed, Return, Cancel

LEMMA NextLongEnough == IInv /\ [Next]_vars => LongEnough'
<1> SUFFICES ASSUME IInv, [Next]_vars, LinesOK, LinesOK', TypeOK', NEW u \in Tasks,
                    pc'[u] = "sleeping"
             PROVE  /\ Head(paceLine'[Home[u]]) = u
                    /\ since'[Home[u]] + rest'[u] >= Interval
  BY NextLines, NextTypeOK DEF IInv, LinesOK, LongEnough, TypeOK, Lines
<1> USE LimitsAssumption
<1> DEFINE s == paceLine[Home[u]]
           Good == Within(u, paceLine'[Home[u]], 1) /\ since'[Home[u]] + rest'[u] >= Interval
<1>1. SUFFICES Good
  <2>1. u \in Pacing' /\ paceLine'[Home[u]] \in Seq(Tasks) /\ Home[u] \in Workers
    BY DEF Pacing, LinesOK, Lines
  <2>2. In(u, paceLine'[Home[u]])
    BY <2>1 DEF LinesOK, Lined
  <2>3. QED
    BY <2>1, <2>2, First
<1>2. ASSUME pc[u] = "sleeping"
      PROVE  Head(s) = u /\ Within(u, s, 1) /\ since[Home[u]] + rest[u] >= Interval
  <2>1. u \in Pacing /\ s \in Seq(Tasks) /\ Home[u] \in Workers
    BY <1>2 DEF Pacing, LinesOK, Lines
  <2>2. In(u, s)
    BY <2>1 DEF LinesOK, Lined
  <2>3. QED
    BY <1>2, <2>1, <2>2, First DEF IInv, LongEnough
<1>3. /\ Home[u] \in Workers /\ since[Home[u]] \in Nat /\ rest[u] \in Nat
      /\ pc \in [Tasks -> Places] /\ since \in [Workers -> 0 .. Interval]
      /\ rest \in [Tasks -> 0 .. Interval]
  BY DEF IInv, TypeOK
<1>4. ASSUME NEW t \in Tasks, Enter(t) PROVE Good
  <2>1. pc[u] = "sleeping"
    BY <1>3, <1>4 DEF Enter, Goto
  <2>2. QED
    BY <1>2, <1>4, <2>1 DEF Enter
<1>5. ASSUME NEW t \in Tasks, AcquireSemaphore(t) PROVE Good
  <2>1. pc[u] = "sleeping" /\ t \notin Pacing
    BY <1>3, <1>5 DEF AcquireSemaphore, Goto, Pacing
  <2>2. Within(u, Joins(t, paceLine)[Home[u]], 1)
    BY <1>2, <1>3, <2>1, JoinsKeeps DEF LinesOK
  <2>3. QED
    BY <1>2, <1>5, <2>1, <2>2 DEF AcquireSemaphore
<1>6. ASSUME NEW t \in Tasks, PaceSleep(t) PROVE Good
  <2>1. CASE u = t
    <3>1. Head(s) = u /\ u \in Pacing
      BY <1>6, <2>1 DEF PaceSleep, HasLock, Pacing
    <3>2. In(u, s) /\ s \in Seq(Tasks)
      BY <1>3, <3>1 DEF LinesOK, Lined, Lines
    <3>3. Within(u, s, 1)
      BY <3>1, <3>2, First
    <3>4. since[Home[u]] + rest'[u] >= Interval
      BY <1>3, <1>6, <2>1 DEF PaceSleep
    <3>5. QED
      BY <1>6, <3>3, <3>4 DEF PaceSleep
  <2>2. CASE u # t
    BY <1>2, <1>3, <1>6, <2>2 DEF PaceSleep, Goto
  <2>3. QED
    BY <2>1, <2>2
<1>7. ASSUME NEW t \in Tasks, BeginCall(t), t \in Pacing, Head(paceLine[Home[t]]) = t
      PROVE  Good
  <2>1. u # t /\ pc[u] = "sleeping"
    BY <1>3, <1>7 DEF BeginCall, Goto
  <2>2. Home[u] # Home[t]
    BY <1>2, <1>7, <2>1
  <2>3. since'[Home[u]] = since[Home[u]] /\ rest'[u] = rest[u]
    BY <1>3, <1>7, <2>2 DEF BeginCall
  <2>4. Within(u, Leaves(t, paceLine)[Home[u]], 1)
    BY <1>2, <1>3, <2>1, LeavesKeeps DEF LinesOK
  <2>5. QED
    BY <1>2, <1>7, <2>1, <2>3, <2>4 DEF BeginCall
<1>8. ASSUME NEW t \in Tasks, LeavesAll(t) PROVE Good
  <2>1. u # t /\ pc[u] = "sleeping"
    BY <1>3, <1>8 DEF LeavesAll, Goto
  <2>2. since' = since /\ rest'[u] = rest[u]
    BY <1>3, <1>8, <2>1 DEF LeavesAll
  <2>3. Within(u, Leaves(t, paceLine)[Home[u]], 1)
    BY <1>2, <1>3, <2>1, LeavesKeeps DEF LinesOK
  <2>4. QED
    BY <1>2, <1>8, <2>1, <2>2, <2>3 DEF LeavesAll
<1>9. CASE Tick
  <2>1. since'[Home[u]] + rest'[u] >= Interval
    BY <1>2, <1>3, <1>9 DEF Tick, Older
  <2>2. QED
    BY <1>2, <1>9, <2>1 DEF Tick
<1>10. CASE UNCHANGED vars
  BY <1>2, <1>10 DEF vars
<1> HIDE DEF Good
<1>11. ASSUME NEW t \in Tasks, PaceGo(t) \/ PaceWake(t) PROVE Good
  <2>1. t \in Pacing /\ Head(paceLine[Home[t]]) = t
    BY <1>11 DEF PaceGo, PaceWake, HasLock, Pacing, IInv, LongEnough
  <2>2. QED
    BY <1>7, <1>11, <2>1 DEF PaceGo, PaceWake
<1>12. QED
  BY <1>4, <1>5, <1>6, <1>8, <1>9, <1>10, <1>11 DEF Next, Proceed, Return, Cancel

(***************************************************************************)
(* The inductive invariant holds in every state.                           *)
(***************************************************************************)
THEOREM Inductive == Spec => []IInv
<1>1. IInv /\ [Next]_vars => IInv'
  BY NextLines, NextTypeOK, NextHolding, NextLongEnough DEF IInv, LinesOK
<1>2. QED
  BY InitIInv, <1>1, PTL DEF Spec

(***************************************************************************)
(* At most Limit calls of a worker are in flight (resilience/client.py:    *)
(* 126-133), tasks cancelled in a queue or in their sleep included.        *)
(***************************************************************************)
THEOREM LimitKept == Spec => []WithinLimit
<1>1. ASSUME IInv, NEW w \in Workers PROVE Cardinality(Calling(w)) <= Limit
  <2> USE LimitsAssumption
  <2> DEFINE s == line[w]
             n == IF Len(s) < Limit THEN Len(s) ELSE Limit
             holders == {s[i] : i \in 1 .. n}
  <2>1. s \in Seq(Tasks) /\ Len(s) \in Nat /\ n \in Nat /\ n <= Limit
    BY <1>1 DEF IInv, TypeOK
  <2>2. Calling(w) \subseteq holders
    BY <1>1, <2>1 DEF Calling, IInv, Holding, Holds
  <2> DEFINE f == [i \in 1 .. n |-> s[i]]
  <2>3. f \in Surjection(1 .. n, holders)
    BY DEF Surjection
  <2> HIDE DEF f, holders, n
  <2>4. IsFiniteSet(1 .. n) /\ Cardinality(1 .. n) = n
    BY <2>1, FS_Interval
  <2>5. IsFiniteSet(holders) /\ Cardinality(holders) <= n
    BY <2>3, <2>4, FS_Surjection
  <2>6. /\ Cardinality(Calling(w)) <= Cardinality(holders)
        /\ Cardinality(Calling(w)) \in Nat /\ Cardinality(holders) \in Nat
    BY <2>2, <2>5, FS_Subset, FS_CardinalityType
  <2>7. QED
    BY <2>1, <2>5, <2>6
<1>2. IInv => WithinLimit
  BY <1>1 DEF WithinLimit
<1>3. QED
  BY <1>2, Inductive, PTL

(***************************************************************************)
(* Two calls of a worker begin at least Interval apart (resilience/        *)
(* client.py:109-123), although the time to wait is computed before the    *)
(* sleep and other tasks run during it.                                    *)
(***************************************************************************)
THEOREM PaceKept == Spec => Paced
<1>1. ASSUME IInv, [Next]_vars
      PROVE  [\A t \in Tasks : Begins(t) => since[Home[t]] = Interval]_vars
  <2> SUFFICES ASSUME Next, NEW t \in Tasks, Begins(t) PROVE since[Home[t]] = Interval
    BY <1>1
  <2> USE LimitsAssumption
  <2>1. since[Home[t]] \in 0 .. Interval /\ rest[t] \in 0 .. Interval
        /\ pc \in [Tasks -> Places]
    BY <1>1 DEF IInv, TypeOK
  <2>2. PaceGo(t) \/ PaceWake(t)
    BY <2>1 DEF Begins, Next, Proceed, Enter, AcquireSemaphore, PaceSleep, PaceGo,
       PaceWake, BeginCall, Return, Cancel, LeavesAll, Tick, Goto
  <2>3. since[Home[t]] >= Interval
    BY <1>1, <2>1, <2>2 DEF PaceGo, PaceWake, IInv, LongEnough
  <2>4. QED
    BY <2>1, <2>3
<1>2. QED
  BY <1>1, Inductive, PTL DEF Spec, Paced
=============================================================================
