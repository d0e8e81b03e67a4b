---------------------------- MODULE UptimeProofs ----------------------------
(***************************************************************************)
(* Theorems about the figures of UptimeFigures: what the page adds up from *)
(* the incident history (frontend/src/utils.ts) is a count of seconds.     *)
(***************************************************************************)
EXTENDS UptimeFigures, ReachabilityProofs, WellFoundedInduction

-----------------------------------------------------------------------------
(* Lemmas on the figures *)

(* The seconds of a range that some of the incidents cover. *)
Within(inc, t) == inc.start <= t /\ t < now /\ (inc.end = None \/ t < inc.end)
Seconds(incs, from, to) == {t \in from .. (to - 1) : \E inc \in incs : Within(inc, t)}

(* What may join a sum of overlaps: an incident that has ended, or the one *)
(* that has not.                                                           *)
Proper(inc) ==
  /\ inc.start \in Nat
  /\ inc.end = None \/ (inc.end \in Nat /\ inc.end <= now)

(* No second is covered twice. *)
Apart(incs) ==
  \A a, b \in incs : a # b => \A t \in Nat : ~(Within(a, t) /\ Within(b, t))

LEMMA RangeSize ==
  ASSUME NEW a \in Nat, NEW b \in Nat
  PROVE  IsFiniteSet(a .. (b - 1)) /\ Cardinality(a .. (b - 1)) = Beyond(b, a)
<1>1. a \in Int /\ b - 1 \in Int
  OBVIOUS
<1>2. /\ IsFiniteSet(a .. (b - 1))
      /\ Cardinality(a .. (b - 1)) = IF a > b - 1 THEN 0 ELSE (b - 1) - a + 1
  BY <1>1, FS_Interval
<1> QED BY <1>2 DEF Beyond

LEMMA SecondsFinite ==
  ASSUME NEW incs, NEW from \in Nat, NEW to \in Nat
  PROVE  /\ IsFiniteSet(Seconds(incs, from, to))
         /\ Cardinality(Seconds(incs, from, to)) \in Nat
<1>1. Seconds(incs, from, to) \in SUBSET (from .. (to - 1))
  BY DEF Seconds
<1> QED BY <1>1, RangeSize, FS_Subset, FS_CardinalityType

(* The overlap of one incident with a range counts its seconds in it.      *)
LEMMA OverlapCounts ==
  ASSUME now \in Nat, NEW inc, Proper(inc), NEW from \in Nat, NEW to \in Nat
  PROVE  Overlap(inc, from, to) = Cardinality(Seconds({inc}, from, to))
<1> DEFINE first == Greatest(inc.start, from)
           last == Least(EndOf(inc, to), to)
<1>1. /\ first \in Nat /\ last \in Nat
  BY FiguresAssumption DEF Greatest, Least, EndOf, Proper
<1>2. ASSUME NEW t \in Nat
      PROVE  t \in Seconds({inc}, from, to) <=> first <= t /\ t <= last - 1
  <2>1. CASE inc.end = None
    <3>1. EndOf(inc, to) = now
      BY <2>1 DEF EndOf
    <3> QED BY <2>1, <3>1 DEF Seconds, Within, Greatest, Least, Proper
  <2>2. CASE inc.end # None
    <3>1. EndOf(inc, to) = inc.end
      BY <2>2 DEF EndOf
    <3> QED BY <2>2, <3>1 DEF Seconds, Within, Greatest, Least, Proper
  <2> QED BY <2>1, <2>2
<1>3. Seconds({inc}, from, to) = first .. (last - 1)
  <2>1. \A t \in Seconds({inc}, from, to) : t \in Nat
    BY DEF Seconds
  <2>2. \A t \in first .. (last - 1) : t \in Nat /\ first <= t /\ t <= last - 1
    BY <1>1
  <2>3. \A t \in Nat : t \in first .. (last - 1) <=> first <= t /\ t <= last - 1
    BY <1>1
  <2> HIDE DEF first, last
  <2> QED BY <1>2, <2>1, <2>2, <2>3
<1>4. Overlap(inc, from, to) = Beyond(last, first)
  BY DEF Overlap
<1> HIDE DEF first, last
<1> QED BY <1>1, <1>3, <1>4, RangeSize

(* One incident more adds its seconds. *)
LEMMA OneMore ==
  ASSUME now \in Nat, NEW incs, Apart(incs), NEW inc \in incs, Proper(inc),
         NEW from \in Nat, NEW to \in Nat
  PROVE  Cardinality(Seconds(incs, from, to)) =
           Overlap(inc, from, to) + Cardinality(Seconds(incs \ {inc}, from, to))
<1> DEFINE mine == Seconds({inc}, from, to)
           others == Seconds(incs \ {inc}, from, to)
<1>1. /\ IsFiniteSet(mine) /\ IsFiniteSet(others)
      /\ Cardinality(mine) \in Nat /\ Cardinality(others) \in Nat
  BY SecondsFinite
<1>2. Seconds(incs, from, to) = mine \cup others
  BY DEF Seconds
<1>3. mine \cap others = {}
  BY DEF Seconds, Apart
<1>4. Cardinality(mine) = Overlap(inc, from, to)
  BY OverlapCounts
<1> HIDE DEF mine, others
<1>5. Cardinality(mine \cup others) = Cardinality(mine) + Cardinality(others)
  <2>1. Cardinality(mine \cup others) =
          Cardinality(mine) + Cardinality(others) - Cardinality(mine \cap others)
    BY <1>1, FS_Union
  <2>2. Cardinality(mine \cap others) = 0
    BY <1>3, FS_EmptySet
  <2> QED BY <1>1, <2>1, <2>2
<1>6. Cardinality(others) = Cardinality(Seconds(incs \ {inc}, from, to))
  BY DEF others
<1> QED BY <1>2, <1>4, <1>5, <1>6

Total(incs, from, to) == MapThenSumSet(LAMBDA inc : Overlap(inc, from, to), incs)

(* What the fold of a sum satisfies, of which it takes one that does.      *)
Adds(incs, from, to, g) ==
  g = [s \in SUBSET incs |->
        IF s = {} THEN 0
        ELSE LET inc == CHOOSE inc \in s : TRUE
             IN  Overlap(inc, from, to) + g[s \ {inc}]]

LEMMA SumUnfolds ==
  ASSUME NEW incs, NEW from, NEW to
  PROVE  Total(incs, from, to) = (CHOOSE g : Adds(incs, from, to, g))[incs]
BY DEF Total, MapThenSumSet, MapThenFoldSet, Adds

LEMMA LeastOf ==
  ASSUME NEW S \in SUBSET Nat, S # {}
  PROVE  \E n \in S : \A m \in S : n <= m
<1>1. PICK n \in S : \A m \in S : ~ (<<m, n>> \in OpToRel(<, Nat))
  BY WFMin, NatLessThanWellFounded, Zenon
<1>2. \A m \in S : ~ (m < n)
  BY <1>1 DEF OpToRel
<1> QED BY <1>2

(* The overlaps of incidents that are apart add up to their seconds.  The  *)
(* counts satisfy what the fold does, and nothing else can: there is no    *)
(* smallest set of incidents on which another sum would differ.            *)
LEMMA SumCounts ==
  ASSUME now \in Nat, NEW incs, IsFiniteSet(incs), Apart(incs),
         \A inc \in incs : Proper(inc), NEW from \in Nat, NEW to \in Nat
  PROVE  Total(incs, from, to) = Cardinality(Seconds(incs, from, to))
<1> DEFINE count == [s \in SUBSET incs |-> Cardinality(Seconds(s, from, to))]
           sum == CHOOSE g : Adds(incs, from, to, g)
<1>1. ASSUME NEW s \in SUBSET incs, s # {}
      PROVE  LET inc == CHOOSE inc \in s : TRUE IN
             inc \in s /\ count[s] = Overlap(inc, from, to) + count[s \ {inc}]
  <2> DEFINE inc == CHOOSE inc \in s : TRUE
  <2>1. inc \in s
    BY <1>1
  <2> HIDE DEF inc
  <2>2. inc \in s /\ Proper(inc) /\ Apart(s) /\ s \ {inc} \in SUBSET incs
    BY <2>1 DEF Apart
  <2>3. count[s] = Overlap(inc, from, to) + count[s \ {inc}]
    BY <2>2, OneMore
  <2> QED BY <2>1, <2>3 DEF inc
<1>2. count[{}] = 0
  <2>1. Seconds({}, from, to) = {}
    BY DEF Seconds
  <2> QED BY <2>1, FS_EmptySet
<1> HIDE DEF count
<1>3. Adds(incs, from, to, count)
  <2>1. count = [s \in SUBSET incs |-> count[s]]
    BY DEF count
  <2>2. \A s \in SUBSET incs :
          count[s] = IF s = {} THEN 0
                     ELSE LET inc == CHOOSE inc \in s : TRUE
                          IN  Overlap(inc, from, to) + count[s \ {inc}]
    BY <1>1, <1>2
  <2> QED BY <2>1, <2>2 DEF Adds
<1>4. Adds(incs, from, to, sum)
  BY <1>3
<1> HIDE DEF sum
<1>5. \A s \in SUBSET incs :
        sum[s] = IF s = {} THEN 0
                 ELSE LET inc == CHOOSE inc \in s : TRUE
                      IN  Overlap(inc, from, to) + sum[s \ {inc}]
  BY <1>4 DEF Adds
<1> DEFINE sizes == {Cardinality(s) : s \in {x \in SUBSET incs : sum[x] # count[x]}}
<1>6. ASSUME sizes # {} PROVE FALSE
  <2>1. \A s \in SUBSET incs : IsFiniteSet(s) /\ Cardinality(s) \in Nat
    BY FS_Subset, FS_CardinalityType
  <2>2. PICK n \in sizes : \A m \in sizes : n <= m
    BY <1>6, <2>1, LeastOf
  <2>3. PICK s \in SUBSET incs : sum[s] # count[s] /\ Cardinality(s) = n
    BY <2>2
  <2>4. s # {}
    BY <1>2, <1>5, <2>3
  <2> DEFINE inc == CHOOSE inc \in s : TRUE
  <2>5. /\ inc \in s /\ count[s] = Overlap(inc, from, to) + count[s \ {inc}]
        /\ sum[s] = Overlap(inc, from, to) + sum[s \ {inc}]
    BY <1>1, <1>5, <2>4
  <2> HIDE DEF inc
  <2>6. sum[s \ {inc}] # count[s \ {inc}] /\ s \ {inc} \in SUBSET incs
    BY <2>3, <2>5
  <2>7. Cardinality(s \ {inc}) \in sizes
    BY <2>6
  <2>8. Cardinality(s \ {inc}) = n - 1 /\ n \in Nat
    BY <2>1, <2>3, <2>5, FS_RemoveElement
  <2>9. n <= n - 1
    BY <2>2, <2>7, <2>8
  <2> QED BY <2>8, <2>9
<1>7. sum[incs] = count[incs]
  BY <1>6
<1>8. count[incs] = Cardinality(Seconds(incs, from, to))
  BY DEF count
<1> QED BY <1>7, <1>8, SumUnfolds DEF sum

-----------------------------------------------------------------------------
(* The history as a set of incidents *)

LEMMA FiledParts ==
  ASSUME NEW w \in Window, NEW i \in w.filed
  PROVE  i.start \in Nat /\ i.end \in Nat
BY WindowParts DEF Incident

(* The incidents of a history in order, with the one that goes on, are     *)
(* finitely many and apart.                                                *)
LEMMA HistoryApart ==
  ASSUME now \in Nat, NEW w \in Window, Ordered(w, now), IsFiniteSet(w.filed)
  PROVE  /\ IsFiniteSet(All(w)) /\ Apart(All(w))
         /\ \A inc \in All(w) : Proper(inc)
<1> DEFINE past == {[start |-> i.start, end |-> i.end, severity |-> i.severity] : i \in w.filed}
           open == IF w.ongoing = None THEN {}
                   ELSE {[start |-> w.ongoing.start, end |-> None,
                          severity |-> w.ongoing.severity]}
<1>0. All(w) = past \cup open
  BY DEF All
<1>1. IsFiniteSet(past)
  <2> DEFINE f == [i \in w.filed |->
                    [start |-> i.start, end |-> i.end, severity |-> i.severity]]
  <2>1. f \in Surjection(w.filed, past)
    BY DEF Surjection
  <2> QED BY <2>1, FS_Surjection
<1>2. IsFiniteSet(open)
  BY FS_EmptySet, FS_Singleton
<1>3. ASSUME NEW a \in past
      PROVE  \E i \in w.filed : a.start = i.start /\ a.end = i.end /\ i.end <= now
                                /\ i.start \in Nat /\ i.end \in Nat
                                /\ a = [start |-> i.start, end |-> i.end,
                                        severity |-> i.severity]
  BY FiledParts DEF Ordered
<1>4. ASSUME NEW a \in open
      PROVE  /\ a.start \in Nat /\ a.end = None
             /\ \A i \in w.filed : i.end <= a.start
             /\ \A b \in open : b = a
  BY WindowParts DEF Ordered, Detail
<1> HIDE DEF past, open
<1>5. ASSUME NEW a \in past \cup open, NEW b \in past \cup open, a # b,
             NEW t \in Nat, Within(a, t), Within(b, t)
      PROVE  FALSE
  <2>1. CASE a \in past /\ b \in past
    <3>1. PICK i \in w.filed : a.start = i.start /\ a.end = i.end /\ i.end \in Nat
                               /\ i.start \in Nat
                               /\ a = [start |-> i.start, end |-> i.end,
                                       severity |-> i.severity]
      BY <1>3, <2>1
    <3>2. PICK j \in w.filed : b.start = j.start /\ b.end = j.end /\ j.end \in Nat
                               /\ j.start \in Nat
                               /\ b = [start |-> j.start, end |-> j.end,
                                       severity |-> j.severity]
      BY <1>3, <2>1
    <3>3. i # j
      BY <1>5, <3>1, <3>2
    <3>4. i.end <= j.start \/ j.end <= i.start
      BY <3>3 DEF Ordered, Disjoint
    <3>5. i.start <= t /\ t < i.end /\ j.start <= t /\ t < j.end
      BY <1>5, <3>1, <3>2, FiguresAssumption DEF Within
    <3> QED BY <3>1, <3>2, <3>4, <3>5
  <2>2. ASSUME NEW c \in past, NEW d \in open, Within(c, t), Within(d, t) PROVE FALSE
    <3>1. PICK i \in w.filed : c.end = i.end /\ i.end \in Nat
      BY <1>3
    <3>2. i.end <= d.start /\ d.start \in Nat
      BY <1>4
    <3>3. t < i.end /\ d.start <= t
      BY <2>2, <3>1, FiguresAssumption DEF Within
    <3> QED BY <3>1, <3>2, <3>3
  <2>3. CASE a \in open /\ b \in open
    BY <1>4, <1>5, <2>3
  <2> QED BY <1>5, <2>1, <2>2, <2>3
<1>6. Apart(All(w))
  BY <1>0, <1>5 DEF Apart
<1>7. ASSUME NEW a \in past \cup open PROVE Proper(a)
  BY <1>3, <1>4 DEF Proper
<1> QED BY <1>0, <1>1, <1>2, <1>6, <1>7, FS_Union

(* A figure of the page counts the seconds that the history says were so:  *)
(* up to now, if the range goes on beyond it.                              *)
LEMMA FigureCounts ==
  ASSUME now \in Nat, NEW w \in Window, Ordered(w, now), IsFiniteSet(w.filed),
         NEW severity, NEW from \in Nat, NEW to \in Nat, NEW until \in Nat,
         until = to \/ until = Least(now, to)
  PROVE  SecondsOf(w, severity, from, to) = Counted(w, severity, from, until)
<1> DEFINE incs == {inc \in All(w) : inc.severity = severity}
<1>1. /\ IsFiniteSet(incs) /\ Apart(incs) /\ \A inc \in incs : Proper(inc)
  <2>1. IsFiniteSet(All(w)) /\ Apart(All(w)) /\ \A inc \in All(w) : Proper(inc)
    BY HistoryApart
  <2> QED BY <2>1, FS_Subset DEF Apart
<1>2. SecondsOf(w, severity, from, to) = Total(incs, from, to)
  BY DEF SecondsOf, Total
<1>3. Total(incs, from, to) = Cardinality(Seconds(incs, from, to))
  <2> HIDE DEF incs
  <2> QED BY <1>1, SumCounts
<1>4. Seconds(incs, from, to) = {t \in from .. (until - 1) : Was(w, severity, t)}
  <2>1. ASSUME NEW t \in Nat
        PROVE  (\E inc \in incs : Within(inc, t)) <=> Was(w, severity, t)
    BY DEF Within, Was
  <2>2. ASSUME NEW t \in Nat, Was(w, severity, t)
        PROVE  t \in from .. (to - 1) <=> t \in from .. (until - 1)
    <3>1. t < now
      BY <2>2 DEF Was
    <3> QED BY <3>1 DEF Least
  <2>3. /\ \A t \in from .. (to - 1) : t \in Nat
        /\ \A t \in from .. (until - 1) : t \in Nat
    OBVIOUS
  <2> HIDE DEF incs
  <2> QED BY <2>1, <2>2, <2>3 DEF Seconds
<1> QED BY <1>2, <1>3, <1>4 DEF Counted

(* No second was both an outage and a degradation. *)
LEMMA BothAtMostAll ==
  ASSUME now \in Nat, NEW w \in Window, Ordered(w, now), IsFiniteSet(w.filed),
         NEW from \in Nat, NEW to \in Nat
  PROVE  Counted(w, "outage", from, to) + Counted(w, "degraded", from, to)
           <= Beyond(to, from)
<1> DEFINE range == from .. (to - 1)
           outage == {t \in range : Was(w, "outage", t)}
           degraded == {t \in range : Was(w, "degraded", t)}
<1>1. IsFiniteSet(range) /\ Cardinality(range) = Beyond(to, from)
  BY RangeSize
<1>2. /\ outage \cup degraded \in SUBSET range
      /\ outage \in SUBSET range /\ degraded \in SUBSET range
  OBVIOUS
<1>3. outage \cap degraded = {}
  <2> SUFFICES ASSUME NEW t \in range, Was(w, "outage", t), Was(w, "degraded", t)
               PROVE  FALSE
    OBVIOUS
  <2>1. t \in Nat
    OBVIOUS
  <2>2. PICK a \in All(w) : a.severity = "outage" /\ Within(a, t)
    BY DEF Was, Within
  <2>3. PICK b \in All(w) : b.severity = "degraded" /\ Within(b, t)
    BY DEF Was, Within
  <2>4. a # b
    BY <2>2, <2>3
  <2> QED BY <2>1, <2>2, <2>3, <2>4, HistoryApart DEF Apart
<1>4. /\ Counted(w, "outage", from, to) = Cardinality(outage)
      /\ Counted(w, "degraded", from, to) = Cardinality(degraded)
  BY DEF Counted
<1> HIDE DEF range, outage, degraded
<1>5. IsFiniteSet(outage) /\ IsFiniteSet(degraded)
  BY <1>1, <1>2, FS_Subset
<1>6. Cardinality(outage) \in Nat /\ Cardinality(degraded) \in Nat
  BY <1>5, FS_CardinalityType
<1>7. Cardinality(outage \cup degraded) =
        Cardinality(outage) + Cardinality(degraded) - Cardinality(outage \cap degraded)
  BY <1>5, FS_Union
<1>8. Cardinality(outage \cap degraded) = 0
  BY <1>3, FS_EmptySet
<1>9. Cardinality(outage \cup degraded) <= Cardinality(range)
  BY <1>1, <1>2, FS_Subset
<1> QED BY <1>1, <1>4, <1>6, <1>7, <1>8, <1>9

-----------------------------------------------------------------------------
(* The figures of every history the recorder reaches *)

(* A history is finite, in memory and in the file. *)
FiniteInv ==
  /\ IsFiniteSet(window.filed)
  /\ disk \notin {Missing, Corrupt} => IsFiniteSet(disk.filed)

LEMMA FoldedFinite ==
  ASSUME NEW w, IsFiniteSet(w.filed), NEW ok, NEW ts
  PROVE  IsFiniteSet(Folded(w, ok, ts).filed)
<1>1. IsFiniteSet(Kept(w.filed, ts))
  BY FS_Subset DEF Kept
<1>2. IsFiniteSet(Closed(w.ongoing, ts))
  BY FS_EmptySet, FS_Singleton DEF Closed
<1>3. \/ Folded(w, ok, ts).filed = Kept(w.filed, ts) \cup Closed(w.ongoing, ts)
      \/ Folded(w, ok, ts).filed = Kept(w.filed, ts)
  BY DEF Folded
<1> QED BY <1>1, <1>2, <1>3, FS_Union

THEOREM HistoryIsFinite == Spec => []FiniteInv
<1>1. Init => FiniteInv
  BY FS_EmptySet DEF Init, FiniteInv, FreshWindow
<1>2. FiniteInv /\ [Next]_vars => FiniteInv'
  <2> SUFFICES ASSUME FiniteInv, [Next]_vars PROVE FiniteInv'
    OBVIOUS
  <2>1. CASE UNCHANGED <<window, disk>>
    BY <2>1 DEF FiniteInv
  <2>2. ASSUME NEW c \in Checks, RecordResult(c) \/ RecordFails(c) PROVE FiniteInv'
    <3>1. /\ window' = Folded(window, proc[c].ok, now)
          /\ disk' = window' \/ disk' = disk
      BY <2>2 DEF RecordResult, RecordFails, Record
    <3>2. IsFiniteSet(window'.filed)
      BY <3>1, FoldedFinite DEF FiniteInv
    <3> QED BY <3>1, <3>2 DEF FiniteInv
  <2>3. CASE Shutdown
    BY <2>3 DEF Shutdown, Stops, FiniteInv
  <2>4. CASE Start
    <3>1. IsFiniteSet(Loaded.filed)
      BY FS_EmptySet DEF FiniteInv, Loaded, FreshWindow
    <3>2. IsFiniteSet(Kept(Loaded.filed, now))
      BY <3>1, FS_Subset DEF Kept
    <3>3. IsFiniteSet(window'.filed)
      BY <2>4, <3>2 DEF Start, Pruned
    <3> QED BY <2>4, <3>3 DEF FiniteInv, Start
  <2>5. CASE FileDamaged
    BY <2>5 DEF FileDamaged, FiniteInv
  <2> QED BY <2>1, <2>2, <2>3, <2>4, <2>5
          DEF Next, vars, StartCheck, ProbesAnswer, HooksReturn, FlushState,
              Crash, Stops, Tick
<1> QED BY <1>1, <1>2, PTL DEF Spec

(* Whatever the checks saw and however the process stopped and started,    *)
(* the figures on the page count seconds of the history, none of them      *)
(* twice or in the future, and a day is called healthy when none was bad.  *)
THEOREM FiguresCount == Spec => []FiguresAreCounted
<1>1. TypeOK /\ OrderInv /\ FiniteInv => FiguresAreCounted
  <2> SUFFICES ASSUME TypeOK, OrderInv, FiniteInv PROVE FiguresAreCounted
    OBVIOUS
  <2>0. /\ now \in Nat /\ window \in Window /\ window.since \in Nat
        /\ Ordered(window, now) /\ IsFiniteSet(window.filed) /\ window.since <= now
        /\ DayLength \in Nat /\ DayLength > 0 /\ Days \in Nat
    BY WindowParts, FiguresAssumption DEF TypeOK, OrderInv, FiniteInv, Ordered
  <2> DEFINE s == Stats(window)
  <2>1. s.from \in Nat /\ s.observed = Beyond(now, s.from)
        /\ s.offline = SecondsOf(window, "outage", s.from, now)
        /\ s.degraded = SecondsOf(window, "degraded", s.from, now)
    <3>1. Days * DayLength \in Nat
      BY <2>0
    <3>2. Beyond(now, Days * DayLength) \in Nat
      BY <2>0, <3>1 DEF Beyond
    <3>3. Greatest(window.since, Beyond(now, Days * DayLength)) \in Nat
      BY <2>0, <3>2 DEF Greatest
    <3> QED BY <3>3 DEF Stats
  <2> HIDE DEF s
  <2>2. /\ s.offline = Counted(window, "outage", s.from, now)
        /\ s.degraded = Counted(window, "degraded", s.from, now)
    BY <2>0, <2>1, FigureCounts
  <2>3. s.offline + s.degraded <= s.observed
    BY <2>0, <2>1, <2>2, BothAtMostAll
  <2>4. ASSUME NEW back \in 0 .. now, back * DayLength <= now - (now % DayLength)
        PROVE  LET b == Bucket(window, back) IN
               /\ b.offline = Counted(window, "outage", b.start, b.observedEnd)
               /\ b.degraded = Counted(window, "degraded", b.start, b.observedEnd)
               /\ b.worst = "healthy" <=>
                    \A t \in b.start .. (b.observedEnd - 1) :
                      ~Was(window, "outage", t) /\ ~Was(window, "degraded", t)
    <3> DEFINE b == Bucket(window, back)
               end == b.start + DayLength
    <3>1. b.start \in Nat
      <4>1. now - (now % DayLength) \in Int /\ back * DayLength \in Int
        BY <2>0
      <4> QED BY <2>4, <4>1 DEF Bucket
    <3>2. /\ b.observedEnd = Least(now, end)
          /\ b.offline = SecondsOf(window, "outage", b.start, end)
          /\ b.degraded = SecondsOf(window, "degraded", b.start, end)
          /\ b.worst = IF b.offline > 0 THEN "outage"
                       ELSE IF b.degraded > 0 THEN "degraded" ELSE "healthy"
      BY DEF Bucket
    <3> HIDE DEF b
    <3>3. end \in Nat /\ b.observedEnd \in Nat
      BY <2>0, <3>1, <3>2 DEF Least
    <3> HIDE DEF end
    <3>4. /\ b.offline = Counted(window, "outage", b.start, b.observedEnd)
          /\ b.degraded = Counted(window, "degraded", b.start, b.observedEnd)
      BY <2>0, <3>1, <3>2, <3>3, FigureCounts
    <3>5. ASSUME NEW severity
          PROVE  /\ Counted(window, severity, b.start, b.observedEnd) \in Nat
                 /\ Counted(window, severity, b.start, b.observedEnd) = 0 <=>
                      \A t \in b.start .. (b.observedEnd - 1) : ~Was(window, severity, t)
      <4> DEFINE range == b.start .. (b.observedEnd - 1)
                 bad == {t \in range : Was(window, severity, t)}
      <4>1. IsFiniteSet(range) /\ bad \in SUBSET range
        BY <3>1, <3>3, RangeSize
      <4>2. IsFiniteSet(bad) /\ Cardinality(bad) \in Nat
        BY <4>1, FS_Subset, FS_CardinalityType
      <4>3. Cardinality(bad) = 0 <=> bad = {}
        BY <4>2, FS_EmptySet
      <4>4. Counted(window, severity, b.start, b.observedEnd) = Cardinality(bad)
        BY DEF Counted
      <4> QED BY <4>2, <4>3, <4>4
    <3>6. b.worst = "healthy" <=> b.offline = 0 /\ b.degraded = 0
      BY <3>2, <3>4, <3>5
    <3>7. b.worst = "healthy" <=>
            \A t \in b.start .. (b.observedEnd - 1) :
              ~Was(window, "outage", t) /\ ~Was(window, "degraded", t)
      BY <3>4, <3>5, <3>6
    <3> QED BY <3>4, <3>7 DEF b
  <2> QED BY <2>2, <2>3, <2>4 DEF FiguresAreCounted, s
<1> QED BY <1>1, TypeCorrect, OrderInvariant, HistoryIsFinite, PTL
=============================================================================
