------------------------- MODULE ReachabilityProofs -------------------------
(***************************************************************************)
(* Theorems about Reachability, for every set of resolvers, every quorum,  *)
(* retention and bound, and any number of overlapping checks but in the    *)
(* last theorem, which is about one check at a time.                       *)
(***************************************************************************)
EXTENDS Reachability, FiniteSetTheorems, TLAPS

-----------------------------------------------------------------------------
(* The operators the recorder is built from *)

(* The number of resolvers that answered is a number. *)
LEMMA SuccessCount ==
  ASSUME NEW ok \in SUBSET Resolvers
  PROVE  Cardinality(ok) \in Nat
BY FS_Subset, FS_CardinalityType, ReachabilityAssumption

(* A check is classified as healthy, degraded or an outage. *)
LEMMA ClassifyType ==
  ASSUME NEW ok \in SUBSET Resolvers
  PROVE  Classify(ok) \in Severities \cup {None}
BY DEF Classify, Severities

(* What record makes of the ongoing incident is one again, or None. *)
LEMMA OngoingType ==
  ASSUME NEW ok \in SUBSET Resolvers, NEW ts \in Nat,
         NEW ongoing \in Detail \cup {None}
  PROVE  /\ Opened(ok, ts) \in Detail \cup {None}
         /\ Widened(ongoing, ok) \in Detail \cup {None}
         /\ Closed(ongoing, ts) \in SUBSET Incident
<1>1. Opened(ok, ts) \in Detail \cup {None}
  BY SuccessCount, ClassifyType DEF Opened, Detail
<1>2. Widened(ongoing, ok) \in Detail \cup {None}
  BY SuccessCount DEF Widened, Detail
<1>3. Closed(ongoing, ts) \in SUBSET Incident
  BY DEF Closed, Detail, Incident
<1> QED BY <1>1, <1>2, <1>3

(* Folding a check into a window, and pruning one, give a window. *)
LEMMA FoldedType ==
  ASSUME NEW w \in Window, NEW ok \in SUBSET Resolvers, NEW ts \in Nat
  PROVE  Folded(w, ok, ts) \in Window
<1>1. /\ w.since \in Nat /\ w.rev \in Nat /\ w.filed \in SUBSET Incident
      /\ w.ongoing \in Detail \cup {None}
  BY DEF Window
<1>2. Kept(w.filed, ts) \in SUBSET Incident
  BY <1>1 DEF Kept
<1>3. /\ Opened(ok, ts) \in Detail \cup {None}
      /\ Widened(w.ongoing, ok) \in Detail \cup {None}
      /\ Closed(w.ongoing, ts) \in SUBSET Incident
  BY <1>1, OngoingType
<1> QED BY <1>1, <1>2, <1>3 DEF Folded, Window

LEMMA IdleType == IdleCheck \in CheckState
BY DEF IdleCheck, CheckState

LEMMA FreshType == ASSUME NEW ts \in Nat PROVE FreshWindow(ts) \in Window
BY DEF FreshWindow, Window

LEMMA PrunedType == ASSUME NEW w \in Window, now \in Nat PROVE Pruned(w) \in Window
<1>1. Kept(w.filed, now) \in SUBSET Incident
  BY DEF Kept, Window
<1> QED BY <1>1 DEF Pruned, Window

-----------------------------------------------------------------------------
(* Type correctness *)

(* Every reachable state is well formed: TypeOK is inductive. *)
THEOREM TypeCorrect == Spec => []TypeOK
<1>1. Init => TypeOK
  <2> SUFFICES ASSUME Init PROVE TypeOK
    OBVIOUS
  <2>1. window \in Window /\ published \in [ongoing : Detail \cup {None}, rev : Nat]
    BY FreshType DEF Init, View, FreshWindow
  <2> QED BY <2>1, IdleType DEF Init, TypeOK
<1>2. TypeOK /\ [Next]_vars => TypeOK'
  <2> SUFFICES ASSUME TypeOK, [Next]_vars PROVE TypeOK'
    OBVIOUS
  <2> USE DEF TypeOK
  <2>1. CASE UNCHANGED vars
    BY <2>1 DEF vars
  <2>2. ASSUME NEW c \in Checks, StartCheck(c) PROVE TypeOK'
    <3>1. [pc |-> "probing", was |-> online, ok |-> {}] \in CheckState
      BY DEF CheckState
    <3>2. proc' \in [Checks -> CheckState]
      BY <2>2, <3>1 DEF StartCheck
    <3> QED BY <2>2, <3>2 DEF StartCheck
  <2>3. ASSUME NEW c \in Checks, ProbesAnswer(c) PROVE TypeOK'
    <3>1. PICK ok \in SUBSET Resolvers :
            proc' = [proc EXCEPT ![c].pc = "answered", ![c].ok = ok]
      BY <2>3 DEF ProbesAnswer
    <3>2. proc' = [proc EXCEPT ![c] = [@ EXCEPT !.pc = "answered", !.ok = ok]]
      BY <3>1 DEF CheckState
    <3>3. [proc[c] EXCEPT !.pc = "answered", !.ok = ok] \in CheckState
      BY DEF CheckState
    <3>4. proc' \in [Checks -> CheckState]
      BY <3>2, <3>3
    <3> QED BY <2>3, <3>4 DEF ProbesAnswer
  <2>4. ASSUME NEW c \in Checks, RecordResult(c) PROVE TypeOK'
    <3> DEFINE ok == proc[c].ok
    <3>1. ok \in SUBSET Resolvers
      BY DEF CheckState
    <3>2. window' \in Window
      BY <2>4, <3>1, FoldedType DEF RecordResult, Record
    <3>3. dirty' \in BOOLEAN /\ disk' \in Window \cup {Missing, Corrupt}
      BY <2>4, <3>2 DEF RecordResult, Record, Dirty
    <3>4. published' \in [ongoing : Detail \cup {None}, rev : Nat]
      BY <2>4, <3>2 DEF RecordResult, View, Window
    <3>5. proc' \in [Checks -> CheckState]
      BY <2>4, IdleType DEF RecordResult, CheckState
    <3>6. told' \in [online : BOOLEAN, was : BOOLEAN] /\ online' \in BOOLEAN
      <4>1. IsOnline(ok) \in BOOLEAN /\ proc[c].was \in BOOLEAN
        BY DEF IsOnline, CheckState
      <4>2. CASE Transition(IsOnline(ok))
        BY <2>4, <4>1, <4>2 DEF RecordResult
      <4>3. CASE ~Transition(IsOnline(ok))
        BY <2>4, <4>1, <4>3 DEF RecordResult
      <4> QED BY <4>2, <4>3
    <3>7. seen' \subseteq Nat \X (Severities \cup {None})
      BY <2>4, <3>1, ClassifyType DEF RecordResult
    <3> QED BY <2>4, <3>2, <3>3, <3>4, <3>5, <3>6, <3>7 DEF RecordResult
  <2>5. ASSUME NEW c \in Checks, RecordFails(c) PROVE TypeOK'
    <3>1. proc[c].ok \in SUBSET Resolvers
      BY DEF CheckState
    <3>2. window' \in Window
      BY <2>5, <3>1, FoldedType DEF RecordFails
    <3>3. seen' \subseteq Nat \X (Severities \cup {None})
      BY <2>5, <3>1, ClassifyType DEF RecordFails
    <3>4. proc' \in [Checks -> CheckState]
      BY <2>5, IdleType DEF RecordFails
    <3>5. dirty' \in BOOLEAN
      BY <2>5 DEF RecordFails, Dirty
    <3> QED BY <2>5, <3>2, <3>3, <3>4, <3>5 DEF RecordFails
  <2>6. ASSUME NEW c \in Checks, HooksReturn(c) PROVE TypeOK'
    <3>1. proc' \in [Checks -> CheckState]
      BY <2>6, IdleType DEF HooksReturn
    <3> QED BY <2>6, <3>1 DEF HooksReturn
  <2>7. CASE FlushState
    BY <2>7 DEF FlushState
  <2>8. CASE Shutdown
    <3>1. proc' \in [Checks -> CheckState]
      BY <2>8, IdleType DEF Shutdown, Stops
    <3>2. spent' \in [checks : Nat, stops : Nat, faults : Nat]
      BY <2>8 DEF Shutdown, Stops
    <3> QED BY <2>8, <3>1, <3>2 DEF Shutdown, Stops
  <2>9. CASE Crash
    <3>1. proc' \in [Checks -> CheckState]
      BY <2>9, IdleType DEF Crash, Stops
    <3>2. spent' \in [checks : Nat, stops : Nat, faults : Nat]
      BY <2>9 DEF Crash, Stops
    <3> QED BY <2>9, <3>1, <3>2 DEF Crash, Stops
  <2>10. CASE Start
    <3>1. Loaded \in Window
      BY FreshType DEF Loaded
    <3>2. window' \in Window
      BY <2>10, <3>1, PrunedType DEF Start
    <3>3. published' \in [ongoing : Detail \cup {None}, rev : Nat]
      BY <2>10, <3>2 DEF Start, View, Window
    <3> QED BY <2>10, <3>2, <3>3 DEF Start
  <2>11. CASE FileDamaged
    BY <2>11 DEF FileDamaged
  <2>12. CASE Tick
    BY <2>12 DEF Tick
  <2> QED BY <2>1, <2>2, <2>3, <2>4, <2>5, <2>6, <2>7, <2>8, <2>9, <2>10,
             <2>11, <2>12 DEF Next
<1> QED BY <1>1, <1>2, PTL DEF Spec

-----------------------------------------------------------------------------
(* Incidents do not overlap *)

(* The parts of a window, typed. *)
LEMMA WindowParts ==
  ASSUME NEW w \in Window
  PROVE  /\ w.since \in Nat /\ w.rev \in Nat
         /\ w.filed \in SUBSET Incident
         /\ w.ongoing \in Detail \cup {None}
BY DEF Window

(* Time alone does not disorder a window. *)
LEMMA OrderedLater ==
  ASSUME NEW w \in Window, NEW t \in Nat, NEW u \in Nat, t <= u, Ordered(w, t)
  PROVE  Ordered(w, u)
BY WindowParts DEF Ordered, Incident, Detail

LEMMA FreshOrdered == ASSUME NEW t \in Nat PROVE Ordered(FreshWindow(t), t)
BY DEF Ordered, FreshWindow

(* Nor does dropping expired incidents. *)
LEMMA PrunedOrdered ==
  ASSUME NEW w, Ordered(w, now)
  PROVE  Ordered(Pruned(w), now)
BY DEF Ordered, Pruned, Kept

(* Folding a check keeps the order: what closes ends now, and what opens   *)
(* begins now.                                                             *)
LEMMA FoldedOrdered ==
  ASSUME NEW w \in Window, NEW ok \in SUBSET Resolvers, NEW ts \in Nat,
         Ordered(w, ts)
  PROVE  Ordered(Folded(w, ok, ts), ts)
<1> DEFINE f == Folded(w, ok, ts)
<1>0. /\ w.since \in Nat /\ w.filed \in SUBSET Incident
      /\ w.ongoing \in Detail \cup {None}
  BY WindowParts
<1>1. f.since = w.since
  BY DEF Folded
<1>2. \A i \in Kept(w.filed, ts) : i \in w.filed
  BY DEF Kept
<1>3. CASE Turns(w, ok)
  <2>1. /\ f.filed = Kept(w.filed, ts) \cup Closed(w.ongoing, ts)
        /\ f.ongoing = Opened(ok, ts)
    BY <1>3 DEF Folded
  <2>2. \A i \in Closed(w.ongoing, ts) :
          /\ w.since <= i.start /\ i.start <= i.end /\ i.end = ts
          /\ \A j \in w.filed : j.end <= i.start
    BY <1>0 DEF Closed, Ordered
  <2>3. \A i, j \in Closed(w.ongoing, ts) : i = j
    BY DEF Closed
  <2>4. \A i \in f.filed : w.since <= i.start /\ i.start <= i.end /\ i.end <= ts
    BY <1>2, <2>1, <2>2 DEF Ordered
  <2>5. \A i, j \in f.filed : i # j => Disjoint(i, j)
    BY <1>2, <2>1, <2>2, <2>3 DEF Ordered, Disjoint
  <2>6. f.ongoing # None => f.ongoing.start = ts
    BY <2>1 DEF Opened
  <2> QED BY <1>0, <1>1, <2>4, <2>5, <2>6 DEF Ordered
<1>4. CASE ~Turns(w, ok)
  <2>1. f.filed = Kept(w.filed, ts) /\ f.ongoing = Widened(w.ongoing, ok)
    BY <1>4 DEF Folded
  <2>2. f.ongoing # None => w.ongoing # None /\ f.ongoing.start = w.ongoing.start
    BY <1>0, <2>1 DEF Widened, Detail
  <2> QED BY <1>1, <1>2, <2>1, <2>2 DEF Ordered
<1> QED BY <1>3, <1>4

(* Both the recorder's window and the file are in order. *)
OrderInv ==
  /\ Ordered(window, now)
  /\ disk \in Window => Ordered(disk, now)

(* OrderInv is inductive: a crash brings back the file, so the file has to *)
(* be in order as well.                                                    *)
THEOREM OrderInvariant == Spec => []OrderInv
<1>1. Init => OrderInv
  BY FreshOrdered, ReachabilityAssumption DEF Init, OrderInv
<1>2. TypeOK /\ OrderInv /\ [Next]_vars => OrderInv'
  <2> SUFFICES ASSUME TypeOK, OrderInv, [Next]_vars PROVE OrderInv'
    OBVIOUS
  <2>0. now \in Nat /\ window \in Window
    BY DEF TypeOK
  <2>1. CASE UNCHANGED <<window, disk, now>>
    BY <2>1 DEF OrderInv
  <2>2. ASSUME NEW c \in Checks, RecordResult(c) PROVE OrderInv'
    <3>1. proc[c].ok \in SUBSET Resolvers
      BY DEF TypeOK, CheckState
    <3>2. Ordered(window', now)
      BY <2>0, <2>2, <3>1, FoldedOrdered DEF OrderInv, RecordResult, Record
    <3> QED BY <2>2, <3>2 DEF OrderInv, RecordResult, Record
  <2>3. ASSUME NEW c \in Checks, RecordFails(c) PROVE OrderInv'
    <3>1. proc[c].ok \in SUBSET Resolvers
      BY DEF TypeOK, CheckState
    <3>2. Ordered(window', now)
      BY <2>0, <2>3, <3>1, FoldedOrdered DEF OrderInv, RecordFails
    <3> QED BY <2>3, <3>2 DEF OrderInv, RecordFails
  <2>4. CASE Shutdown
    BY <2>4 DEF OrderInv, Shutdown, Stops
  <2>5. CASE Start
    <3>1. Ordered(Loaded, now)
      BY <2>0, FreshOrdered DEF OrderInv, Loaded, TypeOK
    <3>2. Ordered(window', now)
      BY <2>5, <3>1, PrunedOrdered DEF Start
    <3> QED BY <2>5, <3>2 DEF OrderInv, Start
  <2>6. CASE FileDamaged
    BY <2>6, ReachabilityAssumption DEF OrderInv, FileDamaged
  <2>7. CASE Tick
    <3>1. now' = now + 1 /\ UNCHANGED <<window, disk>>
      BY <2>7 DEF Tick
    <3>2. \A w \in Window : Ordered(w, now) => Ordered(w, now + 1)
      BY <2>0, OrderedLater
    <3> QED BY <2>0, <3>1, <3>2 DEF OrderInv
  <2> QED BY <2>1, <2>2, <2>3, <2>4, <2>5, <2>6, <2>7
          DEF Next, vars, StartCheck, ProbesAnswer, HooksReturn, FlushState,
              Crash, Stops
<1> QED BY <1>1, <1>2, TypeCorrect, PTL DEF Spec

(* Incidents never overlap nor leave the monitored time, however checks    *)
(* interleave, saves fail and the process stops and starts.                *)
THEOREM IncidentsAreChronological == Spec => []Chronological
<1>1. OrderInv => Chronological
  BY DEF OrderInv, Chronological
<1> QED BY <1>1, OrderInvariant, PTL

-----------------------------------------------------------------------------
(* Durability, when no save fails and nothing damages the file *)

(* The file and the recorder agree on all but the widening, while the      *)
(* process runs and while it is down; before the first start there is no   *)
(* history at all.                                                         *)
DurInv ==
  /\ disk # Corrupt
  /\ disk = Missing => /\ ~up /\ seen = {}
                       /\ \E t \in Nat : window = FreshWindow(t)
  /\ disk # Missing => Core(disk) = Core(window)
  /\ up /\ ~dirty => disk = window

(* A check that is not saved leaves everything but the ongoing incident's  *)
(* detail as it was, and the whole window if nothing was widened.          *)
LEMMA UnsavedFold ==
  ASSUME NEW w \in Window, NEW ok \in SUBSET Resolvers, NEW ts \in Nat,
         ~Saved(w, ok, ts)
  PROVE  /\ Core(Folded(w, ok, ts)) = Core(w)
         /\ Widened(w.ongoing, ok) = w.ongoing => Folded(w, ok, ts) = w
<1>1. ~Turns(w, ok) /\ Kept(w.filed, ts) = w.filed
  BY DEF Saved, Changes
<1>2. Folded(w, ok, ts) = [since |-> w.since, rev |-> w.rev, filed |-> w.filed,
                           ongoing |-> Widened(w.ongoing, ok)]
  BY <1>1 DEF Folded, Changes
<1>3. w.ongoing \in Detail \cup {None}
  BY WindowParts
<1>4. /\ Widened(w.ongoing, ok) = None <=> w.ongoing = None
      /\ w.ongoing # None => /\ Widened(w.ongoing, ok).start = w.ongoing.start
                             /\ Widened(w.ongoing, ok).severity = w.ongoing.severity
  <2>1. CASE w.ongoing = None
    BY <2>1 DEF Widened
  <2>2. CASE w.ongoing \in Detail
    <3>1. w.ongoing # None /\ Widened(w.ongoing, ok) \in Detail
      BY <2>2, SuccessCount, ReachabilityAssumption DEF Widened, Detail
    <3> QED BY <2>2, <3>1, ReachabilityAssumption DEF Widened, Detail
  <2> QED BY <1>3, <2>1, <2>2
<1>5. Core(Folded(w, ok, ts)) = Core(w)
  BY <1>2, <1>4 DEF Core, SeverityOf
<1>6. w = [since |-> w.since, rev |-> w.rev, filed |-> w.filed,
           ongoing |-> w.ongoing]
  BY DEF Window
<1> QED BY <1>2, <1>5, <1>6

(* DurInv is inductive: what a step changes beyond widening it saves.      *)
THEOREM DurabilityInvariant ==
  ASSUME MaxFaults = 0
  PROVE  Spec => []DurInv
<1>1. Init => DurInv
  BY ReachabilityAssumption DEF Init, DurInv
<1>2. TypeOK /\ DurInv /\ [Next]_vars => DurInv'
  <2> SUFFICES ASSUME TypeOK, DurInv, [Next]_vars PROVE DurInv'
    OBVIOUS
  <2>0. /\ now \in Nat /\ window \in Window /\ dirty \in BOOLEAN
        /\ disk \in Window \cup {Missing}
        /\ Missing \notin Window /\ Corrupt \notin Window
    BY ReachabilityAssumption DEF TypeOK, DurInv
  <2>1. CASE UNCHANGED <<window, disk, dirty, up, seen>>
    BY <2>1 DEF DurInv
  <2>2. ASSUME NEW c \in Checks, RecordResult(c) PROVE DurInv'
    <3> DEFINE ok == proc[c].ok
    <3>1. ok \in SUBSET Resolvers
      BY DEF TypeOK, CheckState
    <3>2. window' = Folded(window, ok, now) /\ window' \in Window /\ up' = up
      BY <2>0, <2>2, <3>1, FoldedType DEF RecordResult, Record
    <3>3. CASE Saved(window, ok, now)
      BY <2>0, <2>2, <3>2, <3>3 DEF RecordResult, Record, DurInv
    <3>4. CASE ~Saved(window, ok, now)
      <4>1. disk' = disk /\ dirty' = Dirty(window, ok)
        BY <2>2, <3>4 DEF RecordResult, Record
      <4>2. disk # Missing
        BY <2>2 DEF RecordResult, DurInv
      <4>3. Core(window') = Core(window)
        BY <2>0, <3>1, <3>2, <3>4, UnsavedFold
      <4>4. ~dirty' => ~dirty /\ window' = window
        BY <2>0, <3>1, <3>2, <3>4, <4>1, UnsavedFold DEF Dirty
      <4> QED BY <2>0, <2>2, <3>2, <4>1, <4>2, <4>3, <4>4 DEF DurInv, RecordResult
    <3> QED BY <3>3, <3>4
  <2>3. ASSUME NEW c \in Checks, RecordFails(c) PROVE DurInv'
    BY <2>3 DEF RecordFails, TypeOK
  <2>4. CASE Shutdown
    BY <2>0, <2>4 DEF DurInv, Shutdown, Stops
  <2>5. CASE Crash
    BY <2>5 DEF DurInv, Crash, Stops
  <2>6. CASE Start
    <3>1. Loaded \in Window /\ (disk # Missing => Loaded = disk)
      BY <2>0, FreshType DEF Loaded, DurInv
    <3>2. window' = Pruned(Loaded) /\ window' \in Window
      BY <2>0, <2>6, <3>1, PrunedType DEF Start
    <3>3. disk' = window' /\ up' = TRUE
      BY <2>6, <3>1, <3>2 DEF Start
    <3> QED BY <2>0, <3>2, <3>3 DEF DurInv
  <2>7. CASE FileDamaged
    BY <2>7 DEF FileDamaged, TypeOK
  <2> QED BY <2>1, <2>2, <2>3, <2>4, <2>5, <2>6, <2>7
          DEF Next, vars, StartCheck, ProbesAnswer, HooksReturn, FlushState, Tick
<1> QED BY <1>1, <1>2, TypeCorrect, PTL DEF Spec

(* A crash at any moment costs the history only the widened detail of the  *)
(* ongoing incident.                                                       *)
THEOREM HistoryIsDurable ==
  ASSUME MaxFaults = 0
  PROVE  Spec => []DurableUpToWidening
<1>1. DurInv => DurableUpToWidening
  BY DEF DurInv, DurableUpToWidening
<1> QED BY <1>1, DurabilityInvariant, PTL

(* A recorder that does not mean to write at shutdown has nothing to write.*)
THEOREM CleanRecorderIsSaved ==
  ASSUME MaxFaults = 0
  PROVE  Spec => []CleanIsSaved
<1>1. DurInv => CleanIsSaved
  BY DEF DurInv, CleanIsSaved
<1> QED BY <1>1, DurabilityInvariant, PTL

-----------------------------------------------------------------------------
(* The revision and the contents move together *)

(* Windows with the same core list the same incidents.                     *)
LEMMA SameCore ==
  ASSUME NEW v \in Window, NEW w \in Window, Core(v) = Core(w)
  PROVE  /\ v.since = w.since /\ v.rev = w.rev /\ v.filed = w.filed
         /\ SeverityOf(v.ongoing) = SeverityOf(w.ongoing)
         /\ v.ongoing = None <=> w.ongoing = None
         /\ v.ongoing # None => v.ongoing.start = w.ongoing.start
         /\ Listed(v) = Listed(w)
         /\ OpenIn(v) = OpenIn(w)
<1>1. /\ v.since = w.since /\ v.rev = w.rev /\ v.filed = w.filed
      /\ SeverityOf(v.ongoing) = SeverityOf(w.ongoing)
      /\ Core(v).start = Core(w).start
  BY DEF Core
<1>2. v.ongoing = None <=> w.ongoing = None
  BY <1>1, WindowParts, ReachabilityAssumption DEF SeverityOf, Detail
<1>3. v.ongoing # None => v.ongoing.start = w.ongoing.start
  BY <1>1, <1>2 DEF Core
<1>4. Listed(v) = Listed(w)
  BY <1>1 DEF Listed
<1>5. OpenIn(v) = OpenIn(w)
  BY <1>1, <1>2, <1>3 DEF OpenIn, SeverityOf
<1> QED BY <1>1, <1>2, <1>3, <1>4, <1>5

(* What a start finds: the window of before, or nothing at all.            *)
LEMMA StartFinds ==
  ASSUME TypeOK, DurInv, Start
  PROVE  /\ Loaded \in Window /\ window' = Pruned(Loaded)
         /\ \/ Core(Loaded) = Core(window)
            \/ /\ Loaded = FreshWindow(now) /\ seen = {}
               /\ \E t \in Nat : window = FreshWindow(t)
<1>1. now \in Nat /\ disk \in Window \cup {Missing}
  BY DEF TypeOK, DurInv
<1>2. CASE disk = Missing
  BY <1>1, <1>2, FreshType DEF Loaded, Start, DurInv
<1>3. CASE disk # Missing
  BY <1>1, <1>3, ReachabilityAssumption DEF Loaded, Start, DurInv
<1> QED BY <1>2, <1>3

(* The revision never goes back, and moves with every incident that opens, *)
(* closes or is dropped, also by a restart.                                *)
THEOREM RevisionTellsChange ==
  ASSUME MaxFaults = 0
  PROVE  Spec => RevTellsChange
<1>1. TypeOK /\ DurInv /\ [Next]_vars => [RevMoves]_vars
  <2> SUFFICES ASSUME TypeOK, DurInv, [Next]_vars PROVE RevMoves
    OBVIOUS
  <2>0. now \in Nat /\ window \in Window /\ window.rev \in Nat
    BY WindowParts DEF TypeOK
  <2>1. CASE UNCHANGED window
    BY <2>0, <2>1 DEF RevMoves
  <2>2. ASSUME NEW c \in Checks, RecordResult(c) PROVE RevMoves
    <3> DEFINE ok == proc[c].ok
    <3>1. ok \in SUBSET Resolvers
      BY DEF TypeOK, CheckState
    <3>2. window' = Folded(window, ok, now) /\ window' \in Window
      BY <2>0, <2>2, <3>1, FoldedType DEF RecordResult, Record
    <3>3. CASE Changes(window, ok, now)
      BY <2>0, <3>2, <3>3 DEF Folded, RevMoves
    <3>4. CASE ~Changes(window, ok, now)
      <4>1. Core(window') = Core(window)
        BY <2>0, <3>1, <3>2, <3>4, UnsavedFold DEF Saved
      <4> QED BY <2>0, <3>2, <4>1, SameCore DEF RevMoves
    <3> QED BY <3>3, <3>4
  <2>3. ASSUME NEW c \in Checks, RecordFails(c) PROVE RevMoves
    BY <2>3 DEF RecordFails, TypeOK
  <2>4. CASE Start
    <3>1. Loaded \in Window /\ window' = Pruned(Loaded)
      BY <2>4, StartFinds
    <3>2. /\ Loaded.rev = window.rev /\ Loaded.filed = window.filed
          /\ Listed(Loaded) = Listed(window)
      <4>1. CASE Core(Loaded) = Core(window)
        BY <2>0, <3>1, <4>1, SameCore
      <4>2. CASE Loaded = FreshWindow(now) /\ \E t \in Nat : window = FreshWindow(t)
        BY <4>2 DEF FreshWindow, Listed, Core
      <4> QED BY <2>4, <4>1, <4>2, StartFinds
    <3>3. CASE Kept(Loaded.filed, now) = Loaded.filed
      <4>1. /\ window'.rev = Loaded.rev /\ window'.filed = Loaded.filed
            /\ window'.ongoing = Loaded.ongoing
        BY <3>1, <3>3 DEF Pruned
      <4>2. Listed(window') = Listed(Loaded)
        BY <4>1 DEF Listed, Core
      <4> QED BY <2>0, <3>2, <4>1, <4>2 DEF RevMoves
    <3>4. CASE Kept(Loaded.filed, now) # Loaded.filed
      BY <2>0, <3>1, <3>2, <3>4 DEF Pruned, RevMoves
    <3> QED BY <3>3, <3>4
  <2> QED BY <2>1, <2>2, <2>3, <2>4
          DEF Next, vars, StartCheck, ProbesAnswer, HooksReturn, FlushState, Tick,
              Shutdown, Crash, Stops, FileDamaged
<1> QED BY <1>1, TypeCorrect, DurabilityInvariant, PTL DEF Spec, RevTellsChange

-----------------------------------------------------------------------------
(* The history is the checks *)

(* What the windows tell of the checks made so far, none of them later     *)
(* than now.                                                               *)
HistInv == HistoryIsChecks /\ \A c \in seen : c[1] <= now

(* Dropping expired incidents forgets only expired checks.                 *)
LEMMA PrunedTells ==
  ASSUME NEW w \in Window, NEW v \in Window, NEW ts \in Nat, NEW t \in Nat,
         NEW s \in Severities \cup {None}, t + Retention >= ts,
         v.filed = Kept(w.filed, ts), v.ongoing = w.ongoing, Tells(w, t, s)
  PROVE  Tells(v, t, s)
<1>1. Retention \in Nat /\ None \notin Severities
  BY ReachabilityAssumption
<1>2. v.filed \subseteq w.filed
  BY DEF Kept
<1>3. CASE s = None
  BY <1>2, <1>3 DEF Tells, InsideIncident
<1>4. CASE s \in Severities /\ ~(SeverityOf(w.ongoing) = s /\ w.ongoing.start <= t)
  <2>1. PICK i \in w.filed : i.severity = s /\ i.start <= t /\ t <= i.end
    BY <1>1, <1>4 DEF Tells, CoveredBy
  <2>2. i.end \in Nat
    BY WindowParts DEF Incident
  <2>3. i \in v.filed
    BY <1>1, <2>1, <2>2 DEF Kept
  <2> QED BY <1>1, <1>4, <2>1, <2>3 DEF Tells, CoveredBy
<1>5. CASE s \in Severities /\ SeverityOf(w.ongoing) = s /\ w.ongoing.start <= t
  BY <1>1, <1>5 DEF Tells, CoveredBy
<1> QED BY <1>3, <1>4, <1>5

(* Folding a check in tells of it, and of every earlier one as before.     *)
LEMMA FoldedTellsEarlier ==
  ASSUME NEW w \in Window, NEW ok \in SUBSET Resolvers, NEW ts \in Nat,
         NEW t \in Nat, t <= ts, NEW s \in Severities \cup {None},
         t + Retention >= ts, Tells(w, t, s)
  PROVE  Tells(Folded(w, ok, ts), t, s)
<1> DEFINE f == Folded(w, ok, ts)
<1>0. /\ None \notin Severities /\ None \notin Detail
      /\ w.ongoing \in Detail \cup {None}
  BY ReachabilityAssumption, WindowParts
<1>1. DEFINE kept == [w EXCEPT !.filed = Kept(w.filed, ts)]
<1>2. kept \in Window /\ kept.filed = Kept(w.filed, ts) /\ kept.ongoing = w.ongoing
  BY DEF Kept, Window
<1>3. Tells(kept, t, s)
  BY <1>2, PrunedTells
<1>4. CASE Turns(w, ok)
  <2>1. /\ f.filed = kept.filed \cup Closed(w.ongoing, ts)
        /\ f.ongoing = Opened(ok, ts)
    BY <1>2, <1>4 DEF Folded
  <2>2. f.ongoing # None => f.ongoing.start = ts
    BY <2>1 DEF Opened
  <2>3. CASE s = None
    <3>1. \A i \in Closed(w.ongoing, ts) : ~(i.start < t /\ t < i.end)
      BY <1>0, <1>2, <1>3, <2>3 DEF Closed, Tells, InsideIncident, Detail
    <3>2. \A i \in kept.filed : ~(i.start < t /\ t < i.end)
      BY <1>3, <2>3 DEF Tells, InsideIncident
    <3>3. f.ongoing # None => ~(f.ongoing.start < t)
      BY <2>2
    <3> QED BY <2>1, <2>3, <3>1, <3>2, <3>3 DEF Tells, InsideIncident
  <2>4. CASE s \in Severities
    <3>1. CASE \E i \in kept.filed : i.severity = s /\ i.start <= t /\ t <= i.end
      BY <1>0, <2>1, <2>4, <3>1 DEF Tells, CoveredBy
    <3>2. CASE SeverityOf(w.ongoing) = s /\ w.ongoing.start <= t
      <4>1. w.ongoing # None /\ w.ongoing.severity = s
        BY <1>0, <2>4, <3>2 DEF SeverityOf
      <4>2. \E i \in Closed(w.ongoing, ts) :
              i.severity = s /\ i.start <= t /\ t <= i.end
        BY <3>2, <4>1 DEF Closed
      <4> QED BY <1>0, <2>1, <2>4, <4>2 DEF Tells, CoveredBy
    <3> QED BY <1>0, <1>2, <1>3, <2>4, <3>1, <3>2 DEF Tells, CoveredBy
  <2> QED BY <2>3, <2>4
<1>5. CASE ~Turns(w, ok)
  <2>1. f.filed = kept.filed /\ f.ongoing = Widened(w.ongoing, ok)
    BY <1>2, <1>5 DEF Folded
  <2>2. /\ SeverityOf(f.ongoing) = SeverityOf(w.ongoing)
        /\ f.ongoing = None <=> w.ongoing = None
        /\ w.ongoing # None => f.ongoing.start = w.ongoing.start
    <3>1. CASE w.ongoing = None
      BY <2>1, <3>1 DEF Widened, SeverityOf
    <3>2. CASE w.ongoing \in Detail
      <4>1. f.ongoing # None /\ w.ongoing # None
        <5>1. w.ongoing # None
          BY <1>0, <3>2
        <5>2. f.ongoing.start = w.ongoing.start /\ f.ongoing = Widened(w.ongoing, ok)
          BY <2>1, <3>2, <5>1 DEF Widened, Detail
        <5>3. f.ongoing \in Detail
          BY <3>2, <5>1, <5>2, SuccessCount DEF Widened, Detail
        <5> QED BY <1>0, <5>1, <5>3
      <4> QED BY <2>1, <3>2, <4>1 DEF Widened, SeverityOf, Detail
    <3> QED BY <1>0, <3>1, <3>2
  <2>3. CASE s = None
    BY <1>2, <1>3, <2>1, <2>2, <2>3 DEF Tells, InsideIncident
  <2>4. CASE s \in Severities
    BY <1>0, <1>2, <1>3, <2>1, <2>2, <2>4 DEF Tells, CoveredBy, SeverityOf
  <2> QED BY <2>3, <2>4
<1> QED BY <1>4, <1>5

LEMMA FoldedTellsNew ==
  ASSUME NEW w \in Window, NEW ok \in SUBSET Resolvers, NEW ts \in Nat,
         Ordered(w, ts)
  PROVE  Tells(Folded(w, ok, ts), ts, Classify(ok))
<1> DEFINE f == Folded(w, ok, ts)
<1>0. /\ None \notin Severities /\ None \notin Detail
      /\ w.ongoing \in Detail \cup {None} /\ w.filed \in SUBSET Incident
      /\ Classify(ok) \in Severities \cup {None}
  BY ReachabilityAssumption, WindowParts, ClassifyType
<1>1. \A i \in Closed(w.ongoing, ts) : i.end = ts
  BY DEF Closed
<1>2. \A i \in f.filed : ~(ts < i.end)
  BY <1>0, <1>1 DEF Folded, Kept, Ordered, Incident
<1>3. CASE Classify(ok) = None
  <2>1. f.ongoing = None
    BY <1>0, <1>3 DEF Folded, Turns, SeverityOf, Opened, Widened, Detail
  <2> QED BY <1>2, <1>3, <2>1 DEF Tells, InsideIncident
<1>4. CASE Classify(ok) \in Severities
  <2>1. CASE Turns(w, ok)
    <3>1. f.ongoing = [start |-> ts, severity |-> Classify(ok),
                       minok |-> Cardinality(ok), failed |-> Resolvers \ ok]
      BY <1>0, <1>4, <2>1 DEF Folded, Opened
    <3>2. f.ongoing # None
      BY <1>0, <1>4, <3>1, SuccessCount DEF Detail
    <3> QED BY <1>0, <1>4, <3>1, <3>2 DEF Tells, CoveredBy, SeverityOf
  <2>2. CASE ~Turns(w, ok)
    <3>1. w.ongoing \in Detail /\ w.ongoing.severity = Classify(ok)
      BY <1>0, <1>4, <2>2 DEF Turns, SeverityOf
    <3>2. f.ongoing = Widened(w.ongoing, ok)
      BY <2>2 DEF Folded
    <3>3. f.ongoing # None
      BY <1>0, <3>1, <3>2, SuccessCount DEF Widened, Detail
    <3>4. f.ongoing.severity = w.ongoing.severity /\ f.ongoing.start = w.ongoing.start
      BY <1>0, <3>1, <3>2 DEF Widened, Detail
    <3>5. w.ongoing.start <= ts
      BY <1>0, <3>1 DEF Ordered
    <3> QED BY <1>0, <1>4, <3>1, <3>3, <3>4, <3>5 DEF Tells, CoveredBy, SeverityOf
  <2> QED BY <2>1, <2>2
<1> QED BY <1>0, <1>3, <1>4

(* The history tells of every check within retention, across any number of *)
(* overlapping checks, crashes, shutdowns and starts.                      *)
THEOREM HistoryTellsChecks ==
  ASSUME MaxFaults = 0
  PROVE  Spec => []HistoryIsChecks
<1>1. Init => HistInv
  BY DEF Init, HistInv, HistoryIsChecks
<1>2. TypeOK /\ OrderInv /\ DurInv /\ HistInv /\ [Next]_vars => HistInv'
  <2> SUFFICES ASSUME TypeOK, OrderInv, DurInv, HistInv, [Next]_vars
               PROVE  HistInv'
    OBVIOUS
  <2>0. /\ now \in Nat /\ window \in Window /\ Retention \in Nat
        /\ Ordered(window, now)
        /\ \A c \in seen : /\ c[1] \in Nat /\ c[2] \in Severities \cup {None}
                          /\ c[1] <= now
    BY ReachabilityAssumption DEF TypeOK, OrderInv, HistInv
  <2>1. CASE UNCHANGED <<window, now, seen>>
    BY <2>1 DEF HistInv, HistoryIsChecks
  <2>2. ASSUME NEW c \in Checks, RecordResult(c) PROVE HistInv'
    <3> DEFINE ok == proc[c].ok
    <3>1. ok \in SUBSET Resolvers
      BY DEF TypeOK, CheckState
    <3>2. /\ window' = Folded(window, ok, now) /\ now' = now
          /\ seen' = seen \cup {<<now, Classify(ok)>>}
      BY <2>2 DEF RecordResult, Record
    <3>3. \A d \in seen : d[1] + Retention >= now => Tells(window', d[1], d[2])
      BY <2>0, <3>1, <3>2, FoldedTellsEarlier DEF HistInv, HistoryIsChecks
    <3>4. Tells(window', now, Classify(ok))
      BY <2>0, <3>1, <3>2, FoldedTellsNew
    <3>5. HistoryIsChecks'
      BY <3>2, <3>3, <3>4 DEF HistoryIsChecks
    <3>6. \A d \in seen' : d[1] <= now'
      BY <2>0, <3>2
    <3> QED BY <3>5, <3>6 DEF HistInv
  <2>3. ASSUME NEW c \in Checks, RecordFails(c) PROVE HistInv'
    BY <2>3 DEF RecordFails, TypeOK
  <2>4. CASE Start
    <3>1. Loaded \in Window /\ window' = Pruned(Loaded) /\ window' \in Window
      BY <2>0, <2>4, StartFinds, PrunedType
    <3>2. now' = now /\ seen' = seen
      BY <2>4 DEF Start
    <3>3. CASE seen = {}
      BY <3>2, <3>3 DEF HistInv, HistoryIsChecks
    <3>4. CASE Core(Loaded) = Core(window)
      <4>1. /\ Loaded.filed = window.filed
            /\ SeverityOf(Loaded.ongoing) = SeverityOf(window.ongoing)
            /\ Loaded.ongoing = None <=> window.ongoing = None
            /\ Loaded.ongoing # None => Loaded.ongoing.start = window.ongoing.start
        BY <2>0, <3>1, <3>4, SameCore
      <4>2. \A t \in Nat, s \in Severities \cup {None} :
              Tells(window, t, s) => Tells(Loaded, t, s)
        BY <4>1, ReachabilityAssumption
           DEF Tells, InsideIncident, CoveredBy, SeverityOf
      <4>3. window'.filed = Kept(Loaded.filed, now) /\ window'.ongoing = Loaded.ongoing
        BY <3>1 DEF Pruned
      <4>4. \A d \in seen : d[1] + Retention >= now => Tells(window', d[1], d[2])
        BY <2>0, <3>1, <4>2, <4>3, PrunedTells DEF HistInv, HistoryIsChecks
      <4> QED BY <2>0, <3>2, <4>4 DEF HistInv, HistoryIsChecks
    <3> QED BY <2>4, <3>3, <3>4, StartFinds
  <2>5. CASE Tick
    BY <2>0, <2>5 DEF Tick, HistInv, HistoryIsChecks
  <2> QED BY <2>1, <2>2, <2>3, <2>4, <2>5
          DEF Next, vars, StartCheck, ProbesAnswer, HooksReturn, FlushState,
              Shutdown, Crash, Stops, FileDamaged
<1>3. Spec => []OrderInv
  BY OrderInvariant
<1>4. HistInv => HistoryIsChecks
  BY DEF HistInv
<1> QED BY <1>1, <1>2, <1>3, <1>4, TypeCorrect, DurabilityInvariant, PTL DEF Spec

-----------------------------------------------------------------------------
(* The runtime, the recorder and the clients agree *)

(* After a check the open incident has the severity the check had.         *)
LEMMA FoldedSeverity ==
  ASSUME NEW w \in Window, NEW ok \in SUBSET Resolvers, NEW ts \in Nat
  PROVE  SeverityOf(Folded(w, ok, ts).ongoing) = Classify(ok)
<1> DEFINE f == Folded(w, ok, ts)
<1>0. /\ None \notin Severities /\ None \notin Detail
      /\ w.ongoing \in Detail \cup {None}
      /\ Classify(ok) \in Severities \cup {None}
  BY ReachabilityAssumption, WindowParts, ClassifyType
<1>1. CASE Turns(w, ok) /\ Classify(ok) = None
  BY <1>1 DEF Folded, Opened, SeverityOf
<1>2. CASE Turns(w, ok) /\ Classify(ok) # None
  <2>1. f.ongoing = [start |-> ts, severity |-> Classify(ok),
                     minok |-> Cardinality(ok), failed |-> Resolvers \ ok]
    BY <1>2 DEF Folded, Opened
  <2>2. f.ongoing # None
    BY <1>0, <1>2, <2>1, SuccessCount DEF Detail
  <2> QED BY <2>1, <2>2 DEF SeverityOf
<1>3. CASE ~Turns(w, ok) /\ w.ongoing = None
  BY <1>3 DEF Folded, Turns, Widened, SeverityOf
<1>4. CASE ~Turns(w, ok) /\ w.ongoing \in Detail
  <2>1. f.ongoing = Widened(w.ongoing, ok) /\ w.ongoing # None
    BY <1>0, <1>4 DEF Folded
  <2>2. f.ongoing # None /\ f.ongoing.severity = w.ongoing.severity
    BY <1>0, <1>4, <2>1, SuccessCount DEF Widened, Detail
  <2> QED BY <1>4, <2>1, <2>2 DEF Turns, SeverityOf
<1> QED BY <1>0, <1>1, <1>2, <1>3, <1>4

(* No check counts as recorded while the process is down.                  *)
AgreeInv == ViewsAgree /\ (checked => up)

(* Once a check was recorded the runtime is offline exactly when the       *)
(* recorder has an outage open, and clients see the recorder's view: of    *)
(* overlapping checks, the last to be recorded sets both.                  *)
THEOREM RecorderAndRuntimeAgree ==
  ASSUME MaxFaults = 0
  PROVE  Spec => []ViewsAgree
<1>1. Init => AgreeInv
  BY DEF Init, ViewsAgree, AgreeInv
<1>2. TypeOK /\ AgreeInv /\ [Next]_vars => AgreeInv'
  <2> SUFFICES ASSUME TypeOK, AgreeInv, [Next]_vars PROVE AgreeInv'
    OBVIOUS
  <2>1. CASE UNCHANGED <<up, published, window, checked, online>>
    BY <2>1 DEF AgreeInv, ViewsAgree, View
  <2>2. ASSUME NEW c \in Checks, RecordResult(c) PROVE AgreeInv'
    <3> DEFINE ok == proc[c].ok
    <3>1. ok \in SUBSET Resolvers /\ window \in Window /\ now \in Nat
      BY DEF TypeOK, CheckState
    <3>2. /\ window' = Folded(window, ok, now) /\ published' = View(window')
          /\ online' = IsOnline(ok) /\ up /\ up' = up
      BY <2>2 DEF RecordResult, Record
    <3>3. SeverityOf(window'.ongoing) = Classify(ok)
      BY <3>1, <3>2, FoldedSeverity
    <3>4. IsOnline(ok) <=> Classify(ok) # "outage"
      BY ReachabilityAssumption DEF Classify, Severities
    <3>5. View(window)' = View(window')
      BY DEF View
    <3> QED BY <3>2, <3>3, <3>4, <3>5 DEF AgreeInv, ViewsAgree
  <2>3. ASSUME NEW c \in Checks, RecordFails(c) PROVE AgreeInv'
    BY <2>3 DEF RecordFails, TypeOK
  <2>4. CASE Stops
    BY <2>4 DEF Stops, AgreeInv, ViewsAgree
  <2>5. CASE Start
    <3>1. published' = View(window') /\ checked' = checked /\ ~up
      BY <2>5 DEF Start
    <3>2. ~checked
      BY <3>1 DEF AgreeInv
    <3> QED BY <3>1, <3>2 DEF AgreeInv, ViewsAgree, View
  <2> QED BY <2>1, <2>2, <2>3, <2>4, <2>5
          DEF Next, vars, StartCheck, ProbesAnswer, HooksReturn, FlushState, Tick,
              Shutdown, Crash, FileDamaged
<1>3. AgreeInv => ViewsAgree
  BY DEF AgreeInv
<1> QED BY <1>1, <1>2, <1>3, TypeCorrect, PTL DEF Spec

-----------------------------------------------------------------------------
(* The crash-free ledger *)

(* Pruning a window prunes the ledger it stands for.                       *)
LEMMA PrunedLedger ==
  ASSUME NEW w \in Window, NEW ts \in Nat
  PROVE  /\ {Summary(i) : i \in Kept(w.filed, ts)}
              = {j \in FiledIn(w) : j.end + Retention >= ts}
         /\ Kept(w.filed, ts) = w.filed
              <=> {j \in FiledIn(w) : j.end + Retention >= ts} = FiledIn(w)
<1>1. \A i \in w.filed : Summary(i).end = i.end
  BY DEF Summary
<1>2. {Summary(i) : i \in Kept(w.filed, ts)}
        = {j \in FiledIn(w) : j.end + Retention >= ts}
  BY <1>1 DEF Kept, FiledIn
<1>3. ASSUME {j \in FiledIn(w) : j.end + Retention >= ts} = FiledIn(w)
      PROVE  Kept(w.filed, ts) = w.filed
  <2>1. \A i \in w.filed : Summary(i) \in FiledIn(w)
    BY DEF FiledIn
  <2>2. \A i \in w.filed : Summary(i).end + Retention >= ts
    BY <1>3, <2>1
  <2> QED BY <1>1, <2>2 DEF Kept
<1>4. ASSUME Kept(w.filed, ts) = w.filed
      PROVE  {j \in FiledIn(w) : j.end + Retention >= ts} = FiledIn(w)
  BY <1>2, <1>4 DEF FiledIn
<1> QED BY <1>2, <1>3, <1>4

(* What the ledger reads off an ongoing incident.                          *)
LEMMA OpenInParts ==
  ASSUME NEW w \in Window
  PROVE  /\ Ledger!SeverityOf(OpenIn(w)) = SeverityOf(w.ongoing)
         /\ OpenIn(w) = None <=> w.ongoing = None
         /\ w.ongoing # None => OpenIn(w).start = w.ongoing.start
<1>0. w.ongoing \in Detail \cup {None}
  BY WindowParts
<1>1. CASE w.ongoing = None
  BY <1>1 DEF OpenIn, SeverityOf, Ledger!SeverityOf
<1>2. CASE w.ongoing # None
  <2>1. OpenIn(w) = [start |-> w.ongoing.start, severity |-> w.ongoing.severity]
    BY <1>2 DEF OpenIn
  <2>2. OpenIn(w) # None
    BY <1>0, <1>2, <2>1, ReachabilityAssumption DEF Detail
  <2> QED BY <1>2, <2>1, <2>2 DEF SeverityOf, Ledger!SeverityOf
<1> QED BY <1>1, <1>2

(* Folding a check in is a step of the ledger.                             *)
LEMMA FoldIsLedgerStep ==
  ASSUME now \in Nat, now' = now, NEW ok \in SUBSET Resolvers,
         window \in Window, window' \in Window,
         window' = Folded(window, ok, now)
  PROVE  Ledger!Agree(Classify(ok)) \/ Ledger!Turn(Classify(ok))
<1> DEFINE sev == Classify(ok)
<1>0. /\ None \notin Severities /\ None \notin Detail
      /\ window.ongoing \in Detail \cup {None} /\ sev \in Severities \cup {None}
      /\ window.rev \in Nat
  BY ReachabilityAssumption, WindowParts, ClassifyType
<1>1. {Summary(i) : i \in Kept(window.filed, now)} = Ledger!Unexpired
  BY PrunedLedger, <1>0 DEF Ledger!Unexpired
<1>2. Kept(window.filed, now) = window.filed <=> Ledger!Unexpired = FiledIn(window)
  BY PrunedLedger DEF Ledger!Unexpired
<1>3. Turns(window, ok) <=> Ledger!SeverityOf(OpenIn(window)) # sev
  BY OpenInParts DEF Turns
<1>4. CASE Turns(window, ok)
  <2>1. /\ window'.filed = Kept(window.filed, now) \cup Closed(window.ongoing, now)
        /\ window'.ongoing = Opened(ok, now) /\ window'.rev = window.rev + 1
    BY <1>4 DEF Folded, Changes
  <2>2. FiledIn(window') = Ledger!Unexpired
                             \cup {Summary(i) : i \in Closed(window.ongoing, now)}
    BY <1>1, <2>1 DEF FiledIn
  <2>3. {Summary(i) : i \in Closed(window.ongoing, now)}
          = IF OpenIn(window) = None THEN {}
            ELSE {[start |-> OpenIn(window).start, end |-> now,
                   severity |-> OpenIn(window).severity]}
    <3>1. CASE window.ongoing = None
      BY <3>1, OpenInParts DEF Closed
    <3>2. CASE window.ongoing # None
      <4>1. OpenIn(window) = [start |-> window.ongoing.start,
                              severity |-> window.ongoing.severity]
        BY <3>2 DEF OpenIn
      <4>2. OpenIn(window) # None
        BY <3>2, OpenInParts
      <4> QED BY <3>2, <4>1, <4>2 DEF Closed, Summary
    <3> QED BY <3>1, <3>2
  <2>4. OpenIn(window') = IF sev = None THEN None
                          ELSE [start |-> now, severity |-> sev]
    <3>1. CASE sev = None
      BY <2>1, <3>1 DEF Opened, OpenIn
    <3>2. CASE sev # None
      <4>1. window'.ongoing = [start |-> now, severity |-> sev,
                               minok |-> Cardinality(ok), failed |-> Resolvers \ ok]
        BY <2>1, <3>2 DEF Opened
      <4>2. window'.ongoing # None
        BY <1>0, <3>2, <4>1, SuccessCount DEF Detail
      <4> QED BY <3>2, <4>1, <4>2 DEF OpenIn
    <3> QED BY <3>1, <3>2
  <2> QED BY <1>3, <1>4, <2>1, <2>2, <2>3, <2>4 DEF Ledger!Turn
<1>5. CASE ~Turns(window, ok)
  <2>1. /\ window'.filed = Kept(window.filed, now)
        /\ window'.ongoing = Widened(window.ongoing, ok)
        /\ window'.rev = IF Kept(window.filed, now) = window.filed
                        THEN window.rev ELSE window.rev + 1
    BY <1>5 DEF Folded, Changes
  <2>2. FiledIn(window') = Ledger!Unexpired
    BY <1>1, <2>1 DEF FiledIn
  <2>3. OpenIn(window') = OpenIn(window)
    <3>1. CASE window.ongoing = None
      BY <2>1, <3>1 DEF Widened, OpenIn
    <3>2. CASE window.ongoing \in Detail
      <4>1. window.ongoing # None
        BY <1>0, <3>2
      <4>2. Widened(window.ongoing, ok) \in Detail
        BY <3>2, <4>1, SuccessCount DEF Widened, Detail
      <4>3. window'.ongoing # None
        BY <1>0, <2>1, <4>2
      <4> QED BY <2>1, <3>2, <4>1, <4>3 DEF Widened, OpenIn, Detail
    <3> QED BY <1>0, <3>1, <3>2
  <2> QED BY <1>2, <1>3, <1>5, <2>1, <2>2, <2>3 DEF Ledger!Agree
<1> QED BY <1>4, <1>5

(* A start expires incidents in the ledger, or changes nothing in it.      *)
LEMMA StartIsLedgerStep ==
  ASSUME TypeOK, DurInv, Start
  PROVE  Ledger!Expire \/ UNCHANGED Ledger!vars
<1>0. /\ now \in Nat /\ now' = now /\ window \in Window
      /\ Loaded \in Window /\ window' = Pruned(Loaded)
  BY StartFinds DEF TypeOK, Start
<1>1. /\ Loaded.filed = window.filed /\ Loaded.rev = window.rev
      /\ OpenIn(Loaded) = OpenIn(window)
  <2>1. CASE Core(Loaded) = Core(window)
    BY <1>0, <2>1, SameCore
  <2>2. CASE Loaded = FreshWindow(now) /\ \E t \in Nat : window = FreshWindow(t)
    BY <2>2 DEF FreshWindow, OpenIn
  <2> QED BY <2>1, <2>2, StartFinds
<1>2. /\ window'.filed = Kept(window.filed, now)
      /\ window'.rev = IF Kept(window.filed, now) = window.filed
                      THEN window.rev ELSE window.rev + 1
      /\ OpenIn(window') = OpenIn(window)
  BY <1>0, <1>1 DEF Pruned, OpenIn
<1>3. /\ FiledIn(window') = Ledger!Unexpired
      /\ Kept(window.filed, now) = window.filed <=> Ledger!Unexpired = FiledIn(window)
  BY <1>0, <1>2, PrunedLedger DEF FiledIn, Ledger!Unexpired
<1> QED BY <1>0, <1>2, <1>3 DEF Ledger!Expire, Ledger!vars

(* The recorder with its file, under any interleaving of checks, crashes,  *)
(* shutdowns and starts, implements the ledger that knows none of them.    *)
THEOREM RecorderImplementsLedger ==
  ASSUME MaxFaults = 0
  PROVE  Spec => ImplementsLedger
<1>1. Init => Ledger!Init
  BY DEF Init, FreshWindow, Ledger!Init, FiledIn, OpenIn
<1>2. TypeOK /\ TypeOK' /\ DurInv /\ [Next]_vars => [Ledger!Next]_(Ledger!vars)
  <2> SUFFICES ASSUME TypeOK, TypeOK', DurInv, [Next]_vars
               PROVE  Ledger!Next \/ UNCHANGED Ledger!vars
    OBVIOUS
  <2>0. now \in Nat /\ window \in Window /\ window' \in Window
    BY DEF TypeOK
  <2>1. CASE UNCHANGED <<now, window>>
    BY <2>1 DEF Ledger!vars
  <2>2. ASSUME NEW c \in Checks, RecordResult(c) PROVE Ledger!Next
    <3>1. /\ proc[c].ok \in SUBSET Resolvers /\ now' = now
          /\ window' = Folded(window, proc[c].ok, now)
      BY <2>2 DEF TypeOK, CheckState, RecordResult, Record
    <3>2. Classify(proc[c].ok) \in Ledger!Severities \cup {None}
      BY <3>1, ClassifyType DEF Severities, Ledger!Severities
    <3> QED BY <2>0, <3>1, <3>2, FoldIsLedgerStep DEF Ledger!Next
  <2>3. ASSUME NEW c \in Checks, RecordFails(c) PROVE Ledger!Next
    BY <2>3 DEF RecordFails, TypeOK
  <2>4. CASE Start
    BY <2>4, StartIsLedgerStep DEF Ledger!Next
  <2>5. CASE Tick
    BY <2>5 DEF Tick, Ledger!Tick, Ledger!Next
  <2> QED BY <2>1, <2>2, <2>3, <2>4, <2>5
          DEF Next, vars, StartCheck, ProbesAnswer, HooksReturn, FlushState,
              Shutdown, Crash, Stops, FileDamaged
<1> QED BY <1>1, <1>2, TypeCorrect, DurabilityInvariant, PTL
        DEF Spec, ImplementsLedger, Ledger!Spec

-----------------------------------------------------------------------------
(* The event of a transition *)

(* A check that waits for its answer runs in a daemon that is up.          *)
Awaiting(c) == proc[c].pc \in {"probing", "answered"}
AwaitsInv ==
  /\ proc \in [Checks -> CheckState]
  /\ \A c \in Checks : Awaiting(c) => up /\ proc[c].was = online

(* With one check at a time the link it read before it probed is the link  *)
(* when its answer comes, and the event it sends reports a transition.     *)
THEOREM EventReportsTransition ==
  ASSUME \A c, d \in Checks : c = d
  PROVE  Spec => EventIsTransition
<1>1. Init => AwaitsInv
  BY IdleType DEF Init, AwaitsInv, Awaiting, IdleCheck
<1>2. TypeOK /\ AwaitsInv /\ [Next]_vars => AwaitsInv'
  <2> SUFFICES ASSUME TypeOK, AwaitsInv, [Next]_vars PROVE AwaitsInv'
    OBVIOUS
  <2> USE DEF AwaitsInv, Awaiting
  <2>1. CASE UNCHANGED vars
    BY <2>1 DEF vars
  <2>2. ASSUME NEW c \in Checks, StartCheck(c) PROVE AwaitsInv'
    <3>1. /\ proc' = [proc EXCEPT ![c] = [pc |-> "probing", was |-> online, ok |-> {}]]
          /\ up /\ up' = up /\ online' = online
      BY <2>2 DEF StartCheck
    <3>2. [pc |-> "probing", was |-> online, ok |-> {}] \in CheckState
      BY DEF TypeOK, CheckState
    <3> QED BY <3>1, <3>2
  <2>3. ASSUME NEW c \in Checks, ProbesAnswer(c) PROVE AwaitsInv'
    <3>1. PICK ok \in SUBSET Resolvers :
            proc' = [proc EXCEPT ![c].pc = "answered", ![c].ok = ok]
      BY <2>3 DEF ProbesAnswer
    <3>2. proc' = [proc EXCEPT ![c] = [@ EXCEPT !.pc = "answered", !.ok = ok]]
      BY <3>1 DEF CheckState
    <3>3. /\ [proc[c] EXCEPT !.pc = "answered", !.ok = ok] \in CheckState
          /\ [proc[c] EXCEPT !.pc = "answered", !.ok = ok].was = proc[c].was
      BY DEF CheckState
    <3>4. up' = up /\ online' = online /\ Awaiting(c)
      BY <2>3 DEF ProbesAnswer
    <3> QED BY <3>2, <3>3, <3>4
  <2>4. ASSUME NEW c \in Checks, RecordResult(c) PROVE AwaitsInv'
    <3>1. \/ proc' = [proc EXCEPT ![c] = [proc[c] EXCEPT !.pc = "hooks"]]
          \/ proc' = [proc EXCEPT ![c] = IdleCheck]
      BY <2>4 DEF RecordResult
    <3>2. [proc[c] EXCEPT !.pc = "hooks"] \in CheckState
      BY DEF CheckState
    <3>3. [proc[c] EXCEPT !.pc = "hooks"].pc = "hooks" /\ IdleCheck.pc = "idle"
      BY DEF CheckState, IdleCheck
    <3>4. proc'[c].pc \in {"hooks", "idle"} /\ proc' \in [Checks -> CheckState]
      BY <3>1, <3>2, <3>3, IdleType
    <3> QED BY <3>4
  <2>5. ASSUME NEW c \in Checks, RecordFails(c) PROVE AwaitsInv'
    <3>1. proc' = [proc EXCEPT ![c] = IdleCheck]
      BY <2>5 DEF RecordFails
    <3> QED BY <3>1, IdleType DEF IdleCheck
  <2>6. ASSUME NEW c \in Checks, HooksReturn(c) PROVE AwaitsInv'
    <3>1. proc' = [proc EXCEPT ![c] = IdleCheck]
      BY <2>6 DEF HooksReturn
    <3> QED BY <3>1, IdleType DEF IdleCheck
  <2>7. CASE FlushState
    BY <2>7 DEF FlushState
  <2>8. CASE Shutdown \/ Crash
    <3>1. proc' = [c \in Checks |-> IdleCheck]
      BY <2>8 DEF Shutdown, Crash, Stops
    <3> QED BY <3>1, IdleType DEF IdleCheck
  <2>9. CASE Start
    <3>1. ~up /\ proc' = proc
      BY <2>9 DEF Start
    <3> QED BY <3>1
  <2>10. CASE FileDamaged \/ Tick
    BY <2>10 DEF FileDamaged, Tick
  <2> QED BY <2>1, <2>2, <2>3, <2>4, <2>5, <2>6, <2>7, <2>8, <2>9, <2>10 DEF Next
<1>3. Spec => []AwaitsInv
  BY <1>1, <1>2, TypeCorrect, PTL DEF Spec
<1>4. AwaitsInv /\ [Next]_vars =>
        [\A c \in Checks : RecordResult(c) /\ proc'[c].pc = "hooks"
           => told'.online # told'.was]_vars
  <2> SUFFICES ASSUME AwaitsInv, NEW c \in Checks, RecordResult(c), proc'[c].pc = "hooks"
               PROVE  told'.online # told'.was
    OBVIOUS
  <2>1. proc[c].was = online
    BY DEF RecordResult, AwaitsInv, Awaiting
  <2>2. Transition(IsOnline(proc[c].ok))
    <3>1. CASE ~Transition(IsOnline(proc[c].ok))
      <4>1. proc' = [proc EXCEPT ![c] = IdleCheck]
        BY <3>1 DEF RecordResult
      <4> QED BY <4>1 DEF IdleCheck, AwaitsInv
    <3> QED BY <3>1
  <2>3. told' = [online |-> IsOnline(proc[c].ok), was |-> proc[c].was]
    BY <2>2 DEF RecordResult
  <2> QED BY <2>1, <2>2, <2>3 DEF Transition
<1> QED BY <1>3, <1>4, PTL DEF Spec, EventIsTransition

=============================================================================
