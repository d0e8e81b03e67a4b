------------------------- MODULE SyncServiceProofs -------------------------
(***************************************************************************)
(* Theorems about SyncService, for any number of domains, passes, manual   *)
(* syncs and editing threads, with crashes and preempted rebuilds.         *)
(***************************************************************************)
EXTENDS SyncService, TLAPS

Runtimes == [Ids -> DomainRuntime]
MaybeAddress == Addresses \cup {None}

-----------------------------------------------------------------------------
(* Types of the helpers *)

(* set_status keeps the runtimes well formed. *)
LEMMA SetStatusType ==
  ASSUME NEW domains \in Runtimes, NEW id \in Ids, NEW status \in Status,
         NEW ip \in MaybeAddress
  PROVE  SetStatus(domains, id, status, ip) \in Runtimes
BY DEF SetStatus, Runtimes, DomainRuntime, MaybeAddress, Status

(* set_freshness keeps the runtimes well formed. *)
LEMMA SetFreshnessType ==
  ASSUME NEW domains \in Runtimes, NEW id \in Ids, NEW current \in MaybeAddress
  PROVE  SetFreshness(domains, id, current) \in Runtimes
BY DEF SetFreshness, Freshness, Runtimes, DomainRuntime, MaybeAddress, Status

(* Looking up an id of the list finds a domain of the list with that id. *)
LEMMA LookUp ==
  ASSUME NEW list \in Seq(DomainConfig), NEW id \in IdsIn(list)
  PROVE  ConfigOf(list, id) \in DomainConfig /\ ConfigOf(list, id).id = id
<1>1. PICK i \in DOMAIN list : list[i].id = id
  BY DEF IdsIn
<1>2. list[i] \in Range(list)
  BY <1>1 DEF Range
<1>3. Range(list) \subseteq DomainConfig
  BY DEF Range
<1> QED BY <1>1, <1>2, <1>3 DEF ConfigOf

(* The remembered configurations are targets. *)
LEMMA TargetsOfType ==
  ASSUME NEW list \in Seq(DomainConfig)
  PROVE  TargetsOf(list) \in [Ids -> Targets \cup {None}]
BY LookUp DEF TargetsOf, DomainConfig

(* rebuild keeps the runtimes well formed. *)
LEMMA RebuiltType ==
  ASSUME NEW list \in Seq(DomainConfig), NEW prev \in Runtimes,
         NEW prevKnown, NEW now \in Runtimes
  PROVE  Rebuilt(list, prev, prevKnown, now) \in Runtimes
BY DEF Rebuilt, Runtimes, DomainRuntime, Pending, Status

(* A task that does not run is well formed. *)
LEMMA IdleType == Idle \in TaskState
BY DEF Idle, TaskState, Families, Status

(* No domain has a runtime in an empty dictionary. *)
LEMMA AbsentType == [id \in Ids |-> Absent] \in Runtimes
BY DEF Runtimes, DomainRuntime, Absent, Status

(* Going on to the next domain keeps a pass's locals well formed. *)
LEMMA NextDomainType ==
  ASSUME NEW r \in TaskState
  PROVE  [r EXCEPT !.pc = "visit", !.idx = @ + 1, !.dom = None, !.ip = None,
                   !.before = "absent"] \in TaskState
<1> DEFINE a == [r EXCEPT !.pc = "visit"]
           b == [a EXCEPT !.idx = @ + 1]
           c == [b EXCEPT !.dom = None, !.ip = None]
           d == [c EXCEPT !.before = "absent"]
<1>1. a \in TaskState
  BY DEF TaskState
<1> HIDE DEF a
<1>2. b \in TaskState
  BY <1>1 DEF TaskState
<1> HIDE DEF b
<1>3. c \in TaskState
  BY <1>2 DEF TaskState
<1>4. d \in TaskState
  BY <1>3 DEF TaskState
<1>5. [r EXCEPT !.pc = "visit", !.idx = @ + 1, !.dom = None, !.ip = None,
                !.before = "absent"] = d
  BY SMT DEF a, b
<1> QED BY <1>4, <1>5

(* The locals of a task that awaits the provider are well formed. *)
LEMMA UpdateType ==
  ASSUME NEW r \in TaskState, NEW d \in DomainConfig, NEW ip \in Addresses,
         NEW before \in Status \cup {"absent"}
  PROVE  [r EXCEPT !.pc = "update", !.dom = d, !.ip = ip, !.before = before]
           \in TaskState
<1> DEFINE a == [r EXCEPT !.pc = "update", !.dom = d]
           b == [a EXCEPT !.ip = ip, !.before = before]
<1>1. a \in TaskState
  BY DEF TaskState
<1> HIDE DEF a
<1>2. b \in TaskState
  BY <1>1 DEF TaskState
<1>3. [r EXCEPT !.pc = "update", !.dom = d, !.ip = ip, !.before = before] = b
  BY SMT DEF a
<1> QED BY <1>2, <1>3

-----------------------------------------------------------------------------
(* Type correctness *)

(* What a task carries across its awaits: a domain and an address to the   *)
(* provider, a domain into the detection of a manual sync.                 *)
Carries(t, r) ==
  /\ r.pc \in {"update", "acked", "refused"}
       => r.dom \in DomainConfig /\ r.ip \in Addresses
  /\ t \in Manuals /\ r.pc \in {"detect", "detected"} => r.dom \in DomainConfig

TypeInv == TypeOK /\ \A t \in Tasks : Carries(t, proc[t])

(* Counting an event against its bound. *)
LEMMA SpentType ==
  ASSUME NEW s \in [moves : Nat, fails : Nat, edits : Nat, crashes : Nat]
  PROVE  /\ [s EXCEPT !.moves = @ + 1]
              \in [moves : Nat, fails : Nat, edits : Nat, crashes : Nat]
         /\ [s EXCEPT !.edits = @ + 1]
              \in [moves : Nat, fails : Nat, edits : Nat, crashes : Nat]
         /\ [s EXCEPT !.crashes = @ + 1]
              \in [moves : Nat, fails : Nat, edits : Nat, crashes : Nat]
OBVIOUS

(* A step moves one task, to one of some awaits, and leaves the others. *)
Moves(t, pcs) ==
  /\ proc'[t].pc \in pcs
  /\ \A u \in Tasks \ {t} : proc'[u] = proc[u]

(* A step that gives one task well-formed locals keeps all of them so. *)
LEMMA ProcType ==
  ASSUME TypeInv, NEW t \in Tasks, NEW r \in TaskState, Carries(t, r),
         proc' = [proc EXCEPT ![t] = r]
  PROVE  /\ proc' \in [Tasks -> TaskState]
         /\ \A u \in Tasks : Carries(u, proc'[u])
         /\ proc'[t] = r /\ Moves(t, {r.pc})
BY DEF TypeInv, TypeOK, Moves

(* The task of a pass is no manual sync. *)
LEMMA PassIsNoManual == \A p \in Passes : p \in Tasks /\ p \notin Manuals
BY SyncAssumption DEF Tasks

(* An address the runtime knows for a domain. *)
LEMMA AddressType ==
  ASSUME TypeInv, NEW d \in DomainConfig
  PROVE  AddressFor(d) \in MaybeAddress
BY SyncAssumption DEF AddressFor, MaybeAddress, DomainConfig, TypeInv, TypeOK

(* The domains of the list are domains. *)
LEMMA ListedType ==
  ASSUME TypeInv, NEW i \in DOMAIN cfg
  PROVE  cfg[i] \in DomainConfig /\ cfg[i].id \in Ids
<1>1. cfg[i] \in DomainConfig
  BY DEF TypeInv, TypeOK
<1> QED BY <1>1 DEF DomainConfig

(* The domain a pass visits is a domain. *)
LEMMA CurrentType ==
  ASSUME TypeInv, NEW p \in Passes, proc[p].idx <= Len(cfg)
  PROVE  Current(p) \in DomainConfig /\ Current(p).id \in Ids
<1>1. proc[p].idx \in Nat \ {0}
  BY PassIsNoManual DEF TypeInv, TypeOK, TaskState
<1>2. proc[p].idx \in DOMAIN cfg
  BY <1>1 DEF TypeInv, TypeOK
<1> QED BY <1>2, ListedType DEF Current

(* NextDomain keeps the tasks well formed. *)
LEMMA NextDomainStep ==
  ASSUME TypeInv, NEW p \in Passes, NextDomain(p, proc[p])
  PROVE  /\ proc' \in [Tasks -> TaskState]
         /\ \A u \in Tasks : Carries(u, proc'[u])
         /\ Moves(p, {"visit"})
         /\ loop' \in Tasks \cup {None}
<1> DEFINE r == [proc[p] EXCEPT !.pc = "visit", !.idx = @ + 1, !.dom = None,
                                !.ip = None, !.before = "absent"]
<1>1. proc[p] \in TaskState
  BY PassIsNoManual DEF TypeInv, TypeOK
<1>2. r \in TaskState
  BY <1>1, NextDomainType
<1>3. r.pc = "visit"
  BY <1>1 DEF TaskState
<1>4. proc' = [proc EXCEPT ![p] = r]
  BY DEF NextDomain
<1>5. Carries(p, r)
  BY <1>3 DEF Carries
<1> HIDE DEF r
<1> QED BY <1>2, <1>3, <1>4, <1>5, ProcType, PassIsNoManual DEF NextDomain

(* A task suspended in the hooks is well formed. *)
LEMMA DispatchStep ==
  ASSUME TypeInv, NEW p \in Passes, NEW id \in Ids,
         NEW event \in {"pending", "success", "error"}, Dispatch(p, id, event)
  PROVE  /\ proc' \in [Tasks -> TaskState]
         /\ \A u \in Tasks : Carries(u, proc'[u])
         /\ Moves(p, {"hooks"})
         /\ loop' \in Tasks \cup {None}
         /\ told' \in [Ids -> {"nothing", "pending", "success", "error"}]
<1> DEFINE r == [proc[p] EXCEPT !.pc = "hooks"]
<1>0. proc[p] \in TaskState
  BY PassIsNoManual DEF TypeInv, TypeOK
<1>1. r \in TaskState /\ r.pc = "hooks"
  BY <1>0 DEF TaskState
<1>2. proc' = [proc EXCEPT ![p] = r]
  BY DEF Dispatch
<1>3. Carries(p, r)
  BY <1>1 DEF Carries
<1> HIDE DEF r
<1>4. told' \in [Ids -> {"nothing", "pending", "success", "error"}]
  BY DEF Dispatch, TypeInv, TypeOK
<1> QED BY <1>1, <1>2, <1>3, <1>4, ProcType, PassIsNoManual DEF Dispatch

(* A task that calls the provider carries a domain and an address to it. *)
LEMMA BeginUpdateStep ==
  ASSUME TypeInv, NEW t \in Tasks, NEW locals \in TaskState,
         NEW d \in DomainConfig, NEW ip \in Addresses,
         BeginUpdate(t, locals, d, ip)
  PROVE  /\ proc' \in [Tasks -> TaskState]
         /\ \A u \in Tasks : Carries(u, proc'[u])
         /\ Moves(t, {"update"}) /\ proc'[t].dom = d
         /\ loop' \in Tasks \cup {None}
         /\ rt' \in Runtimes
<1> DEFINE r == [locals EXCEPT !.pc = "update", !.dom = d, !.ip = ip,
                               !.before = rt[d.id].status]
<1>1. d.id \in Ids /\ rt[d.id].status \in Status \cup {"absent"}
  BY DEF DomainConfig, TypeInv, TypeOK, DomainRuntime
<1>2. r \in TaskState
  BY <1>1, UpdateType
<1>3. r.pc = "update" /\ r.dom = d /\ r.ip = ip
  BY DEF TaskState
<1>4. proc' = [proc EXCEPT ![t] = r]
  BY DEF BeginUpdate
<1>5. Carries(t, r)
  BY <1>3 DEF Carries
<1>6. rt' \in Runtimes
  BY <1>1, SetStatusType DEF BeginUpdate, Runtimes, Status, MaybeAddress,
     TypeInv, TypeOK
<1> HIDE DEF r
<1> QED BY <1>2, <1>3, <1>4, <1>5, <1>6, ProcType DEF BeginUpdate

(* The next family, or the first domain. *)
LEMMA NextFamilyStep ==
  ASSUME TypeInv, NEW p \in Passes, NextFamily(p, proc[p])
  PROVE  /\ proc' \in [Tasks -> TaskState]
         /\ \A u \in Tasks : Carries(u, proc'[u])
         /\ Moves(p, {"detect", "visit"})
         /\ loop' \in Tasks \cup {None}
<1> USE PassIsNoManual
<1>0. proc[p] \in TaskState
  BY DEF TypeInv, TypeOK
<1>1. CASE proc[p].fam = "ipv4"
  <2> DEFINE a == [proc[p] EXCEPT !.pc = "detect", !.fam = "ipv6"]
             r == [a EXCEPT !.ip = None]
  <2>1. a \in TaskState /\ a.pc = "detect"
    BY <1>0 DEF TaskState, Families
  <2> HIDE DEF a
  <2>2. r \in TaskState /\ r.pc = "detect"
    BY <2>1 DEF TaskState
  <2>3. proc' = [proc EXCEPT ![p] = r]
    BY <1>1 DEF NextFamily, a
  <2>4. Carries(p, r)
    BY <2>2 DEF Carries
  <2> HIDE DEF r
  <2>5. /\ proc' \in [Tasks -> TaskState]
        /\ \A u \in Tasks : Carries(u, proc'[u])
        /\ Moves(p, {"detect"})
    BY <2>2, <2>3, <2>4, ProcType
  <2>6. loop' \in Tasks \cup {None}
    BY <1>1 DEF NextFamily
  <2> QED BY <2>5, <2>6 DEF Moves
<1>2. CASE proc[p].fam # "ipv4"
  <2> DEFINE r == [proc[p] EXCEPT !.pc = "visit", !.ip = None]
  <2>1. r \in TaskState /\ r.pc = "visit"
    BY <1>0 DEF TaskState
  <2>2. proc' = [proc EXCEPT ![p] = r]
    BY <1>2 DEF NextFamily
  <2>3. Carries(p, r)
    BY <2>1 DEF Carries
  <2> HIDE DEF r
  <2>4. /\ proc' \in [Tasks -> TaskState]
        /\ \A u \in Tasks : Carries(u, proc'[u])
        /\ Moves(p, {"visit"})
    BY <2>1, <2>2, <2>3, ProcType
  <2>5. loop' \in Tasks \cup {None}
    BY <1>2 DEF NextFamily
  <2> QED BY <2>4, <2>5 DEF Moves
<1> QED BY <1>1, <1>2

(* A task that stops is well formed. *)
LEMMA IdleStep ==
  ASSUME TypeInv, NEW t \in Tasks, proc' = [proc EXCEPT ![t] = Idle]
  PROVE  /\ proc' \in [Tasks -> TaskState]
         /\ \A u \in Tasks : Carries(u, proc'[u])
         /\ Moves(t, {"idle"})
<1>1. Carries(t, Idle)
  BY DEF Carries, Idle
<1>2. Idle.pc = "idle"
  BY DEF Idle
<1> QED BY <1>1, <1>2, IdleType, ProcType

(* The status an update leaves behind is well formed. *)
LEMMA FinishedType ==
  ASSUME TypeInv, NEW t \in Tasks, proc[t].pc \in {"acked", "refused"}
  PROVE  Finished(proc[t]) \in Runtimes /\ proc[t].dom.id \in Ids
<1>1. proc[t].dom \in DomainConfig /\ proc[t].ip \in Addresses
  BY DEF TypeInv, Carries
<1>2. proc[t].dom.id \in Ids
  BY <1>1 DEF DomainConfig
<1> QED BY <1>1, <1>2, SetStatusType
        DEF Finished, TypeInv, TypeOK, Runtimes, Status, MaybeAddress

(* What runs on the loop for a pass keeps the types. *)
LEMMA PassTypes ==
  ASSUME TypeInv, NEW p \in Passes, StartPass(p) \/ PassResumes(p)
  PROVE  TypeInv'
<1> USE PassIsNoManual
<1>a. proc[p] \in TaskState
  BY DEF TypeInv, TypeOK
<1>1. CASE StartPass(p)
  <2> DEFINE r == [Idle EXCEPT !.pc = "detect", !.cur = pub]
  <2>1. r \in TaskState
    BY IdleType DEF TypeInv, TypeOK, TaskState
  <2>2. r.pc = "detect"
    BY DEF Idle
  <2>3. Carries(p, r)
    BY <2>2 DEF Carries
  <2>4. proc' = [proc EXCEPT ![p] = r]
    BY <1>1 DEF StartPass
  <2> HIDE DEF r
  <2>5. proc' \in [Tasks -> TaskState] /\ \A u \in Tasks : Carries(u, proc'[u])
    BY <2>1, <2>3, <2>4, ProcType
  <2> QED BY <1>1, <2>5 DEF StartPass, TypeInv, TypeOK
<1>2. CASE NothingNew(p)
  BY <1>2, NextFamilyStep DEF NothingNew, TypeInv, TypeOK
<1>3. CASE AnnounceAddress(p)
  <2> DEFINE f == proc[p].fam
             a == [proc[p] EXCEPT !.pc = "announce"]
             r == [a EXCEPT !.changed = @ \cup {f}]
  <2>1. f \in Families /\ proc[p].ip \in MaybeAddress
         /\ proc[p].cur[f] \in MaybeAddress
    BY <1>a DEF TaskState, MaybeAddress
  <2>2. a \in TaskState /\ a.pc = "announce"
    BY <1>a DEF TaskState
  <2>3. proc' = [proc EXCEPT ![p] = r]
    BY <1>3 DEF AnnounceAddress
  <2> HIDE DEF a
  <2>4. r \in TaskState /\ r.pc = "announce"
    BY <2>1, <2>2 DEF TaskState
  <2>5. Carries(p, r)
    BY <2>4 DEF Carries
  <2> HIDE DEF r
  <2>6. proc' \in [Tasks -> TaskState] /\ \A u \in Tasks : Carries(u, proc'[u])
    BY <2>3, <2>4, <2>5, ProcType
  <2>7. pub' \in [Families -> MaybeAddress]
    BY <1>3, <2>1 DEF AnnounceAddress, TypeInv, TypeOK, MaybeAddress
  <2>8. announced' \in [Families -> [old : MaybeAddress, new : MaybeAddress]]
    BY <1>3, <2>1 DEF AnnounceAddress, TypeInv, TypeOK, MaybeAddress
  <2> QED BY <1>3, <2>6, <2>7, <2>8
          DEF AnnounceAddress, TypeInv, TypeOK, MaybeAddress
<1>4. CASE AnnounceReturns(p)
  BY <1>4, NextFamilyStep DEF AnnounceReturns, TypeInv, TypeOK
<1>5. CASE EndPass(p)
  BY <1>5, IdleStep DEF EndPass, TypeInv, TypeOK
<1>6. CASE VisitDisabled(p)
  <2>1. Current(p) \in DomainConfig /\ Current(p).id \in Ids
    BY <1>6, CurrentType DEF VisitDisabled
  <2>2. rt' \in Runtimes
    BY <1>6, <2>1, AddressType, SetFreshnessType
       DEF VisitDisabled, TypeInv, TypeOK, Runtimes
  <2>3. /\ proc' \in [Tasks -> TaskState]
        /\ \A u \in Tasks : Carries(u, proc'[u])
        /\ loop' \in Tasks \cup {None}
        /\ told' \in [Ids -> {"nothing", "pending", "success", "error"}]
    BY <1>6, <2>1, DispatchStep, NextDomainStep
       DEF VisitDisabled, TypeInv, TypeOK
  <2> QED BY <1>6, <2>2, <2>3 DEF VisitDisabled, TypeInv, TypeOK, Runtimes
<1>7. CASE VisitNothingToDo(p)
  BY <1>7, NextDomainStep DEF VisitNothingToDo, TypeInv, TypeOK
<1>8. CASE VisitUnknownProvider(p)
  <2>1. Current(p) \in DomainConfig /\ Current(p).id \in Ids
    BY <1>8, CurrentType DEF VisitUnknownProvider
  <2>2. rt' \in Runtimes
    BY <1>8, <2>1, SetStatusType
       DEF VisitUnknownProvider, TypeInv, TypeOK, Runtimes, Status, MaybeAddress
  <2>3. /\ proc' \in [Tasks -> TaskState]
        /\ \A u \in Tasks : Carries(u, proc'[u])
        /\ loop' \in Tasks \cup {None}
        /\ told' \in [Ids -> {"nothing", "pending", "success", "error"}]
    BY <1>8, <2>1, DispatchStep, NextDomainStep, IdleStep
       DEF VisitUnknownProvider, TypeInv, TypeOK
  <2> QED BY <1>8, <2>2, <2>3 DEF VisitUnknownProvider, TypeInv, TypeOK, Runtimes
<1>9. CASE VisitUpdate(p)
  <2>1. Current(p) \in DomainConfig
    BY <1>9, CurrentType DEF VisitUpdate
  <2>2. AddressToPush(p, Current(p)) \in Addresses
    BY <1>9, <2>1, AddressType DEF VisitUpdate, Due, AddressToPush, MaybeAddress
  <2> QED BY <1>a, <1>9, <2>1, <2>2, BeginUpdateStep
          DEF VisitUpdate, TypeInv, TypeOK, Runtimes
<1>10. CASE UpdateConfirms(p)
  <2>1. Finished(proc[p]) \in Runtimes
    BY <1>10, FinishedType DEF UpdateConfirms, Answered, Ready
  <2> QED BY <1>10, <2>1, NextDomainStep
          DEF UpdateConfirms, TypeInv, TypeOK, Runtimes
<1>11. CASE UpdateChanges(p)
  <2>1. Finished(proc[p]) \in Runtimes /\ proc[p].dom.id \in Ids
    BY <1>11, FinishedType DEF UpdateChanges, Answered, Ready
  <2>2. /\ proc' \in [Tasks -> TaskState]
        /\ \A u \in Tasks : Carries(u, proc'[u])
        /\ loop' \in Tasks \cup {None}
        /\ told' \in [Ids -> {"nothing", "pending", "success", "error"}]
    BY <1>11, <2>1, DispatchStep DEF UpdateChanges
  <2> QED BY <1>11, <2>1, <2>2 DEF UpdateChanges, TypeInv, TypeOK, Runtimes
<1>12. CASE UpdateOfDeletedRaises(p)
  BY <1>12, IdleStep DEF UpdateOfDeletedRaises, TypeInv, TypeOK
<1>13. CASE HooksReturn(p)
  BY <1>13, NextDomainStep DEF HooksReturn, TypeInv, TypeOK
<1> QED BY <1>1, <1>2, <1>3, <1>4, <1>5, <1>6, <1>7, <1>8, <1>9, <1>10,
           <1>11, <1>12, <1>13 DEF PassResumes

(* What runs on the loop for a manual sync keeps the types. *)
LEMMA ManualTypes ==
  ASSUME TypeInv, NEW m \in Manuals, StartManual(m) \/ ManualResumes(m)
  PROVE  TypeInv'
<1>a. m \in Tasks /\ proc[m] \in TaskState /\ Idle \in TaskState
  BY IdleType DEF Tasks, TypeInv, TypeOK
<1>1. CASE StartManual(m)
  <2>1. PICK d \in Range(cfg) :
          \/ /\ AddressFor(d) = None
             /\ proc' = [proc EXCEPT ![m] = [Idle EXCEPT
                           !.pc = "detect", !.fam = FamilyOf[d.target], !.dom = d]]
             /\ UNCHANGED <<rt, loop>>
          \/ /\ AddressFor(d) # None
             /\ BeginUpdate(m, Idle, d, AddressFor(d))
          \/ /\ AddressFor(d) # None /\ d.target \notin Registered
             /\ rt' = SetStatus(rt, d.id, "error", None)
             /\ UNCHANGED <<proc, loop>>
    BY <1>1 DEF StartManual
  <2>2. d \in DomainConfig /\ d.id \in Ids /\ FamilyOf[d.target] \in Families
    <3>1. d \in DomainConfig
      BY ListedType DEF Range
    <3> QED BY <3>1, SyncAssumption DEF DomainConfig
  <2>3. CASE AddressFor(d) = None
    <3> DEFINE a == [Idle EXCEPT !.pc = "detect", !.fam = FamilyOf[d.target]]
               r == [a EXCEPT !.dom = d]
    <3>1. a \in TaskState
      BY <1>a, <2>2 DEF TaskState
    <3>2. proc' = [proc EXCEPT ![m] = r]
      BY <2>1, <2>3
    <3> HIDE DEF a
    <3>3. r \in TaskState /\ r.dom = d
      BY <3>1, <2>2 DEF TaskState
    <3>4. r.pc = "detect"
      BY <3>1 DEF a, TaskState, Idle
    <3>5. Carries(m, r)
      BY <3>3, <3>4, <2>2 DEF Carries
    <3> HIDE DEF r
    <3>6. proc' \in [Tasks -> TaskState] /\ \A u \in Tasks : Carries(u, proc'[u])
      BY <1>a, <3>2, <3>3, <3>5, ProcType
    <3> QED BY <1>1, <2>1, <2>3, <3>6 DEF StartManual, TypeInv, TypeOK
  <2>4. CASE BeginUpdate(m, Idle, d, AddressFor(d)) /\ AddressFor(d) # None
    <3>1. AddressFor(d) \in Addresses
      BY <2>2, <2>4, AddressType DEF MaybeAddress
    <3> QED BY <1>1, <1>a, <2>2, <2>4, <3>1, BeginUpdateStep
            DEF StartManual, TypeInv, TypeOK, Runtimes
  <2>5. CASE rt' = SetStatus(rt, d.id, "error", None) /\ UNCHANGED <<proc, loop>>
    <3>1. rt' \in Runtimes
      BY <2>2, <2>5, SetStatusType
         DEF TypeInv, TypeOK, Runtimes, Status, MaybeAddress
    <3> QED BY <1>1, <2>5, <3>1 DEF StartManual, TypeInv, TypeOK, Runtimes
  <2> QED BY <2>1, <2>3, <2>4, <2>5
<1>2. CASE ManualDetected(m)
  <2> DEFINE d == proc[m].dom  ip == proc[m].ip
  <2>1. d \in DomainConfig /\ d.id \in Ids
    <3>1. d \in DomainConfig
      BY <1>a, <1>2 DEF ManualDetected, Ready, TypeInv, Carries
    <3> QED BY <3>1 DEF DomainConfig
  <2>2. ip \in MaybeAddress /\ proc[m].fam \in Families
    BY <1>a DEF TaskState, MaybeAddress
  <2>3. CASE ip = None
    BY <1>2, <1>a, <2>3, IdleStep DEF ManualDetected, TypeInv, TypeOK
  <2>4. CASE ip # None
    <3>1. pub' \in [Families -> MaybeAddress]
      BY <1>2, <2>2, <2>4 DEF ManualDetected, TypeInv, TypeOK, MaybeAddress
    <3>2. CASE BeginUpdate(m, Idle, d, ip)
      <4>1. ip \in Addresses
        BY <2>2, <2>4 DEF MaybeAddress
      <4>2. /\ proc' \in [Tasks -> TaskState]
            /\ \A u \in Tasks : Carries(u, proc'[u])
            /\ loop' \in Tasks \cup {None}
            /\ rt' \in Runtimes
        BY <1>a, <2>1, <3>2, <4>1, BeginUpdateStep
      <4> QED BY <1>2, <3>1, <4>2
              DEF ManualDetected, TypeInv, TypeOK, Runtimes, MaybeAddress
    <3>3. CASE /\ rt' = SetStatus(rt, d.id, "error", None)
               /\ proc' = [proc EXCEPT ![m] = Idle]
               /\ UNCHANGED loop
      <4>1. rt' \in Runtimes
        BY <2>1, <3>3, SetStatusType
           DEF TypeInv, TypeOK, Runtimes, Status, MaybeAddress
      <4>2. proc' \in [Tasks -> TaskState] /\ \A u \in Tasks : Carries(u, proc'[u])
        BY <1>a, <3>3, IdleStep
      <4> QED BY <1>2, <3>1, <3>3, <4>1, <4>2
              DEF ManualDetected, TypeInv, TypeOK, Runtimes, MaybeAddress
    <3> QED BY <1>2, <2>4, <3>2, <3>3 DEF ManualDetected
  <2> QED BY <2>3, <2>4
<1>3. CASE ManualReturns(m)
  <2>1. Finished(proc[m]) \in Runtimes
    BY <1>3, <1>a, FinishedType DEF ManualReturns, Answered, Ready
  <2> QED BY <1>3, <1>a, <2>1, IdleStep
          DEF ManualReturns, TypeInv, TypeOK, Runtimes
<1> QED BY <1>1, <1>2, <1>3 DEF ManualResumes

(* The answers of sources and providers keep the types. *)
LEMMA AnswerTypes ==
  ASSUME TypeInv, NEW t \in Tasks, SourceAnswers(t) \/ ProviderAnswers(t)
  PROVE  TypeInv'
<1>a. proc[t] \in TaskState
  BY DEF TypeInv, TypeOK
<1>1. CASE SourceAnswers(t)
  <2>1. PICK ip \in MaybeAddress :
          proc' = [proc EXCEPT ![t].pc = "detected", ![t].ip = ip]
    BY <1>1, <1>a DEF SourceAnswers, TypeInv, TypeOK, TaskState, MaybeAddress
  <2> DEFINE r == [proc[t] EXCEPT !.pc = "detected", !.ip = ip]
  <2>2. r \in TaskState /\ r.pc = "detected" /\ r.dom = proc[t].dom
    BY <1>a DEF TaskState, MaybeAddress
  <2>3. proc' = [proc EXCEPT ![t] = r]
    BY <2>1
  <2>4. Carries(t, r)
    BY <1>1, <2>2 DEF Carries, SourceAnswers, TypeInv
  <2> HIDE DEF r
  <2>5. proc' \in [Tasks -> TaskState] /\ \A u \in Tasks : Carries(u, proc'[u])
    BY <2>2, <2>3, <2>4, ProcType
  <2>6. spent' \in [moves : Nat, fails : Nat, edits : Nat, crashes : Nat]
    BY <1>1 DEF SourceAnswers, TypeInv, TypeOK
  <2> QED BY <1>1, <2>5, <2>6 DEF SourceAnswers, TypeInv, TypeOK
<1>2. CASE ProviderAnswers(t)
  <2>1. /\ proc[t].dom \in DomainConfig /\ proc[t].ip \in Addresses
        /\ proc[t].dom.id \in Ids /\ proc[t].dom.target \in Targets
    <3>1. proc[t].dom \in DomainConfig /\ proc[t].ip \in Addresses
      BY <1>2 DEF ProviderAnswers, TypeInv, Carries
    <3> QED BY <3>1 DEF DomainConfig
  <2>2. PICK pc \in {"acked", "refused"} : proc' = [proc EXCEPT ![t].pc = pc]
    BY <1>2 DEF ProviderAnswers
  <2> DEFINE r == [proc[t] EXCEPT !.pc = pc]
  <2>3. /\ r \in TaskState /\ r.pc = pc
        /\ r.dom = proc[t].dom /\ r.ip = proc[t].ip
    BY <1>a DEF TaskState
  <2>4. proc' = [proc EXCEPT ![t] = r]
    BY <2>2
  <2>5. Carries(t, r)
    BY <2>1, <2>3 DEF Carries
  <2> HIDE DEF r
  <2>6. proc' \in [Tasks -> TaskState] /\ \A u \in Tasks : Carries(u, proc'[u])
    BY <2>3, <2>4, <2>5, ProcType
  <2>7. record' \in [Targets -> Addresses \cup {None}]
    <3>1. \/ record' = record
          \/ record' = [record EXCEPT ![proc[t].dom.target] = proc[t].ip]
      BY <1>2 DEF ProviderAnswers
    <3> QED BY <2>1, <3>1 DEF TypeInv, TypeOK
  <2>8. acked' \subseteq Ids \X Targets \X Addresses
    <3>1. acked' \subseteq acked \cup {<<proc[t].dom.id, proc[t].dom.target, proc[t].ip>>}
      BY <1>2 DEF ProviderAnswers
    <3> QED BY <2>1, <3>1 DEF TypeInv, TypeOK
  <2>9. spent' \in [moves : Nat, fails : Nat, edits : Nat, crashes : Nat]
    <3>1. spent' = spent \/ spent' = [spent EXCEPT !.fails = @ + 1]
      BY <1>2 DEF ProviderAnswers
    <3> QED BY <3>1 DEF TypeInv, TypeOK
  <2> QED BY <1>2, <2>6, <2>7, <2>8, <2>9 DEF ProviderAnswers, TypeInv, TypeOK
<1> QED BY <1>1, <1>2

(* An editor that goes on to its next step is well formed. *)
LEMMA EditorMoves ==
  ASSUME NEW P, NEW K, NEW pc \in {"idle", "edited", "cleared"},
         NEW f \in [Editors -> [pc : {"idle", "edited", "cleared"},
                               prev : P, prevKnown : K]],
         NEW e \in Editors
  PROVE  [f EXCEPT ![e].pc = pc]
           \in [Editors -> [pc : {"idle", "edited", "cleared"},
                           prev : P, prevKnown : K]]
<1>1. [f[e] EXCEPT !.pc = pc]
        \in [pc : {"idle", "edited", "cleared"}, prev : P, prevKnown : K]
  OBVIOUS
<1> QED BY <1>1

(* A sequence without one of its elements. *)
LEMMA Unlisted ==
  ASSUME NEW S, NEW s \in Seq(S), NEW i \in DOMAIN s
  PROVE  RemoveAt(s, i) \in Seq(S)
<1>1. SubSeq(s, 1, i - 1) \in Seq(S)
  OBVIOUS
<1>2. SubSeq(s, i + 1, Len(s)) \in Seq(S)
  OBVIOUS
<1> QED BY <1>1, <1>2 DEF RemoveAt

(* The domain-editing routes and rebuild keep the types. *)
LEMMA EditTypes ==
  ASSUME TypeInv, NEW e \in Editors, Edit(e) \/ Rebuild(e)
  PROVE  TypeInv'
<1> DEFINE Editing == [pc : {"idle", "edited", "cleared"},
                       prev : [Ids -> DomainRuntime],
                       prevKnown : [Ids -> Targets \cup {None}]]
<1>0. ed \in [Editors -> Editing]
  BY DEF TypeInv, TypeOK
<1>1. ASSUME NEW kind, EditsList(e, kind)
      PROVE  /\ ed' \in [Editors -> Editing]
             /\ spent' \in [moves : Nat, fails : Nat, edits : Nat, crashes : Nat]
  <2>1. ed' \in [Editors -> Editing]
    BY <1>0, <1>1, EditorMoves DEF EditsList
  <2>2. spent' = [spent EXCEPT !.edits = @ + 1]
    BY <1>1 DEF EditsList
  <2>3. spent \in [moves : Nat, fails : Nat, edits : Nat, crashes : Nat]
    BY DEF TypeInv, TypeOK
  <2> QED BY <2>1, <2>2, <2>3, SpentType
<1>2. CASE CreateDomain(e)
  <2>1. PICK id \in unborn, target \in Targets \ TargetsInUse :
          /\ cfg' = Append(cfg, [id |-> id, target |-> target, enabled |-> TRUE])
          /\ unborn' = unborn \ {id}
    BY <1>2 DEF CreateDomain
  <2>2. [id |-> id, target |-> target, enabled |-> TRUE] \in DomainConfig
    BY DEF DomainConfig, TypeInv, TypeOK
  <2>3. cfg' \in Seq(DomainConfig) /\ unborn' \subseteq Ids
    BY <2>1, <2>2 DEF TypeInv, TypeOK
  <2> QED BY <1>1, <1>2, <2>3 DEF CreateDomain, EditsList, TypeInv, TypeOK
<1>3. CASE UpdateDomain(e)
  <2>1. PICK i \in DOMAIN cfg, target \in Targets \ TargetsInUse :
          cfg' = [cfg EXCEPT ![i].target = target]
    BY <1>3 DEF UpdateDomain
  <2>2. cfg[i] \in DomainConfig
    BY ListedType
  <2>3. [cfg[i] EXCEPT !.target = target] \in DomainConfig
    BY <2>2 DEF DomainConfig
  <2>4. cfg' \in Seq(DomainConfig)
    BY <2>1, <2>3 DEF TypeInv, TypeOK
  <2> QED BY <1>1, <1>3, <2>4 DEF UpdateDomain, EditsList, TypeInv, TypeOK
<1>4. CASE ToggleDomain(e)
  <2>1. PICK i \in DOMAIN cfg : cfg' = [cfg EXCEPT ![i].enabled = ~@]
    BY <1>4 DEF ToggleDomain
  <2>2. cfg[i] \in DomainConfig
    BY ListedType
  <2>3. [cfg[i] EXCEPT !.enabled = ~@] \in DomainConfig
    BY <2>2 DEF DomainConfig
  <2>4. cfg' \in Seq(DomainConfig)
    BY <2>1, <2>3 DEF TypeInv, TypeOK
  <2> QED BY <1>1, <1>4, <2>4 DEF ToggleDomain, EditsList, TypeInv, TypeOK
<1>5. CASE DeleteDomain(e)
  <2>1. PICK i \in DOMAIN cfg : cfg' = RemoveAt(cfg, i)
    BY <1>5 DEF DeleteDomain
  <2>2. cfg' \in Seq(DomainConfig)
    BY <2>1, Unlisted DEF TypeInv, TypeOK
  <2> QED BY <1>1, <1>5, <2>2 DEF DeleteDomain, EditsList, TypeInv, TypeOK
<1>6. CASE RebuildClears(e)
  <2>1. ed' \in [Editors -> Editing]
    BY <1>6 DEF RebuildClears, TypeInv, TypeOK
  <2>2. rt' \in [Ids -> DomainRuntime]
    BY <1>6, AbsentType DEF RebuildClears, Runtimes
  <2>3. disk' \in [cfg : Seq(DomainConfig), rt : [Ids -> DomainRuntime],
                   pub : [Families -> Addresses \cup {None}], online : BOOLEAN]
    BY <1>6 DEF RebuildClears, TypeInv, TypeOK
  <2> QED BY <1>6, <2>1, <2>2, <2>3 DEF RebuildClears, TypeInv, TypeOK
<1>7. CASE RebuildFills(e)
  <2>1. ed[e].prev \in Runtimes
    BY DEF TypeInv, TypeOK, Runtimes
  <2>2. rt' \in [Ids -> DomainRuntime]
    BY <1>7, <2>1, RebuiltType DEF RebuildFills, TypeInv, TypeOK, Runtimes
  <2>3. known' \in [Ids -> Targets \cup {None}]
    BY <1>7, LookUp DEF RebuildFills, TypeInv, TypeOK, DomainConfig
  <2>4. IdleEditor \in Editing
    BY AbsentType DEF IdleEditor, Runtimes
  <2>5. ed' \in [Editors -> Editing]
    BY <1>7, <2>4 DEF RebuildFills, TypeInv, TypeOK
  <2> QED BY <1>7, <2>2, <2>3, <2>5 DEF RebuildFills, TypeInv, TypeOK
<1> QED BY <1>2, <1>3, <1>4, <1>5, <1>6, <1>7 DEF Edit, Rebuild

(* The flush, a restart and the environment keep the types. *)
LEMMA OutsideTypes ==
  ASSUME TypeInv, FlushState \/ Restart \/ LinkReported \/ AddressMoves
  PROVE  TypeInv'
<1>1. CASE FlushState
  <2> DEFINE a == [disk EXCEPT !.rt = rt]
             b == [a EXCEPT !.pub = pub]
             Files == [cfg : Seq(DomainConfig), rt : [Ids -> DomainRuntime],
                       pub : [Families -> Addresses \cup {None}],
                       online : BOOLEAN]
  <2>1. a \in Files
    BY DEF TypeInv, TypeOK
  <2>2. disk' = [b EXCEPT !.online = online]
    BY <1>1 DEF FlushState
  <2> HIDE DEF a
  <2>3. b \in Files
    BY <2>1 DEF TypeInv, TypeOK
  <2> HIDE DEF b
  <2>4. disk' \in Files
    BY <2>2, <2>3 DEF TypeInv, TypeOK
  <2> QED BY <1>1, <2>4 DEF FlushState, TypeInv, TypeOK
<1>2. CASE Restart
  <2>1. rt' \in [Ids -> DomainRuntime]
    BY <1>2, AbsentType, RebuiltType DEF Restart, TypeInv, TypeOK, Runtimes
  <2>2. known' \in [Ids -> Targets \cup {None}]
    BY <1>2, TargetsOfType DEF Restart, TypeInv, TypeOK
  <2>3. proc' \in [Tasks -> TaskState] /\ \A u \in Tasks : Carries(u, proc'[u])
    BY <1>2, IdleType DEF Restart, Carries, Idle
  <2>4. ed' \in [Editors -> [pc : {"idle", "edited", "cleared"},
                             prev : [Ids -> DomainRuntime],
                             prevKnown : [Ids -> Targets \cup {None}]]]
    BY <1>2, AbsentType DEF Restart, IdleEditor, Runtimes
  <2>5. spent' \in [moves : Nat, fails : Nat, edits : Nat, crashes : Nat]
    BY <1>2, SpentType DEF Restart, TypeInv, TypeOK
  <2>6. cfg' \in Seq(DomainConfig) /\ online' \in BOOLEAN
        /\ pub' \in [Families -> Addresses \cup {None}]
    BY <1>2 DEF Restart, TypeInv, TypeOK
  <2> QED BY <1>2, <2>1, <2>2, <2>3, <2>4, <2>5, <2>6 DEF Restart, TypeInv, TypeOK
<1>3. CASE LinkReported
  <2>1. online' \in BOOLEAN
    BY <1>3, SyncAssumption DEF LinkReported
  <2> QED BY <1>3, <2>1 DEF LinkReported, TypeInv, TypeOK
<1>4. CASE AddressMoves
  <2>1. spent' = [spent EXCEPT !.moves = @ + 1]
    BY <1>4 DEF AddressMoves
  <2>2. wan' \in [Families -> Addresses \cup {None}]
    BY <1>4 DEF AddressMoves, TypeInv, TypeOK
  <2>3. spent' \in [moves : Nat, fails : Nat, edits : Nat, crashes : Nat]
    BY <2>1, SpentType DEF TypeInv, TypeOK
  <2> QED BY <1>4, <2>2, <2>3 DEF AddressMoves, TypeInv, TypeOK
<1> QED BY <1>1, <1>2, <1>3, <1>4

(* The initial state has the types. *)
LEMMA InitTypes == Init => TypeInv
<1> SUFFICES ASSUME Init PROVE TypeInv
  OBVIOUS
<1>1. cfg \in Seq(DomainConfig) /\ known \in [Ids -> Targets \cup {None}]
  BY SyncAssumption, TargetsOfType DEF Init
<1>2. rt \in [Ids -> DomainRuntime]
  BY DEF Init, DomainRuntime, Pending, Absent, Status
<1>3. proc \in [Tasks -> TaskState] /\ \A t \in Tasks : Carries(t, proc[t])
  BY IdleType DEF Init, Carries, Idle
<1>4. ed \in [Editors -> [pc : {"idle", "edited", "cleared"},
                          prev : [Ids -> DomainRuntime],
                          prevKnown : [Ids -> Targets \cup {None}]]]
  BY AbsentType DEF Init, IdleEditor, Runtimes
<1>5. disk \in [cfg : Seq(DomainConfig), rt : [Ids -> DomainRuntime],
                pub : [Families -> Addresses \cup {None}], online : BOOLEAN]
  BY AbsentType, SyncAssumption DEF Init, Runtimes
<1> QED BY <1>1, <1>2, <1>3, <1>4, <1>5, SyncAssumption DEF Init, TypeInv, TypeOK

(* A step keeps the types. *)
LEMMA NextTypes == TypeInv /\ [Next]_vars => TypeInv'
<1> SUFFICES ASSUME TypeInv, [Next]_vars PROVE TypeInv'
  OBVIOUS
<1>1. ASSUME NEW p \in Passes, StartPass(p) \/ PassResumes(p) PROVE TypeInv'
  BY <1>1, PassTypes
<1>2. ASSUME NEW m \in Manuals, StartManual(m) \/ ManualResumes(m) PROVE TypeInv'
  BY <1>2, ManualTypes
<1>3. ASSUME NEW t \in Tasks, SourceAnswers(t) \/ ProviderAnswers(t) PROVE TypeInv'
  BY <1>3, AnswerTypes
<1>4. ASSUME NEW e \in Editors, Edit(e) \/ Rebuild(e) PROVE TypeInv'
  BY <1>4, EditTypes
<1>5. CASE FlushState \/ Restart \/ LinkReported \/ AddressMoves
  BY <1>5, OutsideTypes
<1>6. CASE UNCHANGED vars
  BY <1>6 DEF vars, TypeInv, TypeOK
<1> QED BY <1>1, <1>2, <1>3, <1>4, <1>5, <1>6 DEF Next

(* The variables keep their shape, and tasks carry what they need across   *)
(* their awaits.                                                           *)
THEOREM TypeInvariant == Spec => []TypeInv
BY InitTypes, NextTypes, PTL DEF Spec

(* Type correctness of the sync core (services/sync.py, runtime.py). *)
THEOREM TypeCorrect == Spec => []TypeOK
<1>1. TypeInv => TypeOK
  BY DEF TypeInv
<1> QED BY <1>1, TypeInvariant, PTL

-----------------------------------------------------------------------------
(* A synced domain was acknowledged *)

(* Every address a domain's runtime holds was acknowledged for it, and a   *)
(* synced one holds an address.                                            *)
AckedIn(acks, domains) ==
  \A id \in Ids :
    /\ domains[id].ip # None
         => \E target \in Targets : <<id, target, domains[id].ip>> \in acks
    /\ domains[id].status = "synced" => domains[id].ip # None

(* A task that was told so by the provider is right about it. *)
Acks ==
  \A t \in Tasks : proc[t].pc = "acked"
    => <<proc[t].dom.id, proc[t].dom.target, proc[t].ip>> \in acked

(* SyncedWasAcked is not inductive: set_freshness makes a domain synced    *)
(* from its address alone, and a rebuild or a restart brings runtimes back *)
(* from where they were kept.                                              *)
AckInv ==
  /\ AckedIn(acked, rt)
  /\ AckedIn(acked, disk.rt)
  /\ \A e \in Editors : AckedIn(acked, ed[e].prev)
  /\ Acks

(* Without an address or a synced status, set_status adds no claim. *)
LEMMA SetStatusAcked ==
  ASSUME NEW acks, NEW domains \in Runtimes, AckedIn(acks, domains),
         NEW id \in Ids, NEW status \in Status \ {"synced"}
  PROVE  AckedIn(acks, SetStatus(domains, id, status, None))
BY DEF SetStatus, AckedIn, Runtimes, DomainRuntime, Status

(* With an acknowledged address it may say synced. *)
LEMMA SetSyncedAcked ==
  ASSUME NEW acks, NEW domains \in Runtimes, AckedIn(acks, domains),
         NEW id \in Ids, NEW target \in Targets, NEW ip \in Addresses,
         <<id, target, ip>> \in acks
  PROVE  AckedIn(acks, SetStatus(domains, id, "synced", ip))
<1>1. ip # None
  BY SyncAssumption
<1> DEFINE new == SetStatus(domains, id, "synced", ip)
<1>2. ASSUME NEW i \in Ids, i # id PROVE new[i] = domains[i]
  BY <1>2 DEF SetStatus, Runtimes
<1>3. CASE domains[id].status = "absent"
  BY <1>3 DEF SetStatus
<1>4. CASE domains[id].status # "absent"
  <2>1. new[id].ip = ip
    BY <1>1, <1>4 DEF SetStatus, Runtimes
  <2> HIDE DEF new
  <2>2. AckedIn(acks, new)
    BY <1>1, <1>2, <2>1 DEF AckedIn
  <2> QED BY <2>2 DEF new
<1> QED BY <1>3, <1>4

(* set_freshness says synced only of an address it holds. *)
LEMMA SetFreshnessAcked ==
  ASSUME NEW acks, NEW domains \in Runtimes, AckedIn(acks, domains),
         NEW id \in Ids, NEW current
  PROVE  AckedIn(acks, SetFreshness(domains, id, current))
BY DEF SetFreshness, Freshness, AckedIn, Runtimes, DomainRuntime, Status

(* rebuild keeps runtimes or starts them afresh. *)
LEMMA RebuiltAcked ==
  ASSUME NEW acks, NEW list, NEW prev, NEW prevKnown, NEW now,
         AckedIn(acks, prev), AckedIn(acks, now)
  PROVE  AckedIn(acks, Rebuilt(list, prev, prevKnown, now))
BY DEF Rebuilt, AckedIn, Pending

(* An empty dictionary claims nothing. *)
LEMMA AbsentAcked == ASSUME NEW acks PROVE AckedIn(acks, [id \in Ids |-> Absent])
BY DEF AckedIn, Absent

(* A step that moves one task elsewhere than to an acknowledgement. *)
LEMMA MovedAcks ==
  ASSUME Acks, NEW t \in Tasks, NEW pcs, "acked" \notin pcs, Moves(t, pcs),
         acked' = acked
  PROVE  Acks'
BY DEF Acks, Moves

(* What a finished update leaves behind was acknowledged. *)
LEMMA FinishedAcked ==
  ASSUME TypeInv, AckInv, NEW t \in Tasks, proc[t].pc \in {"acked", "refused"}
  PROVE  AckedIn(acked, Finished(proc[t]))
<1>1. proc[t].dom \in DomainConfig /\ proc[t].ip \in Addresses /\ rt \in Runtimes
  BY DEF TypeInv, TypeOK, Carries, Runtimes
<1>2. proc[t].dom.id \in Ids /\ proc[t].dom.target \in Targets
  BY <1>1 DEF DomainConfig
<1>3. CASE proc[t].pc = "acked"
  BY <1>1, <1>2, <1>3, SetSyncedAcked DEF Finished, AckInv, Acks
<1>4. CASE proc[t].pc # "acked"
  BY <1>1, <1>2, <1>4, SetStatusAcked DEF Finished, AckInv, Status
<1> QED BY <1>3, <1>4

(* What runs on the loop for a pass keeps the claims acknowledged. *)
LEMMA PassAcks ==
  ASSUME TypeInv, AckInv, NEW p \in Passes, StartPass(p) \/ PassResumes(p)
  PROVE  AckInv'
<1> USE PassIsNoManual
<1>a. rt \in Runtimes /\ proc[p] \in TaskState
  BY DEF TypeInv, TypeOK, Runtimes
<1>b. acked' = acked /\ disk' = disk /\ ed' = ed
  BY DEF StartPass, PassResumes, NothingNew, AnnounceAddress, AnnounceReturns,
         EndPass, VisitDisabled, VisitNothingToDo, VisitUnknownProvider,
         VisitUpdate, UpdateConfirms, UpdateChanges, UpdateOfDeletedRaises,
         HooksReturn
<1>c. SUFFICES AckedIn(acked, rt') /\ Acks'
  BY <1>b DEF AckInv
<1>1. CASE StartPass(p)
  <2>1. Moves(p, {"detect"})
    BY <1>1 DEF StartPass, Moves, Idle, TypeInv, TypeOK
  <2> QED BY <1>1, <1>b, <2>1, MovedAcks DEF StartPass, AckInv
<1>2. CASE NothingNew(p)
  <2>1. Moves(p, {"detect", "visit"})
    BY <1>2, NextFamilyStep DEF NothingNew
  <2> QED BY <1>2, <1>b, <2>1, MovedAcks DEF NothingNew, AckInv
<1>3. CASE AnnounceAddress(p)
  <2>1. Moves(p, {"announce"})
    BY <1>a, <1>3 DEF AnnounceAddress, Moves, TypeInv, TypeOK, TaskState
  <2> QED BY <1>3, <1>b, <2>1, MovedAcks DEF AnnounceAddress, AckInv
<1>4. CASE AnnounceReturns(p)
  <2>1. Moves(p, {"detect", "visit"})
    BY <1>4, NextFamilyStep DEF AnnounceReturns
  <2> QED BY <1>4, <1>b, <2>1, MovedAcks DEF AnnounceReturns, AckInv
<1>5. CASE EndPass(p)
  <2>1. Moves(p, {"idle"})
    BY <1>5, IdleStep DEF EndPass
  <2> QED BY <1>5, <1>b, <2>1, MovedAcks DEF EndPass, AckInv
<1>6. CASE VisitDisabled(p)
  <2>1. Current(p).id \in Ids
    BY <1>6, CurrentType DEF VisitDisabled
  <2>2. Moves(p, {"hooks"}) \/ Moves(p, {"visit"})
    BY <1>6, <2>1, DispatchStep, NextDomainStep DEF VisitDisabled
  <2>3. AckedIn(acked, rt')
    BY <1>a, <1>6, <2>1, SetFreshnessAcked DEF VisitDisabled, AckInv
  <2> QED BY <1>b, <2>2, <2>3, MovedAcks DEF AckInv
<1>7. CASE VisitNothingToDo(p)
  <2>1. Moves(p, {"visit"})
    BY <1>7, NextDomainStep DEF VisitNothingToDo
  <2> QED BY <1>7, <1>b, <2>1, MovedAcks DEF VisitNothingToDo, AckInv
<1>8. CASE VisitUnknownProvider(p)
  <2>1. Current(p).id \in Ids
    BY <1>8, CurrentType DEF VisitUnknownProvider
  <2>2. Moves(p, {"hooks"}) \/ Moves(p, {"visit"}) \/ Moves(p, {"idle"})
    BY <1>8, <2>1, DispatchStep, NextDomainStep, IdleStep
       DEF VisitUnknownProvider
  <2>3. AckedIn(acked, rt')
    BY <1>a, <1>8, <2>1, SetStatusAcked DEF VisitUnknownProvider, AckInv, Status
  <2> QED BY <1>b, <2>2, <2>3, MovedAcks DEF AckInv
<1>9. CASE VisitUpdate(p)
  <2>1. Current(p) \in DomainConfig /\ Current(p).id \in Ids
    BY <1>9, CurrentType DEF VisitUpdate
  <2>2. AddressToPush(p, Current(p)) \in Addresses
    BY <1>9, <2>1, AddressType DEF VisitUpdate, Due, AddressToPush, MaybeAddress
  <2>3. Moves(p, {"update"})
    BY <1>a, <1>9, <2>1, <2>2, BeginUpdateStep DEF VisitUpdate
  <2>4. AckedIn(acked, rt')
    BY <1>a, <1>9, <2>1, SetStatusAcked DEF VisitUpdate, BeginUpdate, AckInv, Status
  <2> QED BY <1>b, <2>3, <2>4, MovedAcks DEF AckInv
<1>10. CASE UpdateConfirms(p)
  <2>1. Moves(p, {"visit"})
    BY <1>10, NextDomainStep DEF UpdateConfirms
  <2>2. AckedIn(acked, rt')
    BY <1>10, FinishedAcked DEF UpdateConfirms, Answered, Ready
  <2> QED BY <1>b, <2>1, <2>2, MovedAcks DEF AckInv
<1>11. CASE UpdateChanges(p)
  <2>1. proc[p].dom.id \in Ids
    BY <1>11, FinishedType DEF UpdateChanges, Answered, Ready
  <2>2. Moves(p, {"hooks"})
    BY <1>11, <2>1, DispatchStep DEF UpdateChanges
  <2>3. AckedIn(acked, rt')
    BY <1>11, FinishedAcked DEF UpdateChanges, Answered, Ready
  <2> QED BY <1>b, <2>2, <2>3, MovedAcks DEF AckInv
<1>12. CASE UpdateOfDeletedRaises(p)
  <2>1. Moves(p, {"idle"})
    BY <1>12, IdleStep DEF UpdateOfDeletedRaises
  <2> QED BY <1>12, <1>b, <2>1, MovedAcks DEF UpdateOfDeletedRaises, AckInv
<1>13. CASE HooksReturn(p)
  <2>1. Moves(p, {"visit"})
    BY <1>13, NextDomainStep DEF HooksReturn
  <2> QED BY <1>13, <1>b, <2>1, MovedAcks DEF HooksReturn, AckInv
<1> QED BY <1>1, <1>2, <1>3, <1>4, <1>5, <1>6, <1>7, <1>8, <1>9, <1>10,
           <1>11, <1>12, <1>13 DEF PassResumes

(* What runs on the loop for a manual sync keeps the claims acknowledged.  *)
LEMMA ManualAcks ==
  ASSUME TypeInv, AckInv, NEW m \in Manuals, StartManual(m) \/ ManualResumes(m)
  PROVE  AckInv'
<1>a. /\ m \in Tasks /\ proc[m] \in TaskState /\ Idle \in TaskState
      /\ rt \in Runtimes
  BY IdleType DEF Tasks, TypeInv, TypeOK, Runtimes
<1>b. acked' = acked /\ disk' = disk /\ ed' = ed
  BY DEF StartManual, ManualResumes, ManualDetected, ManualReturns
<1>c. SUFFICES AckedIn(acked, rt') /\ Acks'
  BY <1>b DEF AckInv
<1>1. CASE StartManual(m)
  <2>1. PICK d \in Range(cfg) :
          \/ /\ proc' = [proc EXCEPT ![m] = [Idle EXCEPT
                           !.pc = "detect", !.fam = FamilyOf[d.target], !.dom = d]]
             /\ UNCHANGED rt
          \/ /\ AddressFor(d) # None
             /\ BeginUpdate(m, Idle, d, AddressFor(d))
          \/ /\ rt' = SetStatus(rt, d.id, "error", None)
             /\ UNCHANGED proc
    BY <1>1 DEF StartManual
  <2>2. d \in DomainConfig /\ d.id \in Ids
    <3>1. d \in DomainConfig
      BY ListedType DEF Range
    <3> QED BY <3>1 DEF DomainConfig
  <2>3. CASE /\ proc' = [proc EXCEPT ![m] = [Idle EXCEPT
                           !.pc = "detect", !.fam = FamilyOf[d.target], !.dom = d]]
             /\ UNCHANGED rt
    <3>1. Moves(m, {"detect"})
      BY <1>a, <2>3 DEF Moves, Idle, TypeInv, TypeOK
    <3> QED BY <1>a, <1>b, <2>3, <3>1, MovedAcks DEF AckInv
  <2>4. CASE BeginUpdate(m, Idle, d, AddressFor(d)) /\ AddressFor(d) # None
    <3>1. AddressFor(d) \in Addresses
      BY <2>2, <2>4, AddressType DEF MaybeAddress
    <3>2. Moves(m, {"update"})
      BY <1>a, <2>2, <2>4, <3>1, BeginUpdateStep
    <3>3. AckedIn(acked, rt')
      BY <1>a, <2>2, <2>4, SetStatusAcked DEF BeginUpdate, AckInv, Status
    <3> QED BY <1>a, <1>b, <3>2, <3>3, MovedAcks DEF AckInv
  <2>5. CASE rt' = SetStatus(rt, d.id, "error", None) /\ UNCHANGED proc
    <3>1. AckedIn(acked, rt')
      BY <1>a, <2>2, <2>5, SetStatusAcked DEF AckInv, Status
    <3> QED BY <1>b, <2>5, <3>1 DEF AckInv, Acks
  <2> QED BY <2>1, <2>3, <2>4, <2>5
<1>2. CASE ManualDetected(m)
  <2> DEFINE d == proc[m].dom  ip == proc[m].ip
  <2>1. d \in DomainConfig /\ d.id \in Ids
    <3>1. d \in DomainConfig
      BY <1>a, <1>2 DEF ManualDetected, Ready, TypeInv, Carries
    <3> QED BY <3>1 DEF DomainConfig
  <2>2. CASE proc' = [proc EXCEPT ![m] = Idle]
             /\ (rt' = rt \/ rt' = SetStatus(rt, d.id, "error", None))
    <3>1. Moves(m, {"idle"})
      BY <1>a, <2>2, IdleStep
    <3>2. AckedIn(acked, rt')
      BY <1>a, <2>1, <2>2, SetStatusAcked DEF AckInv, Status
    <3> QED BY <1>a, <1>b, <3>1, <3>2, MovedAcks DEF AckInv
  <2>3. CASE BeginUpdate(m, Idle, d, ip) /\ ip # None
    <3>1. ip \in Addresses
      BY <1>a, <2>3 DEF TaskState
    <3>2. Moves(m, {"update"})
      BY <1>a, <2>1, <2>3, <3>1, BeginUpdateStep
    <3>3. AckedIn(acked, rt')
      BY <1>a, <2>1, <2>3, SetStatusAcked DEF BeginUpdate, AckInv, Status
    <3> QED BY <1>a, <1>b, <3>2, <3>3, MovedAcks DEF AckInv
  <2> QED BY <1>2, <2>2, <2>3 DEF ManualDetected
<1>3. CASE ManualReturns(m)
  <2>1. Moves(m, {"idle"})
    BY <1>3, <1>a, IdleStep DEF ManualReturns
  <2>2. AckedIn(acked, rt')
    BY <1>3, <1>a, FinishedAcked DEF ManualReturns, Answered, Ready
  <2> QED BY <1>a, <1>b, <2>1, <2>2, MovedAcks DEF AckInv
<1> QED BY <1>1, <1>2, <1>3 DEF ManualResumes

(* Answers only add acknowledgements, and the one they are about.          *)
LEMMA AnswerAcks ==
  ASSUME TypeInv, AckInv, NEW t \in Tasks, SourceAnswers(t) \/ ProviderAnswers(t)
  PROVE  AckInv'
<1>a. proc[t] \in TaskState /\ proc \in [Tasks -> TaskState]
  BY DEF TypeInv, TypeOK
<1>b. rt' = rt /\ disk' = disk /\ ed' = ed /\ acked \subseteq acked'
  BY DEF SourceAnswers, ProviderAnswers
<1>c. ASSUME NEW domains, AckedIn(acked, domains) PROVE AckedIn(acked', domains)
  BY <1>b, <1>c DEF AckedIn
<1>d. SUFFICES Acks'
  BY <1>b, <1>c DEF AckInv
<1>1. CASE SourceAnswers(t)
  <2>1. Moves(t, {"detected"})
    BY <1>a, <1>1 DEF SourceAnswers, Moves, TaskState
  <2>2. acked' = acked
    BY <1>1 DEF SourceAnswers
  <2> QED BY <2>1, <2>2, MovedAcks DEF AckInv
<1>2. CASE ProviderAnswers(t)
  <2>1. PICK pc \in {"acked", "refused"} :
          /\ proc' = [proc EXCEPT ![t].pc = pc]
          /\ pc = "acked" => acked' = acked \cup
               {<<proc[t].dom.id, proc[t].dom.target, proc[t].ip>>}
    BY <1>2 DEF ProviderAnswers
  <2>2. /\ proc'[t].pc = pc /\ proc'[t].dom = proc[t].dom
        /\ proc'[t].ip = proc[t].ip
        /\ \A u \in Tasks \ {t} : proc'[u] = proc[u]
    BY <1>a, <2>1 DEF TaskState
  <2> QED BY <1>b, <2>1, <2>2 DEF AckInv, Acks
<1> QED BY <1>1, <1>2

(* The routes, rebuild, the flush, a restart and the environment only      *)
(* carry claims along.                                                     *)
LEMMA OtherAcks ==
  ASSUME TypeInv, AckInv,
         \/ \E e \in Editors : Edit(e) \/ Rebuild(e)
         \/ FlushState \/ Restart \/ LinkReported \/ AddressMoves
         \/ UNCHANGED vars
  PROVE  AckInv'
<1>1. ASSUME NEW e \in Editors, Edit(e) PROVE AckInv'
  <2>1. /\ UNCHANGED <<acked, rt, disk, proc>>
        /\ ed' = [ed EXCEPT ![e].pc = "edited"]
    BY <1>1 DEF Edit, CreateDomain, UpdateDomain, ToggleDomain, DeleteDomain,
                EditsList
  <2>2. \A f \in Editors : ed'[f].prev = ed[f].prev
    BY <2>1 DEF TypeInv, TypeOK
  <2> QED BY <2>1, <2>2 DEF AckInv, Acks
<1>2. ASSUME NEW e \in Editors, RebuildClears(e) PROVE AckInv'
  <2>1. \A f \in Editors : ed'[f].prev = ed[f].prev \/ ed'[f].prev = rt
    BY <1>2 DEF RebuildClears, TypeInv, TypeOK
  <2>2. disk'.rt = disk.rt /\ AckedIn(acked, rt')
    BY <1>2, AbsentAcked DEF RebuildClears, TypeInv, TypeOK
  <2> QED BY <1>2, <2>1, <2>2 DEF RebuildClears, AckInv, Acks
<1>3. ASSUME NEW e \in Editors, RebuildFills(e) PROVE AckInv'
  <2>1. AckedIn(acked, rt')
    BY <1>3, RebuiltAcked DEF RebuildFills, AckInv
  <2>2. AckedIn(acked, IdleEditor.prev)
    BY AbsentAcked DEF IdleEditor
  <2>3. \A f \in Editors : ed'[f] = ed[f] \/ ed'[f] = IdleEditor
    BY <1>3 DEF RebuildFills, TypeInv, TypeOK
  <2> QED BY <1>3, <2>1, <2>2, <2>3 DEF RebuildFills, AckInv, Acks
<1>4. CASE FlushState
  <2>1. disk'.rt = rt
    BY <1>4 DEF FlushState, TypeInv, TypeOK
  <2> QED BY <1>4, <2>1 DEF FlushState, AckInv, Acks
<1>5. CASE Restart
  <2>1. AckedIn(acked, rt')
    BY <1>5, RebuiltAcked, AbsentAcked DEF Restart, AckInv
  <2>2. Acks' /\ \A e \in Editors : AckedIn(acked, ed'[e].prev)
    BY <1>5, AbsentAcked DEF Restart, Acks, Idle, IdleEditor
  <2> QED BY <1>5, <2>1, <2>2 DEF Restart, AckInv
<1>6. CASE LinkReported \/ AddressMoves \/ UNCHANGED vars
  BY <1>6 DEF LinkReported, AddressMoves, vars, AckInv, Acks
<1> QED BY <1>1, <1>2, <1>3, <1>4, <1>5, <1>6 DEF Rebuild

(* Nothing is claimed that no provider acknowledged, in the runtime, in    *)
(* the file and in what a rebuild remembers.                               *)
THEOREM AcknowledgedInvariant == Spec => []AckInv
<1>1. Init => AckInv
  <2> SUFFICES ASSUME Init PROVE AckInv
    OBVIOUS
  <2>1. AckedIn(acked, rt)
    BY DEF Init, AckedIn, Pending, Absent
  <2>2. AckedIn(acked, disk.rt) /\ \A e \in Editors : AckedIn(acked, ed[e].prev)
    BY AbsentAcked DEF Init, IdleEditor
  <2>3. Acks
    BY DEF Init, Acks, Idle
  <2> QED BY <2>1, <2>2, <2>3 DEF AckInv
<1>2. TypeInv /\ AckInv /\ [Next]_vars => AckInv'
  <2> SUFFICES ASSUME TypeInv, AckInv, [Next]_vars PROVE AckInv'
    OBVIOUS
  <2> QED BY PassAcks, ManualAcks, AnswerAcks, OtherAcks DEF Next
<1> QED BY <1>1, <1>2, TypeInvariant, PTL DEF Spec

(* A domain is only ever called synced at an address its provider          *)
(* acknowledged for it (runtime.py set_status, set_freshness, rebuild and  *)
(* restore), through edits, deletions, preempted rebuilds and restarts.    *)
THEOREM SyncedIsAcknowledged == Spec => []SyncedWasAcked
<1>1. AckInv => SyncedWasAcked
  BY DEF AckInv, AckedIn, SyncedWasAcked, AckedId
<1> QED BY <1>1, AcknowledgedInvariant, PTL

-----------------------------------------------------------------------------
(* An updating domain has an update in flight *)

Busy == {"update", "acked", "refused"}
HasTask(id) == \E t \in Tasks : proc[t].pc \in Busy /\ proc[t].dom.id = id

BusyIn(domains) == \A id \in Ids : domains[id].status = "updating" => HasTask(id)

(* UpdatingHasTask is not inductive: while a thread is inside rebuild, the *)
(* statuses are where it keeps them.                                       *)
BusyInv ==
  /\ BusyIn(rt)
  /\ \A e \in Editors : ed[e].pc = "cleared" => BusyIn(ed[e].prev)

NoNewUpdating(before, after) ==
  \A id \in Ids : after[id].status = "updating" => before[id].status = "updating"

(* A task outside an update moves, and no domain begins to update.         *)
LEMMA OutsideUpdate ==
  ASSUME BusyInv, NEW t \in Tasks, NEW pcs, proc[t].pc \notin Busy,
         Moves(t, pcs), NoNewUpdating(rt, rt'), ed' = ed
  PROVE  BusyInv'
<1>1. ASSUME NEW id \in Ids, HasTask(id) PROVE HasTask(id)'
  BY <1>1 DEF HasTask, Moves
<1> QED BY <1>1 DEF BusyInv, BusyIn, NoNewUpdating

(* A task begins an update of a domain.                                    *)
LEMMA UpdateBegins ==
  ASSUME TypeInv, BusyInv, NEW t \in Tasks, NEW locals \in TaskState,
         NEW d \in DomainConfig, NEW ip \in Addresses,
         BeginUpdate(t, locals, d, ip), proc[t].pc \notin Busy, ed' = ed
  PROVE  BusyInv'
<1>1. Moves(t, {"update"}) /\ proc'[t].dom = d
  BY BeginUpdateStep
<1>2. HasTask(d.id)'
  BY <1>1 DEF HasTask, Moves, Busy
<1>3. ASSUME NEW id \in Ids, HasTask(id) PROVE HasTask(id)'
  BY <1>1, <1>3 DEF HasTask, Moves
<1>4. \A id \in Ids : rt'[id].status = "updating" =>
        id = d.id \/ rt[id].status = "updating"
  BY DEF BeginUpdate, SetStatus, TypeInv, TypeOK
<1> QED BY <1>2, <1>3, <1>4 DEF BusyInv, BusyIn

(* A task leaves its update, and its domain is no longer updating.  The    *)
(* loop runs, so no thread is inside rebuild.                              *)
LEMMA UpdateEnds ==
  ASSUME BusyInv, ~RebuildPreempted, LoopRuns, NEW t \in Tasks, NEW pcs,
         Moves(t, pcs), NoNewUpdating(rt, rt'),
         rt'[proc[t].dom.id].status # "updating", ed' = ed
  PROVE  BusyInv'
<1>1. ASSUME NEW id \in Ids, HasTask(id), id # proc[t].dom.id
      PROVE  HasTask(id)'
  BY <1>1 DEF HasTask, Moves
<1>2. \A e \in Editors : ed[e].pc # "cleared"
  BY DEF LoopRuns
<1> QED BY <1>1, <1>2 DEF BusyInv, BusyIn, NoNewUpdating

(* The status an update leaves behind is not updating.                     *)
LEMMA FinishedStatus ==
  ASSUME TypeInv, NEW t \in Tasks, proc[t].pc \in {"acked", "refused"}
  PROVE  /\ Finished(proc[t])[proc[t].dom.id].status # "updating"
         /\ NoNewUpdating(rt, Finished(proc[t]))
<1>1. proc[t].dom.id \in Ids /\ rt \in Runtimes
  BY FinishedType DEF TypeInv, TypeOK, Runtimes
<1> QED BY <1>1 DEF Finished, SetStatus, NoNewUpdating, Runtimes, DomainRuntime

(* set_status to anything else, and set_freshness, begin no update.        *)
LEMMA OtherStatus ==
  ASSUME NEW domains \in Runtimes, NEW id \in Ids, NEW current
  PROVE  /\ NoNewUpdating(domains, SetStatus(domains, id, "error", None))
         /\ NoNewUpdating(domains, SetFreshness(domains, id, current))
         /\ NoNewUpdating(domains, domains)
BY DEF SetStatus, SetFreshness, Freshness, NoNewUpdating, Runtimes, DomainRuntime

(* What runs on the loop for a pass keeps an update in flight for every    *)
(* domain that is updating.                                                *)
LEMMA PassBusy ==
  ASSUME TypeInv, BusyInv, ~RebuildPreempted,
         NEW p \in Passes, StartPass(p) \/ PassResumes(p)
  PROVE  BusyInv'
<1> USE PassIsNoManual DEF Busy
<1>a. rt \in Runtimes /\ proc[p] \in TaskState
  BY DEF TypeInv, TypeOK, Runtimes
<1>b. ed' = ed
  BY DEF StartPass, PassResumes, NothingNew, AnnounceAddress, AnnounceReturns,
         EndPass, VisitDisabled, VisitNothingToDo, VisitUnknownProvider,
         VisitUpdate, UpdateConfirms, UpdateChanges, UpdateOfDeletedRaises,
         HooksReturn
<1>c. NoNewUpdating(rt, rt)
  BY DEF NoNewUpdating
<1>1. CASE StartPass(p)
  <2>1. Moves(p, {"detect"})
    BY <1>1 DEF StartPass, Moves, Idle, TypeInv, TypeOK
  <2> QED BY <1>1, <1>b, <1>c, <2>1, OutsideUpdate DEF StartPass, Ready
<1>2. CASE NothingNew(p)
  <2>1. Moves(p, {"detect", "visit"})
    BY <1>2, NextFamilyStep DEF NothingNew
  <2> QED BY <1>2, <1>b, <1>c, <2>1, OutsideUpdate DEF NothingNew, Ready
<1>3. CASE AnnounceAddress(p)
  <2>1. Moves(p, {"announce"})
    BY <1>a, <1>3 DEF AnnounceAddress, Moves, TypeInv, TypeOK, TaskState
  <2> QED BY <1>3, <1>b, <1>c, <2>1, OutsideUpdate DEF AnnounceAddress, Ready
<1>4. CASE AnnounceReturns(p)
  <2>1. Moves(p, {"detect", "visit"})
    BY <1>4, NextFamilyStep DEF AnnounceReturns
  <2> QED BY <1>4, <1>b, <1>c, <2>1, OutsideUpdate DEF AnnounceReturns, Ready
<1>5. CASE EndPass(p)
  <2>1. Moves(p, {"idle"})
    BY <1>5, IdleStep DEF EndPass
  <2> QED BY <1>5, <1>b, <1>c, <2>1, OutsideUpdate DEF EndPass, Visiting
<1>6. CASE VisitDisabled(p)
  <2>1. Current(p).id \in Ids
    BY <1>6, CurrentType DEF VisitDisabled
  <2>2. Moves(p, {"hooks"}) \/ Moves(p, {"visit"})
    BY <1>6, <2>1, DispatchStep, NextDomainStep DEF VisitDisabled
  <2>3. NoNewUpdating(rt, rt')
    BY <1>a, <1>6, <2>1, OtherStatus DEF VisitDisabled
  <2> QED BY <1>6, <1>b, <2>2, <2>3, OutsideUpdate DEF VisitDisabled, Visiting
<1>7. CASE VisitNothingToDo(p)
  <2>1. Moves(p, {"visit"})
    BY <1>7, NextDomainStep DEF VisitNothingToDo
  <2> QED BY <1>7, <1>b, <1>c, <2>1, OutsideUpdate DEF VisitNothingToDo, Visiting
<1>8. CASE VisitUnknownProvider(p)
  <2>1. Current(p).id \in Ids
    BY <1>8, CurrentType DEF VisitUnknownProvider
  <2>2. Moves(p, {"hooks"}) \/ Moves(p, {"visit"}) \/ Moves(p, {"idle"})
    BY <1>8, <2>1, DispatchStep, NextDomainStep, IdleStep
       DEF VisitUnknownProvider
  <2>3. NoNewUpdating(rt, rt')
    BY <1>a, <1>8, <2>1, OtherStatus DEF VisitUnknownProvider
  <2> QED BY <1>8, <1>b, <2>2, <2>3, OutsideUpdate
          DEF VisitUnknownProvider, Visiting
<1>9. CASE VisitUpdate(p)
  <2>1. Current(p) \in DomainConfig
    BY <1>9, CurrentType DEF VisitUpdate
  <2>2. AddressToPush(p, Current(p)) \in Addresses
    BY <1>9, <2>1, AddressType DEF VisitUpdate, Due, AddressToPush, MaybeAddress
  <2> QED BY <1>a, <1>b, <1>9, <2>1, <2>2, UpdateBegins DEF VisitUpdate, Visiting
<1>10. CASE UpdateConfirms(p)
  <2>1. Moves(p, {"visit"})
    BY <1>10, NextDomainStep DEF UpdateConfirms
  <2>2. LoopRuns /\ proc[p].pc \in {"acked", "refused"} /\ rt' = Finished(proc[p])
    BY <1>10 DEF UpdateConfirms, Answered, Ready
  <2> QED BY <1>b, <2>1, <2>2, FinishedStatus, UpdateEnds
<1>11. CASE UpdateChanges(p)
  <2>1. proc[p].dom.id \in Ids
    BY <1>11, FinishedType DEF UpdateChanges, Answered, Ready
  <2>2. Moves(p, {"hooks"})
    BY <1>11, <2>1, DispatchStep DEF UpdateChanges
  <2>3. LoopRuns /\ proc[p].pc \in {"acked", "refused"} /\ rt' = Finished(proc[p])
    BY <1>11 DEF UpdateChanges, Answered, Ready
  <2> QED BY <1>b, <2>2, <2>3, FinishedStatus, UpdateEnds
<1>12. CASE UpdateOfDeletedRaises(p)
  <2>1. Moves(p, {"idle"})
    BY <1>12, IdleStep DEF UpdateOfDeletedRaises
  <2>2. LoopRuns /\ rt' = rt /\ rt[proc[p].dom.id].status = "absent"
    BY <1>12 DEF UpdateOfDeletedRaises, Answered, Ready
  <2> QED BY <1>b, <1>c, <2>1, <2>2, UpdateEnds
<1>13. CASE HooksReturn(p)
  <2>1. Moves(p, {"visit"})
    BY <1>13, NextDomainStep DEF HooksReturn
  <2> QED BY <1>13, <1>b, <1>c, <2>1, OutsideUpdate DEF HooksReturn, Ready
<1> QED BY <1>1, <1>2, <1>3, <1>4, <1>5, <1>6, <1>7, <1>8, <1>9, <1>10,
           <1>11, <1>12, <1>13 DEF PassResumes

(* The same for manual syncs.                                              *)
LEMMA ManualBusy ==
  ASSUME TypeInv, BusyInv, ~RebuildPreempted,
         NEW m \in Manuals, StartManual(m) \/ ManualResumes(m)
  PROVE  BusyInv'
<1> USE DEF Busy
<1>a. /\ m \in Tasks /\ proc[m] \in TaskState /\ Idle \in TaskState
      /\ rt \in Runtimes
  BY IdleType DEF Tasks, TypeInv, TypeOK, Runtimes
<1>b. ed' = ed
  BY DEF StartManual, ManualResumes, ManualDetected, ManualReturns
<1>c. NoNewUpdating(rt, rt)
  BY DEF NoNewUpdating
<1>1. CASE StartManual(m)
  <2>1. PICK d \in Range(cfg) :
          \/ /\ proc' = [proc EXCEPT ![m] = [Idle EXCEPT
                           !.pc = "detect", !.fam = FamilyOf[d.target], !.dom = d]]
             /\ UNCHANGED rt
          \/ /\ AddressFor(d) # None
             /\ BeginUpdate(m, Idle, d, AddressFor(d))
          \/ /\ rt' = SetStatus(rt, d.id, "error", None)
             /\ UNCHANGED proc
    BY <1>1 DEF StartManual
  <2>2. d \in DomainConfig /\ d.id \in Ids
    <3>1. d \in DomainConfig
      BY ListedType DEF Range
    <3> QED BY <3>1 DEF DomainConfig
  <2>3. proc[m].pc = "idle"
    BY <1>1 DEF StartManual, Ready
  <2>4. CASE /\ proc' = [proc EXCEPT ![m] = [Idle EXCEPT
                           !.pc = "detect", !.fam = FamilyOf[d.target], !.dom = d]]
             /\ UNCHANGED rt
    <3>1. Moves(m, {"detect"})
      BY <1>a, <2>4 DEF Moves, Idle, TypeInv, TypeOK
    <3> QED BY <1>a, <1>b, <1>c, <2>3, <2>4, <3>1, OutsideUpdate
  <2>5. CASE BeginUpdate(m, Idle, d, AddressFor(d)) /\ AddressFor(d) # None
    <3>1. AddressFor(d) \in Addresses
      BY <2>2, <2>5, AddressType DEF MaybeAddress
    <3> QED BY <1>a, <1>b, <2>2, <2>3, <2>5, <3>1, UpdateBegins
  <2>6. CASE rt' = SetStatus(rt, d.id, "error", None) /\ UNCHANGED proc
    <3>1. NoNewUpdating(rt, rt')
      BY <1>a, <2>2, <2>6, OtherStatus
    <3> QED BY <1>b, <2>6, <3>1 DEF BusyInv, BusyIn, HasTask, NoNewUpdating
  <2> QED BY <2>1, <2>4, <2>5, <2>6
<1>2. CASE ManualDetected(m)
  <2> DEFINE d == proc[m].dom  ip == proc[m].ip
  <2>1. d \in DomainConfig /\ d.id \in Ids
    <3>1. d \in DomainConfig
      BY <1>a, <1>2 DEF ManualDetected, Ready, TypeInv, Carries
    <3> QED BY <3>1 DEF DomainConfig
  <2>2. proc[m].pc = "detected"
    BY <1>2 DEF ManualDetected, Ready
  <2>3. CASE proc' = [proc EXCEPT ![m] = Idle]
             /\ (rt' = rt \/ rt' = SetStatus(rt, d.id, "error", None))
    <3>1. Moves(m, {"idle"})
      BY <1>a, <2>3, IdleStep
    <3>2. NoNewUpdating(rt, rt')
      BY <1>a, <1>c, <2>1, <2>3, OtherStatus
    <3> QED BY <1>a, <1>b, <2>2, <3>1, <3>2, OutsideUpdate
  <2>4. CASE BeginUpdate(m, Idle, d, ip) /\ ip # None
    <3>1. ip \in Addresses
      BY <1>a, <2>4 DEF TaskState
    <3> QED BY <1>a, <1>b, <2>1, <2>2, <2>4, <3>1, UpdateBegins
  <2> QED BY <1>2, <2>3, <2>4 DEF ManualDetected
<1>3. CASE ManualReturns(m)
  <2>1. Moves(m, {"idle"})
    BY <1>3, <1>a, IdleStep DEF ManualReturns
  <2>2. LoopRuns /\ proc[m].pc \in {"acked", "refused"} /\ rt' = Finished(proc[m])
    BY <1>3 DEF ManualReturns, Answered, Ready
  <2> QED BY <1>a, <1>b, <2>1, <2>2, FinishedStatus, UpdateEnds
<1> QED BY <1>1, <1>2, <1>3 DEF ManualResumes

(* An answer keeps the task in its update.                                 *)
LEMMA AnswerBusy ==
  ASSUME TypeInv, BusyInv, NEW t \in Tasks, SourceAnswers(t) \/ ProviderAnswers(t)
  PROVE  BusyInv'
<1>a. proc \in [Tasks -> TaskState] /\ proc[t] \in TaskState
  BY DEF TypeInv, TypeOK
<1>b. rt' = rt /\ ed' = ed
  BY DEF SourceAnswers, ProviderAnswers
<1>1. \A u \in Tasks : proc[u].pc \in Busy =>
        proc'[u].pc \in Busy /\ proc'[u].dom = proc[u].dom
  <2>1. CASE SourceAnswers(t)
    BY <1>a, <2>1 DEF SourceAnswers, Busy, TaskState
  <2>2. CASE ProviderAnswers(t)
    <3>1. PICK pc \in {"acked", "refused"} : proc' = [proc EXCEPT ![t].pc = pc]
      BY <2>2 DEF ProviderAnswers
    <3> QED BY <1>a, <3>1 DEF Busy, TaskState
  <2> QED BY <2>1, <2>2
<1>2. ASSUME NEW id \in Ids, HasTask(id) PROVE HasTask(id)'
  BY <1>1, <1>2 DEF HasTask
<1> QED BY <1>b, <1>2 DEF BusyInv, BusyIn

(* The routes, rebuild and the environment leave the tasks alone.          *)
LEMMA OtherBusy ==
  ASSUME TypeInv, BusyInv, proc' = proc,
         \/ \E e \in Editors : Edit(e) \/ Rebuild(e)
         \/ FlushState \/ LinkReported \/ AddressMoves \/ UNCHANGED vars
  PROVE  BusyInv'
<1>a. \A id \in Ids : HasTask(id)' = HasTask(id)
  BY DEF HasTask
<1>1. ASSUME NEW e \in Editors, Edit(e) PROVE BusyInv'
  <2>1. rt' = rt /\ ed' = [ed EXCEPT ![e].pc = "edited"]
    BY <1>1 DEF Edit, CreateDomain, UpdateDomain, ToggleDomain, DeleteDomain,
                EditsList
  <2>2. \A f \in Editors : ed'[f].pc = "cleared" => ed'[f] = ed[f]
    BY <2>1 DEF TypeInv, TypeOK
  <2> QED BY <1>a, <2>1, <2>2 DEF BusyInv, BusyIn
<1>2. ASSUME NEW e \in Editors, RebuildClears(e) PROVE BusyInv'
  <2>1. \A f \in Editors : ed'[f] = ed[f] \/ ed'[f].prev = rt
    BY <1>2 DEF RebuildClears, TypeInv, TypeOK
  <2>2. \A id \in Ids : rt'[id].status # "updating"
    BY <1>2 DEF RebuildClears, Absent
  <2> QED BY <1>a, <2>1, <2>2 DEF BusyInv, BusyIn
<1>3. ASSUME NEW e \in Editors, RebuildFills(e) PROVE BusyInv'
  <2>1. BusyIn(ed[e].prev) /\ BusyIn(rt)
    BY <1>3 DEF RebuildFills, BusyInv
  <2>2. \A id \in Ids : rt'[id] \in {rt[id], ed[e].prev[id], Pending}
    BY <1>3 DEF RebuildFills, Rebuilt
  <2>3. \A f \in Editors : ed'[f] = ed[f] \/ ed'[f] = IdleEditor
    BY <1>3 DEF RebuildFills, TypeInv, TypeOK
  <2>4. BusyIn(rt)'
    BY <1>a, <2>1, <2>2 DEF BusyIn, Pending
  <2>5. ASSUME NEW f \in Editors, ed'[f].pc = "cleared" PROVE BusyIn(ed[f].prev)'
    BY <1>a, <2>3, <2>5 DEF BusyInv, BusyIn, IdleEditor
  <2> QED BY <2>4, <2>5 DEF BusyInv
<1>4. CASE FlushState \/ LinkReported \/ AddressMoves \/ UNCHANGED vars
  BY <1>a, <1>4 DEF FlushState, LinkReported, AddressMoves, vars, BusyInv, BusyIn
<1> QED BY <1>1, <1>2, <1>3, <1>4 DEF Rebuild

(* In one life of the process, while rebuild is not interleaved with the   *)
(* loop, a domain shown as updating has an update in flight, through       *)
(* overlapping passes, manual syncs, failures, edits and deletions.        *)
THEOREM UpdatingIsInFlight ==
  ASSUME MaxCrashes = 0, ~RebuildPreempted
  PROVE  Spec => []UpdatingHasTask
<1>1. Init => BusyInv
  BY DEF Init, BusyInv, BusyIn, Pending, Absent, IdleEditor
<1>2. TypeInv /\ BusyInv /\ [Next]_vars => BusyInv'
  <2> SUFFICES ASSUME TypeInv, BusyInv, [Next]_vars PROVE BusyInv'
    OBVIOUS
  <2>1. ~Restart
    BY DEF Restart, TypeInv, TypeOK
  <2>2. ASSUME NEW e \in Editors, Edit(e) \/ Rebuild(e) PROVE BusyInv'
    <3>1. proc' = proc
      BY <2>2 DEF Edit, Rebuild, CreateDomain, UpdateDomain, ToggleDomain,
                  DeleteDomain, EditsList, RebuildClears, RebuildFills
    <3> QED BY <2>2, <3>1, OtherBusy
  <2>3. CASE FlushState \/ LinkReported \/ AddressMoves \/ UNCHANGED vars
    <3>1. proc' = proc
      BY <2>3 DEF FlushState, LinkReported, AddressMoves, vars
    <3> QED BY <2>3, <3>1, OtherBusy
  <2> QED BY <2>1, <2>2, <2>3, PassBusy, ManualBusy, AnswerBusy DEF Next
<1>3. BusyInv => UpdatingHasTask
  BY DEF BusyInv, BusyIn, HasTask, Busy, UpdatingHasTask
<1> QED BY <1>1, <1>2, <1>3, TypeInvariant, PTL DEF Spec

=============================================================================
