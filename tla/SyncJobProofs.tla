--------------------------- MODULE SyncJobProofs ---------------------------
(***************************************************************************)
(* Theorems about what SyncService promises of the addresses and events of *)
(* a domain.  The first needs that a domain keeps the record it was made   *)
(* for; the others are about one run of the process with the sync job      *)
(* alone, and say what else they leave out.                                *)
(***************************************************************************)
EXTENDS SyncServiceProofs

-----------------------------------------------------------------------------
(* Which domain a task works for *)

AtProvider(t) == proc[t].pc \in {"update", "acked", "refused"}

(* A task that holds on to a domain: to push its address, or, in a manual  *)
(* sync, to find the address first.                                        *)
Serves(t) ==
  \/ AtProvider(t)
  \/ t \in Manuals /\ proc[t].pc \in {"detect", "detected"}

(* A domain of the list. *)
LEMMA InList ==
  ASSUME TypeInv, NEW d \in Range(cfg)
  PROVE  /\ d \in DomainConfig /\ d.id \in Ids /\ d.target \in Targets
         /\ \E i \in DOMAIN cfg : cfg[i] = d
<1>1. PICK i \in DOMAIN cfg : cfg[i] = d
  BY DEF Range
<1>2. d \in DomainConfig
  BY <1>1, ListedType
<1> QED BY <1>1, <1>2 DEF DomainConfig

(* The domain a pass visits is in the list. *)
LEMMA CurrentInList ==
  ASSUME TypeInv, NEW p \in Passes, proc[p].idx <= Len(cfg)
  PROVE  Current(p) \in Range(cfg)
<1>1. proc[p].idx \in Nat \ {0}
  BY PassIsNoManual DEF TypeInv, TypeOK, TaskState
<1>2. proc[p].idx \in DOMAIN cfg
  BY <1>1 DEF TypeInv, TypeOK
<1> QED BY <1>2 DEF Current, Range

-----------------------------------------------------------------------------
(* The locals of a pass, step by step *)

LEMMA NextDomainLocals ==
  ASSUME TypeInv, NEW p \in Passes, NextDomain(p, proc[p])
  PROVE  /\ proc'[p].pc = "visit" /\ proc'[p].idx = proc[p].idx + 1
         /\ proc'[p].fam = proc[p].fam /\ proc'[p].cur = proc[p].cur
         /\ proc'[p].changed = proc[p].changed
<1>1. proc[p] \in TaskState /\ proc \in [Tasks -> TaskState] /\ p \in Tasks
  BY PassIsNoManual DEF TypeInv, TypeOK
<1> QED BY <1>1 DEF NextDomain, TaskState

LEMMA DispatchLocals ==
  ASSUME TypeInv, NEW p \in Passes, NEW id, NEW event, Dispatch(p, id, event)
  PROVE  /\ proc'[p].pc = "hooks" /\ proc'[p].idx = proc[p].idx
         /\ proc'[p].fam = proc[p].fam /\ proc'[p].cur = proc[p].cur
         /\ proc'[p].changed = proc[p].changed
<1>1. proc[p] \in TaskState /\ proc \in [Tasks -> TaskState] /\ p \in Tasks
  BY PassIsNoManual DEF TypeInv, TypeOK
<1> QED BY <1>1 DEF Dispatch, TaskState

LEMMA NextFamilyLocals ==
  ASSUME TypeInv, NEW p \in Passes, NextFamily(p, proc[p])
  PROVE  /\ proc'[p].pc = IF proc[p].fam = "ipv4" THEN "detect" ELSE "visit"
         /\ proc'[p].idx = proc[p].idx
         /\ proc'[p].fam = "ipv6" /\ proc'[p].cur = proc[p].cur
         /\ proc'[p].changed = proc[p].changed
<1>1. /\ proc[p] \in TaskState /\ proc \in [Tasks -> TaskState] /\ p \in Tasks
      /\ proc[p].fam \in Families
  BY PassIsNoManual DEF TypeInv, TypeOK, TaskState
<1>2. CASE proc[p].fam = "ipv4"
  <2> DEFINE r == [proc[p] EXCEPT !.pc = "detect", !.fam = "ipv6", !.ip = None]
  <2>1. proc'[p] = r
    BY <1>1, <1>2 DEF NextFamily
  <2>2. /\ r.pc = "detect" /\ r.idx = proc[p].idx /\ r.fam = "ipv6"
        /\ r.cur = proc[p].cur /\ r.changed = proc[p].changed
    BY <1>1 DEF TaskState
  <2> QED BY <1>2, <2>1, <2>2
<1>3. CASE proc[p].fam # "ipv4"
  <2> DEFINE r == [proc[p] EXCEPT !.pc = "visit", !.ip = None]
  <2>1. proc'[p] = r
    BY <1>1, <1>3 DEF NextFamily
  <2>2. /\ r.pc = "visit" /\ r.idx = proc[p].idx /\ r.fam = proc[p].fam
        /\ r.cur = proc[p].cur /\ r.changed = proc[p].changed
    BY <1>1 DEF TaskState
  <2>3. proc[p].fam = "ipv6"
    BY <1>1, <1>3 DEF Families
  <2> QED BY <1>3, <2>1, <2>2, <2>3
<1> QED BY <1>2, <1>3

LEMMA AnnounceLocals ==
  ASSUME TypeInv, NEW p \in Passes, AnnounceAddress(p)
  PROVE  /\ proc'[p].pc = "announce" /\ proc'[p].idx = proc[p].idx
         /\ proc'[p].fam = proc[p].fam /\ proc'[p].cur = proc[p].cur
         /\ proc'[p].changed = proc[p].changed \cup {proc[p].fam}
<1>1. proc[p] \in TaskState /\ proc \in [Tasks -> TaskState] /\ p \in Tasks
  BY PassIsNoManual DEF TypeInv, TypeOK
<1>2. proc' = [proc EXCEPT ![p] = [proc[p] EXCEPT
                 !.pc = "announce", !.changed = @ \cup {proc[p].fam}]]
  BY <1>1 DEF AnnounceAddress
<1> QED BY <1>1, <1>2 DEF TaskState

LEMMA StartLocals ==
  ASSUME TypeInv, NEW p \in Passes, StartPass(p)
  PROVE  /\ proc'[p].pc = "detect" /\ proc'[p].idx = 1 /\ proc'[p].fam = "ipv4"
         /\ proc'[p].cur = pub /\ proc'[p].changed = {}
<1>1. proc \in [Tasks -> TaskState] /\ p \in Tasks
  BY PassIsNoManual DEF TypeInv, TypeOK
<1> QED BY <1>1 DEF StartPass, Idle

(* What a pass takes to the provider. *)
LEMMA VisitUpdateLocals ==
  ASSUME TypeInv, NEW p \in Passes, VisitUpdate(p)
  PROVE  /\ Moves(p, {"update"}) /\ proc'[p].dom = Current(p)
         /\ Current(p) \in Range(cfg)
         /\ proc'[p].ip = AddressToPush(p, Current(p))
         /\ proc'[p].before = rt[Current(p).id].status
         /\ proc'[p].idx = proc[p].idx /\ proc'[p].changed = proc[p].changed
<1>1. /\ proc[p] \in TaskState /\ proc \in [Tasks -> TaskState] /\ p \in Tasks
      /\ Current(p) \in DomainConfig
  BY PassIsNoManual, CurrentType DEF VisitUpdate, TypeInv, TypeOK
<1>2. AddressToPush(p, Current(p)) \in Addresses
  BY <1>1, AddressType DEF VisitUpdate, Due, AddressToPush, MaybeAddress
<1>3. Moves(p, {"update"}) /\ proc'[p].dom = Current(p)
  BY <1>1, <1>2, BeginUpdateStep DEF VisitUpdate
<1>4. proc' = [proc EXCEPT ![p] = [proc[p] EXCEPT
                 !.pc = "update", !.dom = Current(p),
                 !.ip = AddressToPush(p, Current(p)),
                 !.before = rt[Current(p).id].status]]
  BY DEF VisitUpdate, BeginUpdate
<1>5. /\ proc'[p].ip = AddressToPush(p, Current(p))
      /\ proc'[p].before = rt[Current(p).id].status
      /\ proc'[p].idx = proc[p].idx /\ proc'[p].changed = proc[p].changed
  BY <1>1, <1>4 DEF TaskState
<1> QED BY <1>3, <1>5, CurrentInList DEF VisitUpdate

(* No other step of a pass ends at the provider. *)
LEMMA PassStaysAway ==
  ASSUME TypeInv, NEW p \in Passes, StartPass(p) \/ PassResumes(p), ~VisitUpdate(p)
  PROVE  /\ \A u \in Tasks \ {p} : proc'[u] = proc[u]
         /\ ~AtProvider(p)'
<1> USE PassIsNoManual
<1>a. proc[p] \in TaskState
  BY DEF TypeInv, TypeOK
<1> DEFINE Elsewhere == {"idle", "detect", "announce", "visit", "hooks"}
<1>0. SUFFICES \E pcs \in SUBSET Elsewhere : Moves(p, pcs)
  BY DEF Moves, AtProvider
<1>1. CASE StartPass(p)
  <2>1. Moves(p, {"detect"})
    BY <1>1 DEF StartPass, Moves, Idle, TypeInv, TypeOK
  <2> QED BY <2>1
<1>2. CASE NothingNew(p) \/ AnnounceReturns(p)
  BY <1>2, NextFamilyStep DEF NothingNew, AnnounceReturns
<1>3. CASE AnnounceAddress(p)
  <2>1. Moves(p, {"announce"})
    BY <1>a, <1>3 DEF AnnounceAddress, Moves, TypeInv, TypeOK, TaskState
  <2> QED BY <2>1
<1>4. CASE EndPass(p) \/ UpdateOfDeletedRaises(p)
  BY <1>4, IdleStep DEF EndPass, UpdateOfDeletedRaises
<1>5. CASE VisitDisabled(p)
  <2>1. Current(p).id \in Ids
    BY <1>5, CurrentType DEF VisitDisabled
  <2> QED BY <1>5, <2>1, DispatchStep, NextDomainStep DEF VisitDisabled
<1>6. CASE VisitNothingToDo(p) \/ UpdateConfirms(p) \/ HooksReturn(p)
  BY <1>6, NextDomainStep DEF VisitNothingToDo, UpdateConfirms, HooksReturn
<1>7. CASE VisitUnknownProvider(p)
  <2>1. Current(p).id \in Ids
    BY <1>7, CurrentType DEF VisitUnknownProvider
  <2> QED BY <1>7, <2>1, DispatchStep, NextDomainStep, IdleStep
          DEF VisitUnknownProvider
<1>8. CASE UpdateChanges(p)
  <2>1. proc[p].dom.id \in Ids
    BY <1>8, FinishedType DEF UpdateChanges, Answered, Ready
  <2> QED BY <1>8, <2>1, DispatchStep DEF UpdateChanges
<1> QED BY <1>1, <1>2, <1>3, <1>4, <1>5, <1>6, <1>7, <1>8 DEF PassResumes

(* A pass goes to the provider with a domain of the list. *)
LEMMA PassServes ==
  ASSUME TypeInv, NEW p \in Passes, StartPass(p) \/ PassResumes(p)
  PROVE  /\ \A u \in Tasks \ {p} : proc'[u] = proc[u]
         /\ Serves(p)' => proc'[p].dom \in Range(cfg)
<1>1. CASE VisitUpdate(p)
  BY <1>1, VisitUpdateLocals DEF Moves
<1>2. CASE ~VisitUpdate(p)
  BY <1>2, PassStaysAway, PassIsNoManual DEF Serves
<1> QED BY <1>1, <1>2

(* A manual sync serves a domain of the list, and that domain to its end.  *)
LEMMA ManualServes ==
  ASSUME TypeInv, NEW m \in Manuals, StartManual(m) \/ ManualResumes(m)
  PROVE  /\ \A u \in Tasks \ {m} : proc'[u] = proc[u]
         /\ Serves(m)' => \/ proc'[m].dom \in Range(cfg)
                          \/ Serves(m) /\ proc'[m].dom = proc[m].dom
<1>a. /\ m \in Tasks /\ proc[m] \in TaskState /\ Idle \in TaskState
      /\ proc \in [Tasks -> TaskState]
  BY IdleType DEF Tasks, TypeInv, TypeOK
<1>1. CASE StartManual(m)
  <2>1. PICK d \in Range(cfg) :
          \/ proc' = [proc EXCEPT ![m] = [Idle EXCEPT
                        !.pc = "detect", !.fam = FamilyOf[d.target], !.dom = d]]
          \/ AddressFor(d) # None /\ BeginUpdate(m, Idle, d, AddressFor(d))
          \/ UNCHANGED proc
    BY <1>1 DEF StartManual
  <2>2. CASE proc' = [proc EXCEPT ![m] = [Idle EXCEPT
                        !.pc = "detect", !.fam = FamilyOf[d.target], !.dom = d]]
    BY <1>a, <2>2 DEF Idle
  <2>3. CASE AddressFor(d) # None /\ BeginUpdate(m, Idle, d, AddressFor(d))
    <3>1. d \in DomainConfig /\ AddressFor(d) \in Addresses
      BY <2>3, InList, AddressType DEF MaybeAddress
    <3> QED BY <1>a, <2>3, <3>1, BeginUpdateStep DEF Moves
  <2>4. CASE UNCHANGED proc
    BY <2>4 DEF Serves, AtProvider
  <2> QED BY <2>1, <2>2, <2>3, <2>4
<1>2. CASE ManualDetected(m)
  <2>1. Serves(m) /\ proc[m].dom \in DomainConfig
    BY <1>2, <1>a DEF ManualDetected, Ready, Serves, TypeInv, Carries
  <2>2. CASE proc' = [proc EXCEPT ![m] = Idle]
    BY <1>a, <2>2 DEF Idle, Serves, AtProvider
  <2>3. CASE proc[m].ip # None /\ BeginUpdate(m, Idle, proc[m].dom, proc[m].ip)
    <3>1. proc[m].ip \in Addresses
      BY <1>a, <2>3 DEF TaskState
    <3> QED BY <1>a, <2>1, <2>3, <3>1, BeginUpdateStep DEF Moves
  <2> QED BY <1>2, <2>2, <2>3 DEF ManualDetected
<1>3. CASE ManualReturns(m)
  BY <1>3, <1>a DEF ManualReturns, Idle, Serves, AtProvider
<1> QED BY <1>1, <1>2, <1>3 DEF ManualResumes

(* What an answer leaves of the locals of a task. *)
LEMMA AnswerLocals ==
  ASSUME TypeInv, NEW t \in Tasks, SourceAnswers(t) \/ ProviderAnswers(t)
  PROVE  /\ \A u \in Tasks \ {t} : proc'[u] = proc[u]
         /\ proc'[t].fam = proc[t].fam /\ proc'[t].cur = proc[t].cur
         /\ proc'[t].changed = proc[t].changed /\ proc'[t].idx = proc[t].idx
         /\ proc'[t].dom = proc[t].dom /\ proc'[t].before = proc[t].before
         /\ \/ proc[t].pc = "detect" /\ proc'[t].pc = "detected"
            \/ /\ proc[t].pc = "update" /\ proc'[t].pc \in {"acked", "refused"}
               /\ proc'[t].ip = proc[t].ip
<1>a. proc[t] \in TaskState /\ proc \in [Tasks -> TaskState]
  BY DEF TypeInv, TypeOK
<1>1. CASE SourceAnswers(t)
  <2>1. PICK ip : proc' = [proc EXCEPT ![t] = [@ EXCEPT !.pc = "detected", !.ip = ip]]
    <3>1. \/ proc' = [proc EXCEPT ![t].pc = "detected", ![t].ip = wan[proc[t].fam]]
          \/ proc' = [proc EXCEPT ![t].pc = "detected", ![t].ip = None]
      BY <1>1 DEF SourceAnswers
    <3> QED BY <1>a, <3>1
  <2> QED BY <1>a, <1>1, <2>1 DEF SourceAnswers, TaskState
<1>2. CASE ProviderAnswers(t)
  <2>1. PICK pc \in {"acked", "refused"} : proc' = [proc EXCEPT ![t] = [@ EXCEPT !.pc = pc]]
    BY <1>2 DEF ProviderAnswers
  <2> QED BY <1>a, <1>2, <2>1 DEF ProviderAnswers, TaskState
<1> QED BY <1>1, <1>2

(* An answer leaves a task with the domain it serves. *)
LEMMA AnswerServes ==
  ASSUME TypeInv, NEW t \in Tasks, SourceAnswers(t) \/ ProviderAnswers(t)
  PROVE  /\ \A u \in Tasks \ {t} : proc'[u] = proc[u]
         /\ Serves(t)' => Serves(t) /\ proc'[t].dom = proc[t].dom
BY AnswerLocals DEF Serves, AtProvider

-----------------------------------------------------------------------------
(* What is synced is the record the domain was made for *)

(* SyncedRecordIsPushed is not inductive: the acknowledgement, the         *)
(* configurations that rebuild remembers, the lists in memory and on disk  *)
(* and the tasks in flight must all mean one record by an id.  Where no    *)
(* domain is re-targeted there is one assignment of records to ids that    *)
(* all of them follow; an id that is not handed out yet has none.          *)
Follow(assigned) ==
  /\ \A i \in DOMAIN cfg : cfg[i].target = assigned[cfg[i].id]
  /\ \A i \in DOMAIN disk.cfg : disk.cfg[i].target = assigned[disk.cfg[i].id]
  /\ \A id \in Ids : known[id] \in {None, assigned[id]}
  /\ \A e \in Editors, id \in Ids : ed[e].prevKnown[id] \in {None, assigned[id]}
  /\ \A t \in Tasks : Serves(t) => proc[t].dom.target = assigned[proc[t].dom.id]
  /\ \A c \in acked : c[2] = assigned[c[1]]
  /\ \A id \in unborn : assigned[id] = None

Assignments == [Ids -> Targets \cup {None}]
AssignedInv == \E assigned \in Assignments : Follow(assigned)

(* An edit of the list touches nothing of a rebuild in progress. *)
LEMMA EditKeepsRebuilds ==
  ASSUME TypeInv, NEW e \in Editors, Edit(e)
  PROVE  /\ UNCHANGED <<rt, known, pub, online, proc, loop, disk, wan, record, acked,
                         told, announced>>
         /\ \A x \in Editors :
              /\ ed'[x].prev = ed[x].prev /\ ed'[x].prevKnown = ed[x].prevKnown
              /\ ed'[x].pc = "cleared" => ed[x].pc = "cleared"
<1>1. PICK kind : EditsList(e, kind)
  BY DEF Edit, CreateDomain, UpdateDomain, ToggleDomain, DeleteDomain
<1>2. ed' = [ed EXCEPT ![e] = [@ EXCEPT !.pc = "edited"]]
  BY <1>1 DEF EditsList
<1>3. ed[e] \in [pc : {"idle", "edited", "cleared"}, prev : [Ids -> DomainRuntime],
                 prevKnown : [Ids -> Targets \cup {None}]]
  BY DEF TypeInv, TypeOK
<1>4. /\ [ed[e] EXCEPT !.pc = "edited"].prev = ed[e].prev
      /\ [ed[e] EXCEPT !.pc = "edited"].prevKnown = ed[e].prevKnown
      /\ [ed[e] EXCEPT !.pc = "edited"].pc = "edited"
  BY <1>3
<1>5. \A x \in Editors : ed'[x] = IF x = e THEN [ed[e] EXCEPT !.pc = "edited"] ELSE ed[x]
  BY <1>2 DEF TypeInv, TypeOK
<1> QED BY <1>1, <1>4, <1>5 DEF EditsList

(* A list without one of its elements has no others. *)
LEMMA WithoutOne ==
  ASSUME NEW S, NEW s \in Seq(S), NEW i \in DOMAIN s
  PROVE  \A j \in DOMAIN RemoveAt(s, i) : \E k \in DOMAIN s : RemoveAt(s, i)[j] = s[k]
<1> DEFINE a == SubSeq(s, 1, i - 1)
           b == SubSeq(s, i + 1, Len(s))
<1>1. a \in Seq(S) /\ \A j \in DOMAIN a : \E k \in DOMAIN s : a[j] = s[k]
  OBVIOUS
<1>2. b \in Seq(S) /\ \A j \in DOMAIN b : \E k \in DOMAIN s : b[j] = s[k]
  OBVIOUS
<1>3. RemoveAt(s, i) = a \o b
  BY DEF RemoveAt
<1> HIDE DEF a, b
<1>4. \A j \in DOMAIN (a \o b) :
        \/ j \in DOMAIN a /\ (a \o b)[j] = a[j]
        \/ j - Len(a) \in DOMAIN b /\ (a \o b)[j] = b[j - Len(a)]
  BY <1>1, <1>2
<1>5. ASSUME NEW j \in DOMAIN (a \o b) PROVE \E k \in DOMAIN s : (a \o b)[j] = s[k]
  <2>1. CASE j \in DOMAIN a /\ (a \o b)[j] = a[j]
    BY <1>1, <2>1
  <2>2. CASE j - Len(a) \in DOMAIN b /\ (a \o b)[j] = b[j - Len(a)]
    BY <1>2, <2>2
  <2> QED BY <1>4, <2>1, <2>2
<1> QED BY <1>3, <1>5

(* What is looked up in a list is one of its domains. *)
LEMMA FoundInList ==
  ASSUME NEW list \in Seq(DomainConfig), NEW id \in IdsIn(list)
  PROVE  \E i \in DOMAIN list : ConfigOf(list, id) = list[i] /\ list[i].id = id
<1>1. PICK i \in DOMAIN list : list[i].id = id
  BY DEF IdsIn
<1>2. list[i] \in Range(list)
  BY <1>1 DEF Range
<1>3. ConfigOf(list, id) \in Range(list) /\ ConfigOf(list, id).id = id
  BY <1>1, <1>2 DEF ConfigOf
<1> QED BY <1>3 DEF Range

(* What a rebuild remembers of a list that follows an assignment does too. *)
LEMMA TargetsFollow ==
  ASSUME NEW assigned, NEW list \in Seq(DomainConfig),
         \A i \in DOMAIN list : list[i].target = assigned[list[i].id],
         NEW id \in IdsIn(list)
  PROVE  ConfigOf(list, id).target = assigned[id]
BY FoundInList

(* A task that serves a domain of the list, or the one it served, follows. *)
LEMMA TaskFollows ==
  ASSUME NEW assigned, TypeInv, Follow(assigned), NEW t \in Tasks,
         UNCHANGED <<cfg, disk, known, ed, unborn>>,
         \A u \in Tasks \ {t} : proc'[u] = proc[u],
         Serves(t)' => \/ proc'[t].dom \in Range(cfg)
                       \/ Serves(t) /\ proc'[t].dom = proc[t].dom,
         \A c \in acked' : c[2] = assigned[c[1]]
  PROVE  Follow(assigned)'
<1>1. ASSUME NEW u \in Tasks, Serves(u)' PROVE proc'[u].dom.target = assigned[proc'[u].dom.id]
  <2>1. CASE u # t
    BY <1>1, <2>1 DEF Follow, Serves, AtProvider
  <2>2. CASE u = t /\ proc'[t].dom \in Range(cfg)
    BY <2>2, InList DEF Follow
  <2>3. CASE u = t /\ Serves(t) /\ proc'[t].dom = proc[t].dom
    BY <2>3 DEF Follow
  <2> QED BY <1>1, <2>1, <2>2, <2>3
<1> QED BY <1>1 DEF Follow

(* The steps of the tasks follow the assignment. *)
LEMMA TasksFollow ==
  ASSUME NEW assigned, TypeInv, Follow(assigned), NEW t \in Tasks,
         \/ t \in Passes /\ (StartPass(t) \/ PassResumes(t))
         \/ t \in Manuals /\ (StartManual(t) \/ ManualResumes(t))
         \/ SourceAnswers(t) \/ ProviderAnswers(t)
  PROVE  Follow(assigned)'
<1>1. CASE t \in Passes /\ (StartPass(t) \/ PassResumes(t))
  <2>1. UNCHANGED <<cfg, disk, known, ed, unborn, acked>>
    BY <1>1
       DEF StartPass, PassResumes, NothingNew, AnnounceAddress, AnnounceReturns,
           EndPass, VisitDisabled, VisitNothingToDo, VisitUnknownProvider,
           VisitUpdate, UpdateConfirms, UpdateChanges, UpdateOfDeletedRaises,
           HooksReturn
  <2> QED BY <1>1, <2>1, PassServes, TaskFollows DEF Follow
<1>2. CASE t \in Manuals /\ (StartManual(t) \/ ManualResumes(t))
  <2>1. UNCHANGED <<cfg, disk, known, ed, unborn, acked>>
    BY <1>2 DEF StartManual, ManualResumes, ManualDetected, ManualReturns
  <2> QED BY <1>2, <2>1, ManualServes, TaskFollows DEF Follow
<1>3. CASE SourceAnswers(t)
  <2>1. UNCHANGED <<cfg, disk, known, ed, unborn, acked>>
    BY <1>3 DEF SourceAnswers
  <2> QED BY <1>3, <2>1, AnswerServes, TaskFollows DEF Follow
<1>4. CASE ProviderAnswers(t)
  <2>1. /\ UNCHANGED <<cfg, disk, known, ed, unborn>>
        /\ acked' \subseteq acked \cup {<<proc[t].dom.id, proc[t].dom.target, proc[t].ip>>}
        /\ Serves(t)
    BY <1>4 DEF ProviderAnswers, Serves, AtProvider
  <2>2. \A c \in acked' : c[2] = assigned[c[1]]
    BY <2>1 DEF Follow
  <2> QED BY <1>4, <2>1, <2>2, AnswerServes, TaskFollows
<1> QED BY <1>1, <1>2, <1>3, <1>4

(* A new domain is assigned its record; nothing meant its id before.       *)
LEMMA CreateFollows ==
  ASSUME NEW assigned \in Assignments, TypeInv, Follow(assigned),
         NEW e \in Editors, CreateDomain(e)
  PROVE  AssignedInv'
<1>1. PICK id \in unborn, target \in Targets \ TargetsInUse :
        /\ cfg' = Append(cfg, [id |-> id, target |-> target, enabled |-> TRUE])
        /\ unborn' = unborn \ {id}
  BY DEF CreateDomain
<1> DEFINE next == [assigned EXCEPT ![id] = target]
           new == [id |-> id, target |-> target, enabled |-> TRUE]
<1>2. id \in Ids /\ assigned[id] = None /\ None \notin Targets
  BY SyncAssumption DEF TypeInv, TypeOK, Follow
<1>3. /\ next \in Assignments /\ next[id] = target
      /\ \A i \in Ids : i # id => next[i] = assigned[i]
      /\ \A i \in Ids : assigned[i] # None => next[i] = assigned[i]
  BY <1>2 DEF Assignments
<1>4. UNCHANGED <<disk, known, proc, acked>>
  BY DEF CreateDomain, EditsList
<1>5. \A x \in Editors : ed'[x].prevKnown = ed[x].prevKnown
  BY EditKeepsRebuilds DEF Edit
<1> HIDE DEF next
<1>6. ASSUME NEW list \in Seq(DomainConfig),
             \A i \in DOMAIN list : list[i].target = assigned[list[i].id]
      PROVE  \A i \in DOMAIN list : list[i].target = next[list[i].id]
  <2> SUFFICES ASSUME NEW i \in DOMAIN list PROVE list[i].target = next[list[i].id]
    OBVIOUS
  <2>1. list[i] \in DomainConfig
    OBVIOUS
  <2>2. list[i].id \in Ids /\ list[i].target \in Targets
    BY <2>1 DEF DomainConfig
  <2> QED BY <1>2, <1>3, <1>6, <2>2
<1>7. \A i \in DOMAIN cfg' : cfg'[i].target = next[cfg'[i].id]
  <2>1. cfg \in Seq(DomainConfig)
    BY DEF TypeInv, TypeOK
  <2>2. \A i \in DOMAIN cfg : cfg[i].target = next[cfg[i].id]
    BY <1>6, <2>1 DEF Follow
  <2>3. \A i \in DOMAIN cfg' : cfg'[i] = new \/ (i \in DOMAIN cfg /\ cfg'[i] = cfg[i])
    BY <1>1, <2>1
  <2> QED BY <1>3, <2>2, <2>3
<1>8. \A i \in DOMAIN disk.cfg : disk.cfg[i].target = next[disk.cfg[i].id]
  BY <1>6 DEF Follow, TypeInv, TypeOK
<1>9. \A i \in Ids : known[i] \in {None, next[i]}
  BY <1>2, <1>3 DEF Follow
<1>10. \A x \in Editors, i \in Ids : ed[x].prevKnown[i] \in {None, next[i]}
  BY <1>2, <1>3 DEF Follow
<1>11. ASSUME NEW t \in Tasks, Serves(t) PROVE proc[t].dom.target = next[proc[t].dom.id]
  <2>1. proc[t].dom \in DomainConfig
    BY <1>11 DEF TypeInv, Carries, Serves, AtProvider
  <2>2. proc[t].dom.id \in Ids /\ proc[t].dom.target \in Targets
    BY <2>1 DEF DomainConfig
  <2> QED BY <1>2, <1>3, <1>11, <2>2 DEF Follow
<1>12. ASSUME NEW c \in acked PROVE c[2] = next[c[1]]
  <2>1. c[1] \in Ids /\ c[2] \in Targets
    BY DEF TypeInv, TypeOK
  <2> QED BY <1>2, <1>3, <2>1 DEF Follow
<1>13. \A i \in unborn' : next[i] = None
  BY <1>1, <1>3 DEF Follow, TypeInv, TypeOK
<1>14. Follow(next)'
  BY <1>4, <1>5, <1>7, <1>8, <1>9, <1>10, <1>11, <1>12, <1>13
     DEF Follow, Serves, AtProvider
<1> QED BY <1>3, <1>14 DEF AssignedInv

(* Switching a domain or deleting one leaves the others with their records.*)
LEMMA EditsFollow ==
  ASSUME NEW assigned, TypeInv, Follow(assigned), NEW e \in Editors,
         ToggleDomain(e) \/ DeleteDomain(e)
  PROVE  Follow(assigned)'
<1>1. UNCHANGED <<disk, known, proc, acked, unborn>>
  BY DEF ToggleDomain, DeleteDomain, EditsList
<1>2. \A x \in Editors : ed'[x].prevKnown = ed[x].prevKnown
  BY EditKeepsRebuilds DEF Edit
<1>3. \A i \in DOMAIN cfg' : \E j \in DOMAIN cfg :
        cfg'[i].id = cfg[j].id /\ cfg'[i].target = cfg[j].target
  <2>1. cfg \in Seq(DomainConfig)
    BY DEF TypeInv, TypeOK
  <2>2. CASE ToggleDomain(e)
    <3>1. PICK i \in DOMAIN cfg : cfg' = [cfg EXCEPT ![i].enabled = ~@]
      BY <2>2 DEF ToggleDomain
    <3>2. cfg[i] \in DomainConfig
      BY ListedType
    <3>3. /\ [cfg[i] EXCEPT !.enabled = ~@].id = cfg[i].id
          /\ [cfg[i] EXCEPT !.enabled = ~@].target = cfg[i].target
      BY <3>2 DEF DomainConfig
    <3> QED BY <2>1, <3>1, <3>3
  <2>3. CASE DeleteDomain(e)
    <3>1. PICK i \in DOMAIN cfg : cfg' = RemoveAt(cfg, i)
      BY <2>3 DEF DeleteDomain
    <3>2. \A j \in DOMAIN cfg' : \E k \in DOMAIN cfg : cfg'[j] = cfg[k]
      BY <2>1, <3>1, WithoutOne
    <3> QED BY <3>2
  <2> QED BY <2>2, <2>3
<1> QED BY <1>1, <1>2, <1>3 DEF Follow, Serves, AtProvider

(* A rebuild, a restart and the rest only carry what follows.              *)
LEMMA OutsideFollows ==
  ASSUME NEW assigned, TypeInv, Follow(assigned),
         \/ \E e \in Editors : Rebuild(e)
         \/ FlushState \/ Restart \/ LinkReported \/ AddressMoves \/ UNCHANGED vars
  PROVE  Follow(assigned)'
<1>a. /\ cfg \in Seq(DomainConfig) /\ disk.cfg \in Seq(DomainConfig)
      /\ disk \in [cfg : Seq(DomainConfig), rt : [Ids -> DomainRuntime],
                   pub : [Families -> Addresses \cup {None}], online : BOOLEAN]
      /\ ed \in [Editors -> [pc : {"idle", "edited", "cleared"},
                             prev : [Ids -> DomainRuntime],
                             prevKnown : [Ids -> Targets \cup {None}]]]
  BY DEF TypeInv, TypeOK
<1>1. ASSUME NEW e \in Editors, RebuildClears(e) PROVE Follow(assigned)'
  <2>1. disk'.cfg = cfg
    BY <1>a, <1>1 DEF RebuildClears
  <2>2. \A x \in Editors : ed'[x].prevKnown = IF x = e THEN known ELSE ed[x].prevKnown
    BY <1>a, <1>1 DEF RebuildClears
  <2>3. UNCHANGED <<cfg, proc, acked, unborn>> /\ known' = [id \in Ids |-> None]
    BY <1>1 DEF RebuildClears
  <2> QED BY <2>1, <2>2, <2>3 DEF Follow, Serves, AtProvider
<1>2. ASSUME NEW e \in Editors, RebuildFills(e) PROVE Follow(assigned)'
  <2>1. \A x \in Editors, id \in Ids :
          ed'[x].prevKnown[id] = IF x = e THEN None ELSE ed[x].prevKnown[id]
    BY <1>a, <1>2 DEF RebuildFills, IdleEditor
  <2>2. UNCHANGED <<cfg, disk, proc, acked, unborn>>
    BY <1>2 DEF RebuildFills
  <2>3. ASSUME NEW id \in Ids PROVE known'[id] \in {None, assigned[id]}
    <3>1. known'[id] = IF id \in IdsIn(cfg) THEN ConfigOf(cfg, id).target ELSE known[id]
      BY <1>2 DEF RebuildFills
    <3>2. id \in IdsIn(cfg) => ConfigOf(cfg, id).target = assigned[id]
      BY <1>a, TargetsFollow DEF Follow
    <3> QED BY <3>1, <3>2 DEF Follow
  <2> QED BY <2>1, <2>2, <2>3 DEF Follow, Serves, AtProvider
<1>3. CASE Restart
  <2>1. ASSUME NEW id \in Ids PROVE known'[id] \in {None, assigned[id]}
    <3>1. known'[id] = IF id \in IdsIn(disk.cfg) THEN ConfigOf(disk.cfg, id).target ELSE None
      BY <1>3 DEF Restart, TargetsOf
    <3>2. id \in IdsIn(disk.cfg) => ConfigOf(disk.cfg, id).target = assigned[id]
      BY <1>a, TargetsFollow DEF Follow
    <3> QED BY <3>1, <3>2
  <2>2. \A e \in Editors, id \in Ids : ed'[e].prevKnown[id] = None
    BY <1>3 DEF Restart, IdleEditor
  <2>3. \A t \in Tasks : ~Serves(t)'
    BY <1>3 DEF Restart, Idle, Serves, AtProvider
  <2> QED BY <1>3, <2>1, <2>2, <2>3 DEF Restart, Follow
<1>4. CASE FlushState
  <2>1. disk'.cfg = disk.cfg
    BY <1>a, <1>4 DEF FlushState
  <2> QED BY <1>4, <2>1 DEF FlushState, Follow, Serves, AtProvider
<1>5. CASE LinkReported \/ AddressMoves \/ UNCHANGED vars
  BY <1>5 DEF LinkReported, AddressMoves, vars, Follow, Serves, AtProvider
<1> QED BY <1>1, <1>2, <1>3, <1>4, <1>5 DEF Rebuild

(* Where domains are not re-targeted, what the user sees as synced is the  *)
(* record he configured: through any number of overlapping passes, manual  *)
(* syncs, editing threads, preempted rebuilds, crashes and restarts.       *)
THEOREM SyncedIsTheRecordConfigured ==
  ASSUME "update" \notin EditKinds
  PROVE  Spec => []SyncedRecordIsPushed
<1>1. Init => AssignedInv
  <2> SUFFICES ASSUME Init PROVE AssignedInv
    OBVIOUS
  <2> DEFINE first == TargetsOf(InitialConfig)
  <2>1. first \in Assignments
    BY SyncAssumption, TargetsOfType DEF Assignments
  <2>2. ASSUME NEW i \in DOMAIN InitialConfig
        PROVE  InitialConfig[i].target = first[InitialConfig[i].id]
    <3>1. InitialConfig[i] \in DomainConfig /\ InitialConfig[i].id \in Ids
      <4>1. InitialConfig[i] \in DomainConfig
        BY SyncAssumption
      <4> QED BY <4>1 DEF DomainConfig
    <3>2. InitialConfig[i].id \in IdsIn(InitialConfig)
      BY DEF IdsIn
    <3>3. ConfigOf(InitialConfig, InitialConfig[i].id) = InitialConfig[i]
      BY <3>2, SyncAssumption, IdsAssumption, FoundInList
    <3> QED BY <3>1, <3>2, <3>3 DEF TargetsOf
  <2>3. /\ \A id \in Ids : known[id] = first[id]
        /\ \A e \in Editors, id \in Ids : ed[e].prevKnown[id] = None
        /\ \A t \in Tasks : ~Serves(t)
        /\ acked = {} /\ cfg = InitialConfig /\ disk.cfg = InitialConfig
    BY DEF Init, IdleEditor, Idle, Serves, AtProvider
  <2>4. \A id \in unborn : first[id] = None
    BY DEF Init, TargetsOf
  <2> QED BY <2>1, <2>2, <2>3, <2>4 DEF AssignedInv, Follow
<1>2. TypeInv /\ AssignedInv /\ [Next]_vars => AssignedInv'
  <2> SUFFICES ASSUME TypeInv, AssignedInv, [Next]_vars PROVE AssignedInv'
    OBVIOUS
  <2>1. PICK assigned \in Assignments : Follow(assigned)
    BY DEF AssignedInv
  <2>2. ASSUME NEW t \in Tasks,
               \/ t \in Passes /\ (StartPass(t) \/ PassResumes(t))
               \/ t \in Manuals /\ (StartManual(t) \/ ManualResumes(t))
               \/ SourceAnswers(t) \/ ProviderAnswers(t)
        PROVE  AssignedInv'
    BY <2>1, <2>2, TasksFollow DEF AssignedInv
  <2>3. ASSUME NEW e \in Editors, Edit(e) PROVE AssignedInv'
    <3>1. ~UpdateDomain(e)
      BY DEF UpdateDomain, EditsList
    <3>2. CASE CreateDomain(e)
      BY <2>1, <3>2, CreateFollows
    <3>3. CASE ToggleDomain(e) \/ DeleteDomain(e)
      BY <2>1, <3>3, EditsFollow DEF AssignedInv
    <3> QED BY <2>3, <3>1, <3>2, <3>3 DEF Edit
  <2>4. CASE \/ \E e \in Editors : Rebuild(e)
             \/ FlushState \/ Restart \/ LinkReported \/ AddressMoves \/ UNCHANGED vars
    BY <2>1, <2>4, OutsideFollows DEF AssignedInv
  <2>5. Passes \subseteq Tasks /\ Manuals \subseteq Tasks
    BY DEF Tasks
  <2> QED BY <2>2, <2>3, <2>4, <2>5 DEF Next
<1>3. AckInv /\ AssignedInv => SyncedRecordIsPushed
  <2> SUFFICES ASSUME AckInv, AssignedInv, NEW id \in Ids, rt[id].status = "synced",
                      known[id] # None
               PROVE  <<id, known[id], rt[id].ip>> \in acked
    BY DEF SyncedRecordIsPushed
  <2>1. PICK assigned \in Assignments : Follow(assigned)
    BY DEF AssignedInv
  <2>2. PICK target \in Targets : <<id, target, rt[id].ip>> \in acked
    BY DEF AckInv, AckedIn
  <2>3. target = assigned[id] /\ known[id] = assigned[id]
    BY <2>1, <2>2 DEF Follow
  <2> QED BY <2>2, <2>3
<1>4. Spec => []AssignedInv
  BY <1>1, <1>2, TypeInvariant, PTL DEF Spec
<1> QED BY <1>3, <1>4, AcknowledgedInvariant, PTL

-----------------------------------------------------------------------------
(* The sync job alone: what it pushes, and the addresses it announces *)

(* One run of sync_ips at a time and no manual sync: the state between its *)
(* awaits is the job's own.                                                *)
OneJob == Manuals = {} /\ \A p, q \in Passes : p = q

LEMMA Alone ==
  ASSUME OneJob, NEW p \in Passes
  PROVE  Tasks = {p} /\ \A t \in Tasks : t = p
BY DEF OneJob, Tasks

(* What goes on outside the tasks leaves them alone, or ends them all.     *)
LEMMA OthersLeaveJob ==
  ASSUME TypeInv,
         \/ \E e \in Editors : Edit(e) \/ Rebuild(e)
         \/ FlushState \/ Restart \/ LinkReported \/ AddressMoves \/ UNCHANGED vars
  PROVE  \/ UNCHANGED <<pub, proc, told, announced>>
         \/ /\ \A t \in Tasks : proc'[t] = Idle
            /\ Restart
<1>1. ASSUME NEW e \in Editors, Edit(e) PROVE UNCHANGED <<pub, proc, told, announced>>
  BY <1>1, EditKeepsRebuilds
<1>2. ASSUME NEW e \in Editors, Rebuild(e) PROVE UNCHANGED <<pub, proc, told, announced>>
  BY <1>2 DEF Rebuild, RebuildClears, RebuildFills
<1>3. CASE FlushState \/ LinkReported \/ AddressMoves \/ UNCHANGED vars
  BY <1>3 DEF FlushState, LinkReported, AddressMoves, vars
<1>4. CASE Restart
  BY <1>4 DEF Restart
<1> QED BY <1>1, <1>2, <1>3, <1>4

(* A step is the job's, an answer it gets, or neither's. *)
LEMMA StepsOfJob ==
  ASSUME TypeInv, OneJob, [Next]_vars
  PROVE  \/ \E p \in Passes : \/ StartPass(p) \/ PassResumes(p)
                              \/ SourceAnswers(p) \/ ProviderAnswers(p)
         \/ \E e \in Editors : Edit(e) \/ Rebuild(e)
         \/ FlushState \/ Restart \/ LinkReported \/ AddressMoves \/ UNCHANGED vars
BY DEF Next, OneJob, Tasks

(* While it is with the provider the address it pushes stays the public    *)
(* one: nobody else writes that.                                           *)
PushInv == \A p \in Passes : AtProvider(p) => proc[p].ip = AddressFor(proc[p].dom)

LEMMA JobPushes ==
  ASSUME TypeInv, PushInv, OneJob, NEW p \in Passes,
         \/ StartPass(p) \/ PassResumes(p) \/ SourceAnswers(p) \/ ProviderAnswers(p)
  PROVE  PushInv'
<1>0. p \in Tasks /\ \A q \in Passes : q = p
  BY Alone, PassIsNoManual
<1>1. CASE VisitUpdate(p)
  <2>1. pub' = pub
    BY <1>1 DEF VisitUpdate
  <2>2. proc'[p].ip = AddressFor(Current(p)) /\ proc'[p].dom = Current(p)
    BY <1>1, VisitUpdateLocals DEF AddressToPush
  <2> QED BY <1>0, <2>1, <2>2 DEF PushInv, AddressFor
<1>2. CASE (StartPass(p) \/ PassResumes(p)) /\ ~VisitUpdate(p)
  BY <1>0, <1>2, PassStaysAway DEF PushInv
<1>3. CASE SourceAnswers(p) \/ ProviderAnswers(p)
  <2>1. pub' = pub
    BY <1>3 DEF SourceAnswers, ProviderAnswers
  <2>2. AtProvider(p)' => /\ AtProvider(p) /\ proc'[p].ip = proc[p].ip
                          /\ proc'[p].dom = proc[p].dom
    BY <1>0, <1>3, AnswerLocals DEF AtProvider
  <2> QED BY <1>0, <2>1, <2>2 DEF PushInv, AddressFor
<1> QED BY <1>1, <1>2, <1>3

(* With the sync job alone, through crashes, restarts and any edits, an    *)
(* update that is reported as a success left the address in the record     *)
(* that is public when the event fires.                                    *)
THEOREM PushedAddressInvariant == ASSUME OneJob PROVE Spec => []PushInv
<1>1. Init => PushInv
  BY PassIsNoManual DEF Init, PushInv, AtProvider, Idle
<1>2. TypeInv /\ PushInv /\ [Next]_vars => PushInv'
  <2> SUFFICES ASSUME TypeInv, PushInv, [Next]_vars PROVE PushInv'
    OBVIOUS
  <2>1. CASE UNCHANGED <<pub, proc>>
    BY <2>1 DEF PushInv, AtProvider, AddressFor
  <2>2. CASE \A t \in Tasks : proc'[t] = Idle
    BY <2>2, PassIsNoManual DEF PushInv, AtProvider, Idle
  <2> QED BY <2>1, <2>2, StepsOfJob, JobPushes, OthersLeaveJob
<1> QED BY <1>1, <1>2, TypeInvariant, PTL DEF Spec

THEOREM SuccessNamesCurrentAddress == ASSUME OneJob PROVE Spec => SuccessIsCurrent
<1>1. PushInv => [\A p \in Passes : UpdateChanges(p) /\ proc[p].pc = "acked"
                    => proc[p].ip = AddressFor(proc[p].dom)]_vars
  BY DEF PushInv, AtProvider
<1> QED BY <1>1, PushedAddressInvariant, PTL DEF Spec, SuccessIsCurrent

(* The address a pass compares with is the one announced last: the job     *)
(* reads both before its first await, and only it changes them.            *)
ChainInv ==
  /\ \A f \in Families : announced[f].new = pub[f]
  /\ \A p \in Passes :
       /\ proc[p].pc \in {"detect", "detected"}
            => proc[p].cur[proc[p].fam] = pub[proc[p].fam]
       /\ proc[p].pc \in {"detect", "detected", "announce"} /\ proc[p].fam = "ipv4"
            => proc[p].cur["ipv6"] = pub["ipv6"]

LEMMA JobChains ==
  ASSUME TypeInv, ChainInv, OneJob, NEW p \in Passes,
         \/ StartPass(p) \/ PassResumes(p) \/ SourceAnswers(p) \/ ProviderAnswers(p)
  PROVE  ChainInv'
<1>0. p \in Tasks /\ (\A q \in Passes : q = p) /\ proc[p].fam \in Families
  BY Alone, PassIsNoManual DEF TypeInv, TypeOK, TaskState
<1>1. CASE StartPass(p)
  <2>1. UNCHANGED <<pub, announced>>
    BY <1>1 DEF StartPass
  <2> QED BY <1>0, <1>1, <2>1, StartLocals DEF ChainInv
<1>2. CASE NothingNew(p) \/ AnnounceReturns(p)
  <2>1. /\ UNCHANGED <<pub, announced>> /\ NextFamily(p, proc[p])
        /\ proc[p].pc \in {"detected", "announce"}
    BY <1>2 DEF NothingNew, AnnounceReturns, Ready
  <2> QED BY <1>0, <2>1, NextFamilyLocals DEF ChainInv
<1>3. CASE AnnounceAddress(p)
  <2> DEFINE f == proc[p].fam
  <2>1. /\ pub' = [pub EXCEPT ![f] = proc[p].ip]
        /\ announced' = [announced EXCEPT ![f] = [old |-> proc[p].cur[f], new |-> proc[p].ip]]
        /\ proc[p].pc = "detected"
    BY <1>3 DEF AnnounceAddress, Ready
  <2>2. \A g \in Families : announced'[g].new = pub'[g]
    BY <2>1 DEF ChainInv, TypeInv, TypeOK
  <2>3. f = "ipv4" => pub'["ipv6"] = pub["ipv6"]
    BY <2>1 DEF TypeInv, TypeOK, Families
  <2> QED BY <1>0, <1>3, <2>1, <2>2, <2>3, AnnounceLocals DEF ChainInv
<1>4. CASE PassResumes(p) /\ ~NothingNew(p) /\ ~AnnounceAddress(p) /\ ~AnnounceReturns(p)
  <2>1. UNCHANGED <<pub, announced>>
    BY <1>4
       DEF PassResumes, EndPass, VisitDisabled, VisitNothingToDo, VisitUnknownProvider,
           VisitUpdate, UpdateConfirms, UpdateChanges, UpdateOfDeletedRaises, HooksReturn
  <2>2. proc'[p].pc \in {"idle", "visit", "hooks", "update"}
    <3>1. CASE EndPass(p) \/ UpdateOfDeletedRaises(p)
      BY <3>1, <1>0, IdleStep DEF EndPass, UpdateOfDeletedRaises, Moves
    <3>2. CASE VisitDisabled(p)
      BY <3>2, DispatchLocals, NextDomainLocals DEF VisitDisabled
    <3>3. CASE VisitNothingToDo(p) \/ UpdateConfirms(p) \/ HooksReturn(p)
      BY <3>3, NextDomainLocals DEF VisitNothingToDo, UpdateConfirms, HooksReturn
    <3>4. CASE VisitUnknownProvider(p)
      BY <3>4, <1>0, DispatchLocals, NextDomainLocals, IdleStep
         DEF VisitUnknownProvider, Moves
    <3>5. CASE VisitUpdate(p)
      BY <3>5, VisitUpdateLocals DEF Moves
    <3>6. CASE UpdateChanges(p)
      BY <3>6, DispatchLocals DEF UpdateChanges
    <3> QED BY <1>4, <3>1, <3>2, <3>3, <3>4, <3>5, <3>6 DEF PassResumes
  <2> QED BY <1>0, <2>1, <2>2 DEF ChainInv
<1>5. CASE SourceAnswers(p) \/ ProviderAnswers(p)
  <2>1. UNCHANGED <<pub, announced>>
    BY <1>5 DEF SourceAnswers, ProviderAnswers
  <2> QED BY <1>0, <1>5, <2>1, AnswerLocals DEF ChainInv
<1> QED BY <1>1, <1>2, <1>3, <1>4, <1>5

(* In one run of the process with the sync job alone, each ip_changed      *)
(* event starts from the address the one before it announced, and really   *)
(* changes it.                                                             *)
THEOREM IpEventsFormAChain ==
  ASSUME OneJob, MaxCrashes = 0
  PROVE  Spec => IpEventsChain
<1>1. Init => ChainInv
  BY PassIsNoManual DEF Init, ChainInv, Idle
<1>2. TypeInv /\ ChainInv /\ [Next]_vars => ChainInv'
  <2> SUFFICES ASSUME TypeInv, ChainInv, [Next]_vars PROVE ChainInv'
    OBVIOUS
  <2>1. ~Restart
    BY DEF Restart, TypeInv, TypeOK
  <2>2. CASE UNCHANGED <<pub, proc, announced>>
    BY <2>2 DEF ChainInv
  <2> QED BY <2>1, <2>2, StepsOfJob, JobChains, OthersLeaveJob
<1>3. TypeInv /\ ChainInv =>
        [\A p \in Passes : AnnounceAddress(p) =>
           LET f == proc[p].fam IN
           /\ announced'[f].old = announced[f].new
           /\ announced'[f].new # announced'[f].old]_vars
  <2> SUFFICES ASSUME TypeInv, ChainInv, NEW p \in Passes, AnnounceAddress(p)
               PROVE  LET f == proc[p].fam IN
                      /\ announced'[f].old = announced[f].new
                      /\ announced'[f].new # announced'[f].old
    OBVIOUS
  <2> DEFINE f == proc[p].fam
  <2>1. f \in Families
    BY PassIsNoManual DEF TypeInv, TypeOK, TaskState
  <2>2. /\ announced'[f] = [old |-> proc[p].cur[f], new |-> proc[p].ip]
        /\ proc[p].pc = "detected" /\ proc[p].ip # proc[p].cur[f]
    BY <2>1 DEF AnnounceAddress, Ready, IsNews, TypeInv, TypeOK
  <2>3. proc[p].cur[f] = pub[f] /\ announced[f].new = pub[f]
    BY <2>1, <2>2 DEF ChainInv
  <2> QED BY <2>2, <2>3
<1>4. Spec => [](TypeInv /\ ChainInv)
  BY <1>1, <1>2, TypeInvariant, PTL DEF Spec
<1> QED BY <1>3, <1>4, PTL DEF Spec, IpEventsChain

-----------------------------------------------------------------------------
(* The sync job alone: what the hooks were told *)

(* The events of the domains agree with their statuses.  EventsTellTruth   *)
(* is not inductive: set_freshness brings a pending domain that has an     *)
(* address back to synced without an event, and sync_ips compares the      *)
(* outcome of an update with the status that was there before it.          *)
Reported(events, domains) ==
  \A id \in Ids :
    /\ domains[id].status = "error" => events[id] = "error"
    /\ domains[id].status = "synced" => events[id] # "error"
    /\ domains[id].status = "pending" /\ domains[id].ip # None => events[id] # "error"

EventInv ==
  /\ Reported(told, rt)
  /\ \A e \in Editors : ed[e].pc = "cleared" => Reported(told, ed[e].prev)
  /\ \A p \in Passes : AtProvider(p) =>
       /\ proc[p].before = "error" => told[proc[p].dom.id] = "error"
       /\ proc[p].before = "synced" => told[proc[p].dom.id] # "error"

(* What set_status and set_freshness make of one domain, and leave of the  *)
(* others.                                                                 *)
LEMMA StatusSet ==
  ASSUME NEW domains \in Runtimes, NEW id \in Ids, NEW status, NEW ip
  PROVE  LET new == SetStatus(domains, id, status, ip) IN
         /\ \A i \in Ids : i # id => new[i] = domains[i]
         /\ domains[id].status = "absent" => new[id] = domains[id]
         /\ domains[id].status # "absent" =>
              /\ new[id].status = status
              /\ new[id].ip = IF ip = None THEN domains[id].ip ELSE ip
<1>1. CASE domains[id].status = "absent"
  BY <1>1 DEF SetStatus
<1>2. CASE domains[id].status # "absent"
  <2>1. SetStatus(domains, id, status, ip) =
          [domains EXCEPT ![id] = [status |-> status,
                                   ip |-> IF ip = None THEN @.ip ELSE ip]]
    BY <1>2 DEF SetStatus
  <2> QED BY <1>2, <2>1 DEF Runtimes
<1> QED BY <1>1, <1>2

LEMMA FreshnessSet ==
  ASSUME NEW domains \in Runtimes, NEW id \in Ids, NEW current
  PROVE  LET new == SetFreshness(domains, id, current) IN
         /\ \A i \in Ids : i # id => new[i] = domains[i]
         /\ domains[id].status \in {"absent", "error", "updating"}
              => new[id] = domains[id]
         /\ domains[id].status \notin {"absent", "error", "updating"} =>
              /\ new[id].ip = domains[id].ip
              /\ new[id].status = Freshness(domains[id].ip, current)
<1>1. CASE domains[id].status \in {"absent", "error", "updating"}
  BY <1>1 DEF SetFreshness
<1>2. CASE domains[id].status \notin {"absent", "error", "updating"}
  <2>1. SetFreshness(domains, id, current) =
          [domains EXCEPT ![id] = [domains[id] EXCEPT
             !.status = Freshness(domains[id].ip, current)]]
    BY <1>2 DEF SetFreshness
  <2>2. domains[id] \in DomainRuntime
    BY DEF Runtimes
  <2> QED BY <1>2, <2>1, <2>2 DEF Runtimes, DomainRuntime
<1> QED BY <1>1, <1>2

(* While rebuild is not preempted, a task that runs finds no rebuild open. *)
LEMMA NoRebuildOpen ==
  ASSUME LoopRuns, ~RebuildPreempted
  PROVE  \A e \in Editors : ed[e].pc # "cleared"
BY DEF LoopRuns

(* A step of the job that neither reports nor touches a status. *)
LEMMA JobKeepsEvents ==
  ASSUME TypeInv, EventInv, OneJob, NEW p \in Passes,
         \/ StartPass(p) \/ NothingNew(p) \/ AnnounceAddress(p) \/ AnnounceReturns(p)
         \/ EndPass(p) \/ VisitNothingToDo(p) \/ UpdateOfDeletedRaises(p)
         \/ HooksReturn(p) \/ SourceAnswers(p) \/ ProviderAnswers(p)
  PROVE  EventInv'
<1>0. p \in Tasks /\ \A q \in Passes : q = p
  BY Alone, PassIsNoManual
<1>1. UNCHANGED <<rt, told, ed>>
  BY DEF StartPass, NothingNew, AnnounceAddress, AnnounceReturns, EndPass,
         VisitNothingToDo, UpdateOfDeletedRaises, HooksReturn, SourceAnswers,
         ProviderAnswers
<1>2. CASE SourceAnswers(p) \/ ProviderAnswers(p)
  <2>1. AtProvider(p)' => /\ AtProvider(p) /\ proc'[p].before = proc[p].before
                          /\ proc'[p].dom = proc[p].dom
    BY <1>0, <1>2, AnswerLocals DEF AtProvider
  <2> QED BY <1>0, <1>1, <2>1 DEF EventInv
<1>3. CASE ~SourceAnswers(p) /\ ~ProviderAnswers(p)
  <2>1. ~VisitUpdate(p)
    <3>1. CASE VisitUpdate(p)
      <4>1. proc'[p].pc = "update" /\ proc[p].pc = "visit" /\ proc[p].idx <= Len(cfg)
            /\ Due(p, Current(p))
        BY <3>1, VisitUpdateLocals DEF Moves, VisitUpdate, Visiting
      <4>2. ~VisitNothingToDo(p)
        BY <4>1, NextDomainLocals DEF VisitNothingToDo
      <4>3. ~EndPass(p)
        BY <1>0, <4>1, IdleStep DEF EndPass, Moves
      <4> QED BY <1>3, <4>1, <4>2, <4>3
              DEF StartPass, NothingNew, AnnounceAddress, AnnounceReturns,
                  UpdateOfDeletedRaises, HooksReturn, Ready, Answered
    <3> QED BY <3>1
  <2>2. ~AtProvider(p)'
    BY <1>3, <2>1, PassStaysAway DEF PassResumes
  <2> QED BY <1>0, <1>1, <2>2 DEF EventInv
<1> QED BY <1>2, <1>3

(* A disabled domain that goes pending is reported as such. *)
LEMMA DisabledReported ==
  ASSUME TypeInv, EventInv, OneJob, ~RebuildPreempted, NEW p \in Passes, VisitDisabled(p)
  PROVE  EventInv'
<1> DEFINE id == Current(p).id
<1>0. /\ p \in Tasks /\ (\A q \in Passes : q = p) /\ id \in Ids /\ rt \in Runtimes
      /\ told \in [Ids -> {"nothing", "pending", "success", "error"}]
  BY Alone, PassIsNoManual, CurrentType DEF VisitDisabled, TypeInv, TypeOK, Runtimes
<1>1. ed' = ed /\ \A e \in Editors : ed[e].pc # "cleared"
  BY NoRebuildOpen DEF VisitDisabled, Visiting
<1>2. ~AtProvider(p)'
  BY DispatchLocals, NextDomainLocals DEF VisitDisabled, AtProvider
<1>3. rt' = SetFreshness(rt, id, AddressFor(Current(p)))
  BY DEF VisitDisabled
<1>4. \/ told' = [told EXCEPT ![id] = "pending"] /\ rt'[id].status = "pending"
      \/ told' = told /\ ~(rt'[id].status = "pending" /\ rt[id].status # "pending")
  BY DEF VisitDisabled, Dispatch
<1> HIDE DEF id
<1>5. ASSUME NEW i \in Ids
      PROVE  /\ rt'[i].status = "error" => told'[i] = "error"
             /\ rt'[i].status = "synced" => told'[i] # "error"
             /\ rt'[i].status = "pending" /\ rt'[i].ip # None => told'[i] # "error"
  <2>1. CASE i # id
    <3>1. rt'[i] = rt[i] /\ told'[i] = told[i]
      BY <1>0, <1>3, <1>4, <2>1, FreshnessSet
    <3> QED BY <3>1 DEF EventInv, Reported
  <2>2. CASE i = id /\ rt[id].status \in {"absent", "error", "updating"}
    <3>1. rt'[id] = rt[id]
      BY <1>0, <1>3, <2>2, FreshnessSet
    <3>2. told'[id] = told[id]
      BY <1>4, <2>2, <3>1
    <3> QED BY <2>2, <3>1, <3>2 DEF EventInv, Reported
  <2>3. CASE i = id /\ rt[id].status \notin {"absent", "error", "updating"}
    <3>1. /\ rt'[id].ip = rt[id].ip
          /\ rt'[id].status = Freshness(rt[id].ip, AddressFor(Current(p)))
      BY <1>0, <1>3, <2>3, FreshnessSet
    <3>2. /\ rt'[id].status \in {"synced", "pending"}
          /\ rt'[id].status = "synced" => rt[id].ip # None
      BY <3>1 DEF Freshness
    <3>3. rt[id].status \in {"synced", "pending"}
      BY <1>0, <2>3 DEF Runtimes, DomainRuntime, Status
    <3>4. told'[id] = "pending" \/ told'[id] = told[id]
      BY <1>0, <1>4
    <3>5. CASE told'[id] = "pending"
      BY <2>3, <3>2, <3>5
    <3>6. CASE told' = told /\ ~(rt'[id].status = "pending" /\ rt[id].status # "pending")
      BY <2>3, <3>1, <3>2, <3>3, <3>6 DEF EventInv, Reported
    <3> QED BY <1>0, <1>4, <3>5, <3>6
  <2> QED BY <2>1, <2>2, <2>3
<1>6. Reported(told', rt')
  BY <1>5 DEF Reported
<1> QED BY <1>0, <1>1, <1>2, <1>6 DEF EventInv

(* A status that one event goes with, or that the last event went with.    *)
LEMMA OneReported ==
  ASSUME NEW domains \in Runtimes, NEW next \in Runtimes,
         NEW events \in [Ids -> {"nothing", "pending", "success", "error"}], NEW newer,
         Reported(events, domains), NEW id \in Ids,
         \A i \in Ids : i # id => next[i] = domains[i] /\ newer[i] = events[i],
         next[id].status = "error" => newer[id] = "error",
         next[id].status = "synced" => newer[id] # "error",
         next[id].status # "pending"
  PROVE  Reported(newer, next)
BY DEF Reported

(* A provider that is not registered is an error that is reported once.    *)
LEMMA UnknownReported ==
  ASSUME TypeInv, EventInv, OneJob, ~RebuildPreempted, NEW p \in Passes,
         VisitUnknownProvider(p)
  PROVE  EventInv'
<1> DEFINE id == Current(p).id
<1>0. /\ p \in Tasks /\ (\A q \in Passes : q = p) /\ id \in Ids /\ rt \in Runtimes
      /\ told \in [Ids -> {"nothing", "pending", "success", "error"}]
  BY Alone, PassIsNoManual, CurrentType
     DEF VisitUnknownProvider, TypeInv, TypeOK, Runtimes
<1>1. ed' = ed /\ \A e \in Editors : ed[e].pc # "cleared"
  BY NoRebuildOpen DEF VisitUnknownProvider, Visiting
<1>2. ~AtProvider(p)'
  BY <1>0, DispatchLocals, NextDomainLocals, IdleStep
     DEF VisitUnknownProvider, AtProvider, Moves
<1>3. /\ rt' = SetStatus(rt, id, "error", None)
      /\ \/ rt[id].status = "error" /\ told' = told
         \/ rt'[id].status # "absent" /\ told' = [told EXCEPT ![id] = "error"]
         \/ rt'[id].status = "absent" /\ told' = told
  BY DEF VisitUnknownProvider, Dispatch
<1> HIDE DEF id
<1>4. rt' \in Runtimes
  BY <1>0, <1>3, SetStatusType DEF Status, MaybeAddress
<1>5. /\ \A i \in Ids : i # id => rt'[i] = rt[i] /\ told'[i] = told[i]
      /\ rt'[id].status \in {"absent", "error"}
  <2>1. /\ \A i \in Ids : i # id => rt'[i] = rt[i]
        /\ rt'[id].status \in {"absent", "error"}
    BY <1>0, <1>3, StatusSet
  <2>2. \A i \in Ids : i # id => told'[i] = told[i]
    BY <1>0, <1>3
  <2> QED BY <2>1, <2>2
<1>6. rt'[id].status = "error" => told'[id] = "error"
  BY <1>0, <1>3 DEF EventInv, Reported
<1>7. Reported(told, rt)
  BY DEF EventInv
<1>8. Reported(told', rt')
  BY <1>0, <1>4, <1>5, <1>6, <1>7, OneReported
<1> QED BY <1>0, <1>1, <1>2, <1>8 DEF EventInv

(* What a domain was before it goes to the provider is what was reported.  *)
LEMMA UpdateReported ==
  ASSUME TypeInv, EventInv, OneJob, ~RebuildPreempted, NEW p \in Passes, VisitUpdate(p)
  PROVE  EventInv'
<1> DEFINE id == Current(p).id
<1>0. /\ p \in Tasks /\ (\A q \in Passes : q = p) /\ id \in Ids /\ rt \in Runtimes
      /\ told \in [Ids -> {"nothing", "pending", "success", "error"}]
  BY Alone, PassIsNoManual, CurrentType DEF VisitUpdate, TypeInv, TypeOK, Runtimes
<1>1. ed' = ed /\ told' = told /\ \A e \in Editors : ed[e].pc # "cleared"
  BY NoRebuildOpen DEF VisitUpdate, Visiting
<1>2. proc'[p].before = rt[id].status /\ proc'[p].dom.id = id
  BY VisitUpdateLocals
<1>3. rt' = SetStatus(rt, id, "updating", None)
  BY DEF VisitUpdate, BeginUpdate
<1> HIDE DEF id
<1>4. rt' \in Runtimes
  BY <1>0, <1>3, SetStatusType DEF Status, MaybeAddress
<1>5. /\ \A i \in Ids : i # id => rt'[i] = rt[i]
      /\ rt'[id].status \in {"absent", "updating"}
  BY <1>0, <1>3, StatusSet
<1>6. Reported(told, rt)
  BY DEF EventInv
<1>7. Reported(told', rt')
  BY <1>0, <1>1, <1>4, <1>5, <1>6, OneReported
<1> QED BY <1>0, <1>1, <1>2, <1>6, <1>7 DEF EventInv, Reported

(* An outcome the domain had before is not reported again; any other is.   *)
LEMMA OutcomeReported ==
  ASSUME TypeInv, EventInv, OneJob, ~RebuildPreempted, NEW p \in Passes,
         UpdateConfirms(p) \/ UpdateChanges(p)
  PROVE  EventInv'
<1> DEFINE id == proc[p].dom.id
<1>0. /\ p \in Tasks /\ (\A q \in Passes : q = p) /\ rt \in Runtimes
      /\ proc[p].pc \in {"acked", "refused"}
      /\ told \in [Ids -> {"nothing", "pending", "success", "error"}]
  BY Alone, PassIsNoManual
     DEF UpdateConfirms, UpdateChanges, Answered, Ready, TypeInv, TypeOK, Runtimes
<1>1. id \in Ids /\ Finished(proc[p]) \in Runtimes /\ proc[p].ip \in Addresses
  BY <1>0, FinishedType DEF TypeInv, Carries
<1>2. ed' = ed /\ \A e \in Editors : ed[e].pc # "cleared"
  BY NoRebuildOpen DEF UpdateConfirms, UpdateChanges, Answered, Ready
<1>3. ~AtProvider(p)'
  BY DispatchLocals, NextDomainLocals DEF UpdateConfirms, UpdateChanges, AtProvider
<1>4. /\ rt' = SetStatus(rt, id, Terminal(proc[p]),
                         IF proc[p].pc = "acked" THEN proc[p].ip ELSE None)
      /\ rt' \in Runtimes
  BY <1>0, <1>1 DEF UpdateConfirms, UpdateChanges, Finished, Terminal
<1>5. /\ (\A i \in Ids : i # id => rt'[i] = rt[i])
      /\ rt'[id].status \in {"absent", Terminal(proc[p])}
  BY <1>0, <1>1, <1>4, StatusSet
<1>6. Terminal(proc[p]) \in {"synced", "error"}
  BY DEF Terminal
<1>7. \/ told' = told /\ proc[p].before = Terminal(proc[p])
      \/ /\ told' = [told EXCEPT ![id] = IF Terminal(proc[p]) = "synced"
                                         THEN "success" ELSE "error"]
  BY DEF UpdateConfirms, UpdateChanges, Confirms, Dispatch
<1>8. AtProvider(p) /\ Reported(told, rt)
  BY <1>0 DEF AtProvider, EventInv
<1>9. /\ \A i \in Ids : i # id => told'[i] = told[i]
      /\ Terminal(proc[p]) = "error" => told'[id] = "error"
      /\ Terminal(proc[p]) = "synced" => told'[id] # "error"
  <2>1. CASE told' = told /\ proc[p].before = Terminal(proc[p])
    BY <1>8, <2>1 DEF EventInv
  <2>2. CASE told' = [told EXCEPT ![id] = IF Terminal(proc[p]) = "synced"
                                          THEN "success" ELSE "error"]
    BY <1>0, <1>1, <1>6, <2>2
  <2> QED BY <1>7, <2>1, <2>2
<1> HIDE DEF id
<1>10. Reported(told', rt')
  <2>1. /\ rt'[id].status = "error" => told'[id] = "error"
        /\ rt'[id].status = "synced" => told'[id] # "error"
        /\ rt'[id].status # "pending"
    BY <1>5, <1>6, <1>9
  <2> QED BY <1>0, <1>1, <1>4, <1>5, <1>8, <1>9, <2>1, OneReported
<1> QED BY <1>0, <1>2, <1>3, <1>10 DEF EventInv

(* Edits and rebuilds keep the statuses, or start a domain afresh.         *)
LEMMA OthersReported ==
  ASSUME TypeInv, EventInv, ~Restart,
         \/ \E e \in Editors : Edit(e) \/ Rebuild(e)
         \/ FlushState \/ Restart \/ LinkReported \/ AddressMoves \/ UNCHANGED vars
  PROVE  EventInv'
<1>a. UNCHANGED <<proc, told>>
  BY OthersLeaveJob
<1>b. ed \in [Editors -> [pc : {"idle", "edited", "cleared"},
                          prev : [Ids -> DomainRuntime],
                          prevKnown : [Ids -> Targets \cup {None}]]]
  BY DEF TypeInv, TypeOK
<1>1. ASSUME NEW e \in Editors, Edit(e) PROVE EventInv'
  BY <1>a, <1>1, EditKeepsRebuilds DEF EventInv, AtProvider
<1>2. ASSUME NEW e \in Editors, RebuildClears(e) PROVE EventInv'
  <2>1. Reported(told', rt')
    BY <1>2 DEF RebuildClears, Reported, Absent
  <2>2. \A x \in Editors : ed'[x].pc = "cleared" =>
          ed'[x].prev = rt \/ (ed[x].pc = "cleared" /\ ed'[x].prev = ed[x].prev)
    BY <1>b, <1>2 DEF RebuildClears
  <2> QED BY <1>a, <2>1, <2>2 DEF EventInv, AtProvider
<1>3. ASSUME NEW e \in Editors, RebuildFills(e) PROVE EventInv'
  <2>1. ed[e].pc = "cleared" /\ rt' = Rebuilt(cfg, ed[e].prev, ed[e].prevKnown, rt)
    BY <1>3 DEF RebuildFills
  <2>2. \A id \in Ids : rt'[id] \in {rt[id], ed[e].prev[id], Pending}
    BY <2>1 DEF Rebuilt
  <2>3. Reported(told, rt) /\ Reported(told, ed[e].prev)
    BY <2>1 DEF EventInv
  <2>4. Reported(told', rt')
    BY <1>a, <2>2, <2>3 DEF Reported, Pending
  <2>5. \A x \in Editors : ed'[x].pc = "cleared" =>
          ed[x].pc = "cleared" /\ ed'[x].prev = ed[x].prev
    BY <1>b, <1>3 DEF RebuildFills, IdleEditor
  <2> QED BY <1>a, <2>4, <2>5 DEF EventInv, AtProvider
<1>4. CASE FlushState \/ LinkReported \/ AddressMoves \/ UNCHANGED vars
  BY <1>a, <1>4 DEF FlushState, LinkReported, AddressMoves, vars, EventInv, AtProvider
<1> QED BY <1>1, <1>2, <1>3, <1>4 DEF Rebuild

(* In one run of the process with the sync job alone, and while rebuild is *)
(* not preempted, the hooks hear of every failure and of every recovery of *)
(* a domain, whatever the users edit meanwhile.                            *)
THEOREM EventsAreTruthful ==
  ASSUME OneJob, MaxCrashes = 0, ~RebuildPreempted
  PROVE  Spec => []EventsTellTruth
<1>1. Init => EventInv
  BY PassIsNoManual
     DEF Init, EventInv, Reported, Pending, Absent, AtProvider, Idle, IdleEditor
<1>2. TypeInv /\ EventInv /\ [Next]_vars => EventInv'
  <2> SUFFICES ASSUME TypeInv, EventInv, [Next]_vars PROVE EventInv'
    OBVIOUS
  <2>1. ~Restart
    BY DEF Restart, TypeInv, TypeOK
  <2>2. ASSUME NEW p \in Passes, \/ StartPass(p) \/ PassResumes(p)
                                 \/ SourceAnswers(p) \/ ProviderAnswers(p)
        PROVE  EventInv'
    BY <2>2, JobKeepsEvents, DisabledReported, UnknownReported, UpdateReported,
       OutcomeReported
       DEF PassResumes
  <2> QED BY <2>1, <2>2, StepsOfJob, OthersReported
<1>3. EventInv => EventsTellTruth
  BY DEF EventInv, Reported, EventsTellTruth
<1> QED BY <1>1, <1>2, <1>3, TypeInvariant, PTL DEF Spec

-----------------------------------------------------------------------------
(* The sync job alone: what is called synced between passes *)

(* SyncedIsCurrent speaks of the quiet moments only.  In between, a synced *)
(* domain is at the public address or the pass is still to come to it with *)
(* its family among the changed ones.                                      *)
Ahead(p, i) ==
  \/ proc[p].pc \in {"detect", "detected", "announce", "visit"} /\ i >= proc[p].idx
  \/ proc[p].pc \in {"update", "acked", "refused", "hooks"} /\ i > proc[p].idx

ToVisit(i) == \E p \in Passes : Ahead(p, i) /\ FamilyOf[cfg[i].target] \in proc[p].changed

CurrentIn(domains) ==
  \A i \in DOMAIN cfg :
    domains[cfg[i].id].status = "synced"
      => domains[cfg[i].id].ip = AddressFor(cfg[i]) \/ ToVisit(i)

CurrentInv ==
  /\ CurrentIn(rt)
  /\ \A e \in Editors : ed[e].pc = "cleared" => CurrentIn(ed[e].prev)

(* The domains that have no runtime yet are the last of the list, so that  *)
(* a pass which ends on one of them leaves out no other.                   *)
ListInv ==
  /\ \A i, j \in DOMAIN cfg : cfg[i].id = cfg[j].id => i = j
  /\ \A i \in DOMAIN cfg : cfg[i].id \notin unborn
  /\ \A id \in unborn : rt[id].status = "absent"
  /\ \A e \in Editors, id \in unborn : ed[e].prev[id].status = "absent"
  /\ \A i, j \in DOMAIN cfg :
       i < j /\ rt[cfg[i].id].status = "absent" => rt[cfg[j].id].status = "absent"

(* Where the pass is in the list, and that it knows the address of each    *)
(* family that changed.                                                    *)
WalkInv ==
  \A p \in Passes :
    /\ proc[p].pc \in {"detect", "detected", "announce"} => proc[p].idx = 1
    /\ \A f \in proc[p].changed : pub[f] # None
    /\ AtProvider(p) => /\ proc[p].idx \in DOMAIN cfg
                        /\ cfg[proc[p].idx].id = proc[p].dom.id
                        /\ cfg[proc[p].idx].target = proc[p].dom.target

JobInv == TypeInv /\ PushInv /\ ListInv /\ WalkInv /\ CurrentInv

LEMMA JobTypes ==
  ASSUME TypeInv, NEW p \in Passes
  PROVE  /\ p \in Tasks /\ proc[p] \in TaskState /\ proc \in [Tasks -> TaskState]
         /\ proc[p].idx \in Nat \ {0} /\ proc[p].fam \in Families
         /\ proc[p].changed \subseteq Families
         /\ rt \in Runtimes /\ cfg \in Seq(DomainConfig) /\ Len(cfg) \in Nat
BY PassIsNoManual DEF TypeInv, TypeOK, TaskState, Runtimes

(* A step that gives no domain a runtime and takes none away.              *)
LEMMA ListKept ==
  ASSUME TypeInv, ListInv, UNCHANGED <<cfg, ed, unborn>>,
         \A id \in Ids : rt'[id].status = "absent" <=> rt[id].status = "absent"
  PROVE  ListInv'
<1>1. \A i \in DOMAIN cfg : cfg[i].id \in Ids
  BY ListedType
<1>2. unborn \subseteq Ids
  BY DEF TypeInv, TypeOK
<1> QED BY <1>1, <1>2 DEF ListInv

(* A step that changes no domain and takes no domain from those to come.   *)
LEMMA CurrentKept ==
  ASSUME CurrentInv, UNCHANGED <<cfg, rt, ed, pub>>,
         \A i \in DOMAIN cfg : ToVisit(i) => ToVisit(i)'
  PROVE  CurrentInv'
BY DEF CurrentInv, CurrentIn, AddressFor

(* A step that leaves the domain it is about current, or not synced, and   *)
(* takes only this one from those to come.                                 *)
LEMMA VisitedCurrent ==
  ASSUME TypeInv, ListInv, CurrentInv, NEW i \in DOMAIN cfg,
         UNCHANGED <<cfg, ed, pub>>, \A e \in Editors : ed[e].pc # "cleared",
         \A id \in Ids : id # cfg[i].id => rt'[id] = rt[id],
         rt'[cfg[i].id].status = "synced" => rt'[cfg[i].id].ip = AddressFor(cfg[i]),
         \A j \in DOMAIN cfg : j # i /\ ToVisit(j) => ToVisit(j)'
  PROVE  CurrentInv'
<1>1. ASSUME NEW j \in DOMAIN cfg, rt'[cfg[j].id].status = "synced"
      PROVE  rt'[cfg[j].id].ip = AddressFor(cfg[j]) \/ ToVisit(j)'
  <2>1. CASE j = i
    BY <1>1, <2>1
  <2>2. CASE j # i
    <3>1. cfg[j].id \in Ids /\ cfg[j].id # cfg[i].id
      BY <2>2, ListedType DEF ListInv
    <3>2. rt'[cfg[j].id] = rt[cfg[j].id]
      BY <3>1
    <3> QED BY <1>1, <2>2, <3>2 DEF CurrentInv, CurrentIn
  <2> QED BY <2>1, <2>2
<1> QED BY <1>1 DEF CurrentInv, CurrentIn, AddressFor

(* The pass ends where nothing that is synced is still to come.            *)
LEMMA EndsCurrent ==
  ASSUME CurrentInv, UNCHANGED <<cfg, rt, ed, pub>>,
         \A e \in Editors : ed[e].pc # "cleared",
         \A i \in DOMAIN cfg : rt[cfg[i].id].status = "synced" => ~ToVisit(i)
  PROVE  CurrentInv'
BY DEF CurrentInv, CurrentIn, AddressFor

(* Before it comes to the list, and between its domains, a pass has what   *)
(* it had to come.                                                         *)
LEMMA AheadKept ==
  ASSUME TypeInv, WalkInv, OneJob, NEW p \in Passes,
         \/ NothingNew(p) \/ AnnounceAddress(p) \/ AnnounceReturns(p)
         \/ HooksReturn(p) \/ SourceAnswers(p) \/ ProviderAnswers(p)
  PROVE  /\ \A i \in Nat : Ahead(p, i) => Ahead(p, i)'
         /\ proc[p].changed \subseteq proc'[p].changed
<1>0. p \in Tasks /\ proc[p].idx \in Nat
  BY JobTypes
<1>1. CASE NothingNew(p) \/ AnnounceReturns(p)
  <2>1. NextFamily(p, proc[p]) /\ proc[p].pc \in {"detected", "announce"}
    BY <1>1 DEF NothingNew, AnnounceReturns, Ready
  <2> QED BY <2>1, NextFamilyLocals DEF Ahead
<1>2. CASE AnnounceAddress(p)
  <2>1. proc[p].pc = "detected"
    BY <1>2 DEF AnnounceAddress, Ready
  <2> QED BY <1>2, <2>1, AnnounceLocals DEF Ahead
<1>3. CASE HooksReturn(p)
  <2>1. NextDomain(p, proc[p]) /\ proc[p].pc = "hooks"
    BY <1>3 DEF HooksReturn, Ready
  <2> QED BY <1>0, <2>1, NextDomainLocals DEF Ahead
<1>4. CASE SourceAnswers(p) \/ ProviderAnswers(p)
  BY <1>0, <1>4, AnswerLocals DEF Ahead
<1> QED BY <1>1, <1>2, <1>3, <1>4

(* A pass at a domain of the list, or that comes back from its provider,   *)
(* and goes on.                                                            *)
AtDomain(p, i) ==
  /\ i = proc[p].idx
  /\ proc[p].pc \in {"visit", "acked", "refused"}
  /\ \/ proc'[p].pc = "visit" /\ proc'[p].idx = i + 1
     \/ proc'[p].pc \in {"update", "hooks"} /\ proc'[p].idx = i
  /\ proc'[p].changed = proc[p].changed

LEMMA AheadButOne ==
  ASSUME TypeInv, OneJob, NEW p \in Passes, NEW i, AtDomain(p, i), cfg' = cfg
  PROVE  \A j \in DOMAIN cfg : j # i /\ ToVisit(j) => ToVisit(j)'
<1>0. i \in Nat /\ (\A q \in Passes : q = p) /\ \A j \in DOMAIN cfg : j \in Nat
  BY Alone, JobTypes DEF AtDomain
<1>1. ASSUME NEW j \in Nat, j # i, Ahead(p, j) PROVE Ahead(p, j)'
  BY <1>0, <1>1 DEF Ahead, AtDomain
<1> QED BY <1>0, <1>1 DEF ToVisit, AtDomain

(* The pass begins, goes on to the list, or comes back from its hooks.     *)
LEMMA JobWalks ==
  ASSUME JobInv, OneJob, NEW p \in Passes,
         \/ StartPass(p) \/ NothingNew(p) \/ AnnounceReturns(p) \/ HooksReturn(p)
         \/ SourceAnswers(p) \/ ProviderAnswers(p)
  PROVE  ListInv' /\ WalkInv' /\ CurrentInv'
<1> USE DEF JobInv
<1>0. p \in Tasks /\ (\A q \in Passes : q = p) /\ \A i \in DOMAIN cfg : i \in Nat
  BY Alone, JobTypes
<1>1. UNCHANGED <<cfg, rt, ed, pub, unborn>>
  BY DEF StartPass, NothingNew, AnnounceReturns, HooksReturn, SourceAnswers,
         ProviderAnswers
<1>2. ListInv'
  BY <1>1, ListKept
<1>3. CASE StartPass(p)
  <2>1. proc[p].pc = "idle"
    BY <1>3 DEF StartPass, Ready
  <2>2. \A i \in DOMAIN cfg : ~ToVisit(i)
    BY <1>0, <2>1 DEF ToVisit, Ahead
  <2>3. WalkInv'
    BY <1>0, <1>3, StartLocals DEF WalkInv, AtProvider
  <2> QED BY <1>1, <1>2, <2>2, <2>3, CurrentKept
<1>4. CASE ~StartPass(p)
  <2>1. /\ \A i \in Nat : Ahead(p, i) => Ahead(p, i)'
        /\ proc[p].changed \subseteq proc'[p].changed
    BY <1>4, AheadKept
  <2>2. \A i \in DOMAIN cfg : ToVisit(i) => ToVisit(i)'
    BY <1>0, <1>1, <2>1 DEF ToVisit
  <2>3. WalkInv'
    <3>1. CASE NothingNew(p) \/ AnnounceReturns(p)
      <4>1. NextFamily(p, proc[p]) /\ proc[p].pc \in {"detected", "announce"}
        BY <3>1 DEF NothingNew, AnnounceReturns, Ready
      <4> QED BY <1>0, <1>1, <4>1, NextFamilyLocals DEF WalkInv, AtProvider
    <3>2. CASE HooksReturn(p)
      <4>1. NextDomain(p, proc[p])
        BY <3>2 DEF HooksReturn
      <4> QED BY <1>0, <1>1, <4>1, NextDomainLocals DEF WalkInv, AtProvider
    <3>3. CASE SourceAnswers(p) \/ ProviderAnswers(p)
      BY <1>0, <1>1, <3>3, AnswerLocals DEF WalkInv, AtProvider
    <3> QED BY <1>4, <3>1, <3>2, <3>3
  <2> QED BY <1>1, <1>2, <2>2, <2>3, CurrentKept
<1> QED BY <1>3, <1>4

(* A new address makes every domain of its family one to come to.          *)
LEMMA JobAnnounces ==
  ASSUME JobInv, OneJob, NEW p \in Passes, AnnounceAddress(p)
  PROVE  ListInv' /\ WalkInv' /\ CurrentInv'
<1> USE DEF JobInv
<1> DEFINE f == proc[p].fam
<1>0. /\ p \in Tasks /\ (\A q \in Passes : q = p) /\ f \in Families
      /\ (\A i \in DOMAIN cfg : i \in Nat /\ i >= 1)
  BY Alone, JobTypes
<1>1. /\ UNCHANGED <<cfg, rt, ed, unborn>> /\ pub' = [pub EXCEPT ![f] = proc[p].ip]
      /\ proc[p].pc = "detected" /\ proc[p].ip # None
  BY DEF AnnounceAddress, Ready, IsNews
<1>2. pub \in [Families -> Addresses \cup {None}]
  BY DEF TypeInv, TypeOK
<1>3. ListInv'
  BY <1>1, ListKept
<1>4. /\ proc[p].idx = 1 /\ proc'[p].pc = "announce" /\ proc'[p].idx = 1
      /\ proc'[p].changed = proc[p].changed \cup {f}
  BY <1>1, AnnounceLocals DEF WalkInv
<1>5. WalkInv'
  BY <1>0, <1>1, <1>2, <1>4 DEF WalkInv, AtProvider
<1>6. \A i \in DOMAIN cfg : Ahead(p, i)'
  BY <1>0, <1>4 DEF Ahead
<1>7. \A i \in DOMAIN cfg : \/ ToVisit(i)'
                            \/ AddressFor(cfg[i])' = AddressFor(cfg[i]) /\ ~ToVisit(i)
  <2> SUFFICES ASSUME NEW i \in DOMAIN cfg, ~ToVisit(i)'
               PROVE  AddressFor(cfg[i])' = AddressFor(cfg[i]) /\ ~ToVisit(i)
    OBVIOUS
  <2>1. FamilyOf[cfg[i].target] \notin proc'[p].changed
    BY <1>1, <1>6 DEF ToVisit
  <2>2. FamilyOf[cfg[i].target] # f /\ ~ToVisit(i)
    BY <1>0, <1>4, <2>1 DEF ToVisit
  <2>3. FamilyOf[cfg[i].target] \in Families
    <3>1. cfg[i].target \in Targets
      BY ListedType DEF DomainConfig
    <3> QED BY <3>1, SyncAssumption
  <2> QED BY <1>1, <1>2, <2>2, <2>3 DEF AddressFor
<1>8. CurrentInv'
  BY <1>1, <1>7 DEF CurrentInv, CurrentIn, AddressFor
<1> QED BY <1>3, <1>5, <1>8

(* The pass ends: at the end of the list, or at a domain that is gone from *)
(* the runtime, after which no other has one.                              *)
LEMMA JobEnds ==
  ASSUME JobInv, OneJob, ~RebuildPreempted, NEW p \in Passes,
         proc' = [proc EXCEPT ![p] = Idle], UNCHANGED <<cfg, rt, ed, pub, unborn>>,
         LoopRuns,
         \/ proc[p].pc = "visit" /\ proc[p].idx > Len(cfg)
         \/ /\ proc[p].pc \in {"visit", "acked", "refused"} /\ proc[p].idx \in DOMAIN cfg
            /\ rt[cfg[proc[p].idx].id].status = "absent"
  PROVE  ListInv' /\ WalkInv' /\ CurrentInv'
<1> USE DEF JobInv
<1>0. /\ p \in Tasks /\ (\A q \in Passes : q = p) /\ proc[p].idx \in Nat /\ Len(cfg) \in Nat
      /\ (\A i \in DOMAIN cfg : i \in Nat /\ i <= Len(cfg))
  BY Alone, JobTypes
<1>1. ListInv'
  BY ListKept
<1>2. proc'[p] = Idle
  BY <1>0 DEF TypeInv, TypeOK
<1>3. WalkInv'
  BY <1>0, <1>2 DEF WalkInv, AtProvider, Idle
<1>4. ASSUME NEW i \in DOMAIN cfg, ToVisit(i) PROVE rt[cfg[i].id].status # "synced"
  <2>1. Ahead(p, i) /\ i \in Nat
    BY <1>0, <1>4 DEF ToVisit
  <2>2. proc[p].idx \in DOMAIN cfg /\ rt[cfg[proc[p].idx].id].status = "absent"
    BY <1>0, <2>1 DEF Ahead
  <2>3. proc[p].idx = i \/ proc[p].idx < i
    BY <1>0, <2>1 DEF Ahead
  <2>4. rt[cfg[i].id].status = "absent"
    BY <2>2, <2>3 DEF ListInv
  <2> QED BY <2>4
<1> QED BY <1>1, <1>3, <1>4, NoRebuildOpen, EndsCurrent

(* A domain the pass has nothing to do for is current if it is synced.     *)
LEMMA JobSkips ==
  ASSUME JobInv, OneJob, ~RebuildPreempted, NEW p \in Passes, VisitNothingToDo(p)
  PROVE  ListInv' /\ WalkInv' /\ CurrentInv'
<1> USE DEF JobInv
<1> DEFINE i == proc[p].idx
<1>0. /\ p \in Tasks /\ (\A q \in Passes : q = p) /\ i \in Nat \ {0} /\ cfg \in Seq(DomainConfig)
  BY Alone, JobTypes
<1>1. /\ UNCHANGED <<cfg, rt, ed, pub, unborn>> /\ NextDomain(p, proc[p])
      /\ proc[p].pc = "visit" /\ i <= Len(cfg) /\ Current(p) = cfg[i]
      /\ cfg[i].enabled /\ ~Due(p, cfg[i]) /\ \A e \in Editors : ed[e].pc # "cleared"
  BY NoRebuildOpen DEF VisitNothingToDo, Visiting, Current
<1>2. i \in DOMAIN cfg
  BY <1>0, <1>1
<1>3. ListInv'
  BY <1>1, ListKept
<1>4. AtDomain(p, i) /\ WalkInv'
  BY <1>0, <1>1, NextDomainLocals DEF AtDomain, WalkInv, AtProvider
<1>5. ~ToVisit(i)
  <2>1. FamilyOf[cfg[i].target] \notin proc[p].changed
    BY <1>0, <1>1 DEF Due, NeedsSync, AddressFor, WalkInv
  <2> QED BY <1>0, <2>1 DEF ToVisit
<1>6. rt'[cfg[i].id].status = "synced" => rt'[cfg[i].id].ip = AddressFor(cfg[i])
  BY <1>1, <1>2, <1>5 DEF CurrentInv, CurrentIn
<1> HIDE DEF i
<1>7. CurrentInv'
  BY <1>1, <1>2, <1>4, <1>6, AheadButOne, VisitedCurrent
<1> QED BY <1>3, <1>4, <1>7

(* A disabled domain is measured against the address of the moment.        *)
LEMMA JobMeasures ==
  ASSUME JobInv, OneJob, ~RebuildPreempted, NEW p \in Passes, VisitDisabled(p)
  PROVE  ListInv' /\ WalkInv' /\ CurrentInv'
<1> USE DEF JobInv
<1> DEFINE i == proc[p].idx
           id == cfg[i].id
<1>0. /\ p \in Tasks /\ (\A q \in Passes : q = p) /\ i \in Nat \ {0}
      /\ cfg \in Seq(DomainConfig) /\ rt \in Runtimes
  BY Alone, JobTypes
<1>1. /\ UNCHANGED <<cfg, ed, pub, unborn>> /\ proc[p].pc = "visit" /\ i <= Len(cfg)
      /\ rt' = SetFreshness(rt, id, AddressFor(cfg[i]))
      /\ \/ NextDomain(p, proc[p])
         \/ Dispatch(p, id, "pending")
      /\ \A e \in Editors : ed[e].pc # "cleared"
  BY NoRebuildOpen DEF VisitDisabled, Visiting, Current
<1>2. i \in DOMAIN cfg /\ id \in Ids
  <2>1. i \in DOMAIN cfg
    BY <1>0, <1>1
  <2> QED BY <2>1, ListedType
<1>3. AtDomain(p, i) /\ WalkInv'
  BY <1>0, <1>1, NextDomainLocals, DispatchLocals DEF AtDomain, WalkInv, AtProvider
<1> HIDE DEF i, id
<1>4. /\ \A x \in Ids : x # id => rt'[x] = rt[x]
      /\ rt'[id].status = "absent" <=> rt[id].status = "absent"
      /\ rt'[id].status = "synced" => rt'[id].ip = AddressFor(cfg[i])
  <2>1. CASE rt[id].status \in {"absent", "error", "updating"}
    BY <1>0, <1>1, <1>2, <2>1, FreshnessSet
  <2>2. CASE rt[id].status \notin {"absent", "error", "updating"}
    <3>1. /\ \A x \in Ids : x # id => rt'[x] = rt[x]
          /\ rt'[id].ip = rt[id].ip
          /\ rt'[id].status = Freshness(rt[id].ip, AddressFor(cfg[i]))
      BY <1>0, <1>1, <1>2, <2>2, FreshnessSet
    <3> QED BY <2>2, <3>1 DEF Freshness
  <2> QED BY <2>1, <2>2
<1>5. ListInv'
  <2>1. \A x \in Ids : rt'[x].status = "absent" <=> rt[x].status = "absent"
    BY <1>2, <1>4
  <2> QED BY <1>1, <2>1, ListKept
<1>6. \A x \in Ids : x # cfg[i].id => rt'[x] = rt[x]
  BY <1>4 DEF id
<1>7. rt'[cfg[i].id].status = "synced" => rt'[cfg[i].id].ip = AddressFor(cfg[i])
  BY <1>4 DEF id
<1>8. CurrentInv'
  BY <1>1, <1>2, <1>3, <1>6, <1>7, AheadButOne, VisitedCurrent
<1> QED BY <1>3, <1>5, <1>8

(* A status that is set on the domain at hand leaves it current, or not    *)
(* synced.                                                                 *)
LEMMA JobSets ==
  ASSUME JobInv, OneJob, NEW p \in Passes, NEW i \in DOMAIN cfg,
         AtDomain(p, i), WalkInv',
         UNCHANGED <<cfg, ed, pub, unborn>>, \A e \in Editors : ed[e].pc # "cleared",
         NEW status \in Status, NEW ip,
         rt' = SetStatus(rt, cfg[i].id, status, ip),
         status = "synced" => ip # None /\ ip = AddressFor(cfg[i])
  PROVE  ListInv' /\ WalkInv' /\ CurrentInv'
<1> USE DEF JobInv
<1> DEFINE id == cfg[i].id
<1>0. rt \in Runtimes /\ id \in Ids
  BY JobTypes, ListedType
<1>1. rt' = SetStatus(rt, id, status, ip) /\ status # "absent"
  BY DEF Status
<1> HIDE DEF id
<1>2. /\ \A x \in Ids : x # id => rt'[x] = rt[x]
      /\ rt'[id].status = "absent" <=> rt[id].status = "absent"
      /\ rt'[id].status = "synced" => rt'[id].ip = AddressFor(cfg[i])
  BY <1>0, <1>1, StatusSet
<1>3. ListInv'
  <2>1. \A x \in Ids : rt'[x].status = "absent" <=> rt[x].status = "absent"
    BY <1>0, <1>2
  <2> QED BY <2>1, ListKept
<1>4. \A x \in Ids : x # cfg[i].id => rt'[x] = rt[x]
  BY <1>2 DEF id
<1>5. rt'[cfg[i].id].status = "synced" => rt'[cfg[i].id].ip = AddressFor(cfg[i])
  BY <1>2 DEF id
<1>6. CurrentInv'
  BY <1>4, <1>5, AheadButOne, VisitedCurrent
<1> QED BY <1>3, <1>6

LEMMA JobRefuses ==
  ASSUME JobInv, OneJob, ~RebuildPreempted, NEW p \in Passes, VisitUnknownProvider(p)
  PROVE  ListInv' /\ WalkInv' /\ CurrentInv'
<1> USE DEF JobInv
<1> DEFINE i == proc[p].idx
<1>0. /\ p \in Tasks /\ (\A q \in Passes : q = p) /\ i \in Nat \ {0}
      /\ cfg \in Seq(DomainConfig) /\ rt \in Runtimes
  BY Alone, JobTypes
<1>1. /\ UNCHANGED <<cfg, ed, pub, unborn>> /\ proc[p].pc = "visit" /\ i <= Len(cfg)
      /\ rt' = SetStatus(rt, cfg[i].id, "error", None) /\ LoopRuns
      /\ \/ NextDomain(p, proc[p]) \/ Dispatch(p, cfg[i].id, "error")
         \/ /\ rt'[cfg[i].id].status = "absent"
            /\ proc' = [proc EXCEPT ![p] = Idle]
  BY DEF VisitUnknownProvider, Visiting, Current
<1>2. i \in DOMAIN cfg /\ cfg[i].id \in Ids
  <2>1. i \in DOMAIN cfg
    BY <1>0, <1>1
  <2> QED BY <2>1, ListedType
<1>3. CASE NextDomain(p, proc[p]) \/ Dispatch(p, cfg[i].id, "error")
  <2>1. AtDomain(p, i) /\ proc'[p].pc \in {"visit", "hooks"}
    BY <1>1, <1>3, NextDomainLocals, DispatchLocals DEF AtDomain
  <2>2. WalkInv'
    BY <1>0, <1>1, <2>1 DEF AtDomain, WalkInv, AtProvider
  <2> QED BY <1>1, <1>2, <2>1, <2>2, JobSets, NoRebuildOpen DEF Status
<1>4. CASE /\ rt'[cfg[i].id].status = "absent"
           /\ proc' = [proc EXCEPT ![p] = Idle]
  <2>1. rt[cfg[i].id].status = "absent"
    BY <1>0, <1>1, <1>2, <1>4, StatusSet
  <2>2. rt' = rt
    BY <1>1, <2>1 DEF SetStatus
  <2> QED BY <1>1, <1>2, <1>4, <2>1, <2>2, JobEnds
<1> QED BY <1>1, <1>3, <1>4

LEMMA JobPushesOne ==
  ASSUME JobInv, OneJob, ~RebuildPreempted, NEW p \in Passes, VisitUpdate(p)
  PROVE  ListInv' /\ WalkInv' /\ CurrentInv'
<1> USE DEF JobInv
<1> DEFINE i == proc[p].idx
<1>0. /\ p \in Tasks /\ (\A q \in Passes : q = p) /\ i \in Nat \ {0}
      /\ cfg \in Seq(DomainConfig) /\ proc[p] \in TaskState
  BY Alone, JobTypes
<1>1. /\ UNCHANGED <<cfg, ed, pub, unborn>> /\ proc[p].pc = "visit" /\ i <= Len(cfg)
      /\ rt' = SetStatus(rt, cfg[i].id, "updating", None)
      /\ \A e \in Editors : ed[e].pc # "cleared"
  BY NoRebuildOpen DEF VisitUpdate, Visiting, BeginUpdate, Current
<1>2. i \in DOMAIN cfg
  BY <1>0, <1>1
<1>3. /\ proc'[p].pc = "update" /\ proc'[p].dom = cfg[i] /\ proc'[p].idx = i
      /\ proc'[p].changed = proc[p].changed
  BY VisitUpdateLocals DEF Moves, Current
<1>4. AtDomain(p, i) /\ WalkInv'
  BY <1>0, <1>1, <1>2, <1>3 DEF AtDomain, WalkInv, AtProvider
<1> QED BY <1>1, <1>2, <1>4, JobSets DEF Status

LEMMA JobHears ==
  ASSUME JobInv, OneJob, ~RebuildPreempted, NEW p \in Passes,
         UpdateConfirms(p) \/ UpdateChanges(p)
  PROVE  ListInv' /\ WalkInv' /\ CurrentInv'
<1> USE DEF JobInv
<1> DEFINE i == proc[p].idx
           ip == IF proc[p].pc = "acked" THEN proc[p].ip ELSE None
<1>0. p \in Tasks /\ (\A q \in Passes : q = p)
  BY Alone, JobTypes
<1>1. /\ UNCHANGED <<cfg, ed, pub, unborn>> /\ proc[p].pc \in {"acked", "refused"}
      /\ rt' = Finished(proc[p])
      /\ \/ NextDomain(p, proc[p])
         \/ \E event : Dispatch(p, proc[p].dom.id, event)
      /\ \A e \in Editors : ed[e].pc # "cleared"
  BY NoRebuildOpen DEF UpdateConfirms, UpdateChanges, Answered, Ready
<1>2. /\ i \in DOMAIN cfg /\ cfg[i].id = proc[p].dom.id
      /\ cfg[i].target = proc[p].dom.target /\ proc[p].ip = AddressFor(proc[p].dom)
  BY <1>1 DEF WalkInv, PushInv, AtProvider
<1>3. proc[p].ip # None
  BY <1>0, <1>1, SyncAssumption DEF TypeInv, Carries
<1>4. rt' = SetStatus(rt, cfg[i].id, Terminal(proc[p]), ip)
  BY <1>1, <1>2 DEF Finished, Terminal
<1>5. AtDomain(p, i) /\ WalkInv'
  BY <1>0, <1>1, NextDomainLocals, DispatchLocals DEF AtDomain, WalkInv, AtProvider
<1>6. /\ Terminal(proc[p]) \in Status
      /\ Terminal(proc[p]) = "synced" => ip # None /\ ip = AddressFor(cfg[i])
  BY <1>2, <1>3 DEF Terminal, Status, AddressFor
<1> HIDE DEF i, ip
<1> QED BY <1>1, <1>2, <1>4, <1>5, <1>6, JobSets

LEMMA JobRaises ==
  ASSUME JobInv, OneJob, ~RebuildPreempted, NEW p \in Passes,
         EndPass(p) \/ UpdateOfDeletedRaises(p)
  PROVE  ListInv' /\ WalkInv' /\ CurrentInv'
<1> USE DEF JobInv
<1>1. CASE EndPass(p)
  BY <1>1, JobEnds DEF EndPass, Visiting
<1>2. CASE UpdateOfDeletedRaises(p)
  <2>1. proc[p].pc \in {"acked", "refused"}
    BY <1>2 DEF UpdateOfDeletedRaises, Answered, Ready
  <2>2. proc[p].idx \in DOMAIN cfg /\ rt[cfg[proc[p].idx].id].status = "absent"
    BY <1>2, <2>1 DEF UpdateOfDeletedRaises, WalkInv, AtProvider
  <2> QED BY <1>2, <2>1, <2>2, JobEnds DEF UpdateOfDeletedRaises, Answered, Ready
<1> QED BY <1>1, <1>2

(* A list whose first domains keep their ids and targets, and whose others *)
(* have no runtime yet.                                                    *)
LEMMA EditedCurrent ==
  ASSUME CurrentInv, UNCHANGED <<rt, pub, proc>>, DOMAIN cfg \subseteq DOMAIN cfg',
         \A i \in DOMAIN cfg : cfg'[i].id = cfg[i].id /\ cfg'[i].target = cfg[i].target,
         \A x \in Editors : /\ ed'[x].prev = ed[x].prev
                            /\ ed'[x].pc = "cleared" => ed[x].pc = "cleared",
         \A i \in DOMAIN cfg' \ DOMAIN cfg :
           /\ rt[cfg'[i].id].status # "synced"
           /\ \A x \in Editors : ed[x].prev[cfg'[i].id].status # "synced"
  PROVE  CurrentInv'
<1>1. ASSUME NEW i \in DOMAIN cfg
      PROVE  /\ pub'[FamilyOf[cfg'[i].target]] = pub[FamilyOf[cfg[i].target]]
             /\ ToVisit(i) => ToVisit(i)'
  BY DEF ToVisit, Ahead
<1>2. CurrentIn(rt)'
  <2> SUFFICES ASSUME NEW i \in DOMAIN cfg', rt'[cfg'[i].id].status = "synced"
               PROVE  \/ rt'[cfg'[i].id].ip = pub'[FamilyOf[cfg'[i].target]]
                      \/ ToVisit(i)'
    BY DEF CurrentIn, AddressFor
  <2> QED BY <1>1 DEF CurrentInv, CurrentIn, AddressFor
<1>3. ASSUME NEW x \in Editors, ed'[x].pc = "cleared" PROVE CurrentIn(ed[x].prev)'
  <2> SUFFICES ASSUME NEW i \in DOMAIN cfg', ed'[x].prev[cfg'[i].id].status = "synced"
               PROVE  \/ ed'[x].prev[cfg'[i].id].ip = pub'[FamilyOf[cfg'[i].target]]
                      \/ ToVisit(i)'
    BY DEF CurrentIn, AddressFor
  <2> QED BY <1>1, <1>3 DEF CurrentInv, CurrentIn, AddressFor
<1> QED BY <1>2, <1>3 DEF CurrentInv

LEMMA CreatedLast ==
  ASSUME JobInv, NEW e \in Editors, CreateDomain(e)
  PROVE  ListInv' /\ WalkInv' /\ CurrentInv'
<1> USE DEF JobInv
<1>0. cfg \in Seq(DomainConfig) /\ Len(cfg) \in Nat
  BY DEF TypeInv, TypeOK
<1>1. PICK id \in unborn, target \in Targets \ TargetsInUse :
        /\ cfg' = Append(cfg, [id |-> id, target |-> target, enabled |-> TRUE])
        /\ unborn' = unborn \ {id}
  BY DEF CreateDomain
<1>2. /\ UNCHANGED <<rt, pub, proc>>
      /\ \A x \in Editors : /\ ed'[x].prev = ed[x].prev
                            /\ ed'[x].pc = "cleared" => ed[x].pc = "cleared"
  BY EditKeepsRebuilds DEF Edit
<1> DEFINE n == Len(cfg) + 1
<1>3. /\ DOMAIN cfg' = DOMAIN cfg \cup {n} /\ n \notin DOMAIN cfg
      /\ \A i \in DOMAIN cfg : cfg'[i] = cfg[i] /\ i \in Nat /\ i < n
      /\ cfg'[n].id = id /\ n \in Nat
  BY <1>0, <1>1
<1>4. rt[id].status = "absent" /\ \A x \in Editors : ed[x].prev[id].status = "absent"
  BY <1>1 DEF ListInv
<1> HIDE DEF n
<1>5. ListInv'
  <2>1. \A i, j \in DOMAIN cfg' : cfg'[i].id = cfg'[j].id => i = j
    BY <1>1, <1>3 DEF ListInv
  <2>2. \A i \in DOMAIN cfg' : cfg'[i].id \notin unborn'
    BY <1>1, <1>3 DEF ListInv
  <2>3. /\ \A x \in unborn' : rt'[x].status = "absent"
        /\ \A y \in Editors, x \in unborn' : ed'[y].prev[x].status = "absent"
    BY <1>1, <1>2 DEF ListInv
  <2>4. ASSUME NEW i \in DOMAIN cfg', NEW j \in DOMAIN cfg',
               i < j, rt'[cfg'[i].id].status = "absent"
        PROVE  rt'[cfg'[j].id].status = "absent"
    <3>1. CASE j = n
      BY <1>2, <1>3, <1>4, <3>1
    <3>2. CASE j # n
      <4>1. j \in DOMAIN cfg /\ i # n
        BY <1>3, <2>4, <3>2
      <4>2. i \in DOMAIN cfg
        BY <1>3, <4>1
      <4> QED BY <1>2, <1>3, <2>4, <4>1, <4>2 DEF ListInv
    <3> QED BY <3>1, <3>2
  <2> QED BY <2>1, <2>2, <2>3, <2>4 DEF ListInv
<1>6. WalkInv'
  BY <1>2, <1>3 DEF WalkInv, AtProvider
<1>7. CurrentInv'
  BY <1>2, <1>3, <1>4, EditedCurrent
<1> QED BY <1>5, <1>6, <1>7

LEMMA ToggledCurrent ==
  ASSUME JobInv, NEW e \in Editors, ToggleDomain(e)
  PROVE  ListInv' /\ WalkInv' /\ CurrentInv'
<1> USE DEF JobInv
<1>1. PICK k \in DOMAIN cfg : cfg' = [cfg EXCEPT ![k].enabled = ~@]
  BY DEF ToggleDomain
<1>2. /\ UNCHANGED <<rt, pub, proc, unborn>>
      /\ \A x \in Editors : /\ ed'[x].prev = ed[x].prev
                            /\ ed'[x].pc = "cleared" => ed[x].pc = "cleared"
  BY EditKeepsRebuilds DEF Edit, ToggleDomain
<1>3. /\ DOMAIN cfg' = DOMAIN cfg
      /\ \A i \in DOMAIN cfg : cfg'[i].id = cfg[i].id /\ cfg'[i].target = cfg[i].target
  <2>1. cfg \in Seq(DomainConfig) /\ cfg[k] \in DomainConfig
    BY ListedType DEF TypeInv, TypeOK
  <2>2. /\ [cfg[k] EXCEPT !.enabled = ~@].id = cfg[k].id
        /\ [cfg[k] EXCEPT !.enabled = ~@].target = cfg[k].target
    BY <2>1 DEF DomainConfig
  <2> QED BY <1>1, <2>1, <2>2
<1>4. ListInv'
  BY <1>2, <1>3 DEF ListInv
<1>5. WalkInv'
  BY <1>2, <1>3 DEF WalkInv, AtProvider
<1>6. CurrentInv'
  BY <1>2, <1>3, EditedCurrent
<1> QED BY <1>4, <1>5, <1>6

LEMMA RebuiltCurrent ==
  ASSUME JobInv, NEW e \in Editors, Rebuild(e)
  PROVE  ListInv' /\ WalkInv' /\ CurrentInv'
<1> USE DEF JobInv
<1>0. /\ ed \in [Editors -> [pc : {"idle", "edited", "cleared"},
                            prev : [Ids -> DomainRuntime],
                            prevKnown : [Ids -> Targets \cup {None}]]]
      /\ unborn \subseteq Ids /\ \A i \in DOMAIN cfg : cfg[i].id \in Ids
  BY ListedType DEF TypeInv, TypeOK
<1>1. UNCHANGED <<cfg, pub, proc, unborn>>
  BY DEF Rebuild, RebuildClears, RebuildFills
<1>2. WalkInv'
  BY <1>1 DEF WalkInv, AtProvider
<1>3. \A i \in DOMAIN cfg : ToVisit(i) => ToVisit(i)'
  BY <1>1 DEF ToVisit, Ahead
<1>4. CASE RebuildClears(e)
  <2>1. /\ \A id \in Ids : rt'[id] = Absent
        /\ \A x \in Editors : IF x = e THEN ed'[x].prev = rt ELSE ed'[x] = ed[x]
    BY <1>0, <1>4 DEF RebuildClears
  <2>2. ListInv'
    BY <1>0, <1>1, <2>1 DEF ListInv, Absent
  <2>3. CurrentIn(rt)'
    BY <1>0, <1>1, <2>1 DEF CurrentIn, Absent
  <2>4. ASSUME NEW x \in Editors, ed'[x].pc = "cleared" PROVE CurrentIn(ed[x].prev)'
    <3>1. CurrentIn(rt) /\ (ed[x].pc = "cleared" => CurrentIn(ed[x].prev))
      BY DEF CurrentInv
    <3>2. ASSUME NEW i \in DOMAIN cfg, ed'[x].prev[cfg[i].id].status = "synced"
          PROVE  \/ ed'[x].prev[cfg[i].id].ip = pub[FamilyOf[cfg[i].target]]
                 \/ ToVisit(i)
      BY <2>1, <2>4, <3>1, <3>2 DEF CurrentIn, AddressFor
    <3> QED BY <1>1, <1>3, <3>2 DEF CurrentIn, AddressFor
  <2> QED BY <1>2, <2>2, <2>3, <2>4 DEF CurrentInv
<1>5. CASE RebuildFills(e)
  <2>1. /\ rt' = Rebuilt(cfg, ed[e].prev, ed[e].prevKnown, rt)
        /\ ed[e].pc = "cleared"
        /\ \A x \in Editors : ed'[x] = IF x = e THEN IdleEditor ELSE ed[x]
    BY <1>0, <1>5 DEF RebuildFills
  <2>2. \A i \in DOMAIN cfg : /\ rt'[cfg[i].id] \in {ed[e].prev[cfg[i].id], Pending}
                              /\ rt'[cfg[i].id].status # "absent"
    BY <1>0, <2>1 DEF Rebuilt, Pending, IdsIn
  <2>3. \A id \in unborn : rt'[id] = rt[id]
    BY <1>0, <2>1 DEF Rebuilt, IdsIn, ListInv
  <2>4. ListInv'
    <3>1. \A id \in unborn : rt'[id].status = "absent"
      BY <2>3 DEF ListInv
    <3>2. ASSUME NEW x \in Editors, NEW id \in unborn
          PROVE  ed'[x].prev[id].status = "absent"
      <4>1. id \in Ids /\ ed[x].prev[id].status = "absent"
        BY <1>0 DEF ListInv
      <4>2. IdleEditor.prev[id].status = "absent"
        BY <4>1 DEF IdleEditor, Absent
      <4> QED BY <2>1, <4>1, <4>2
    <3> QED BY <1>1, <2>2, <3>1, <3>2 DEF ListInv
  <2>5. CurrentIn(rt)'
    <3>1. CurrentIn(ed[e].prev)
      BY <2>1 DEF CurrentInv
    <3>2. ASSUME NEW i \in DOMAIN cfg, rt'[cfg[i].id].status = "synced"
          PROVE  \/ rt'[cfg[i].id].ip = pub[FamilyOf[cfg[i].target]]
                 \/ ToVisit(i)
      BY <2>2, <3>1, <3>2 DEF CurrentIn, Pending, AddressFor
    <3> QED BY <1>1, <1>3, <3>2 DEF CurrentIn, AddressFor
  <2>6. ASSUME NEW x \in Editors, ed'[x].pc = "cleared" PROVE CurrentIn(ed[x].prev)'
    <3>1. ed'[x] = ed[x] /\ CurrentIn(ed[x].prev)
      BY <2>1, <2>6 DEF CurrentInv, IdleEditor
    <3> QED BY <1>1, <1>3, <3>1 DEF CurrentIn, AddressFor
  <2> QED BY <1>2, <2>4, <2>5, <2>6 DEF CurrentInv
<1> QED BY <1>2, <1>4, <1>5 DEF Rebuild

(* In one run of the process with the sync job alone, while rebuild is not *)
(* preempted and users create and switch domains, no enabled domain is     *)
(* called synced at another address than the public one between passes: a  *)
(* change of address reaches every domain of the list.                     *)
THEOREM ChangeReachesEveryDomain ==
  ASSUME OneJob, MaxCrashes = 0, ~RebuildPreempted, EditKinds \subseteq {"create", "toggle"}
  PROVE  Spec => []SyncedIsCurrent
<1>1. Init => ListInv /\ WalkInv /\ CurrentInv
  <2> SUFFICES ASSUME Init PROVE ListInv /\ WalkInv /\ CurrentInv
    OBVIOUS
  <2>1. /\ cfg = InitialConfig /\ unborn = Ids \ IdsIn(InitialConfig)
        /\ \A i \in DOMAIN cfg : cfg[i].id \in IdsIn(InitialConfig) /\ cfg[i].id \in Ids
    <3>1. TypeInv
      BY InitTypes
    <3> QED BY <3>1, ListedType DEF Init, IdsIn
  <2>2. /\ \A i \in DOMAIN cfg : rt[cfg[i].id].status = "pending"
        /\ \A id \in unborn : rt[id].status = "absent"
        /\ \A e \in Editors : /\ ed[e].pc = "idle"
                              /\ \A id \in Ids : ed[e].prev[id].status = "absent"
    BY <2>1 DEF Init, Pending, Absent, IdleEditor
  <2>3. ListInv
    BY <2>1, <2>2, IdsAssumption DEF ListInv
  <2>4. WalkInv
    BY PassIsNoManual DEF Init, WalkInv, Idle, AtProvider
  <2> QED BY <2>2, <2>3, <2>4 DEF CurrentInv, CurrentIn
<1>2. TypeInv /\ PushInv /\ ListInv /\ WalkInv /\ CurrentInv /\ [Next]_vars
        => ListInv' /\ WalkInv' /\ CurrentInv'
  <2> SUFFICES ASSUME JobInv, [Next]_vars PROVE ListInv' /\ WalkInv' /\ CurrentInv'
    BY DEF JobInv
  <2>0. TypeInv
    BY DEF JobInv
  <2>1. ~Restart
    BY <2>0 DEF Restart, TypeInv, TypeOK
  <2>2. ASSUME NEW p \in Passes, \/ StartPass(p) \/ PassResumes(p)
                                 \/ SourceAnswers(p) \/ ProviderAnswers(p)
        PROVE  ListInv' /\ WalkInv' /\ CurrentInv'
    BY <2>2, JobWalks, JobAnnounces, JobRaises, JobMeasures, JobSkips, JobRefuses,
       JobPushesOne, JobHears
       DEF PassResumes
  <2>3. ASSUME NEW e \in Editors, Edit(e) \/ Rebuild(e)
        PROVE  ListInv' /\ WalkInv' /\ CurrentInv'
    <3>1. ~UpdateDomain(e) /\ ~DeleteDomain(e)
      BY DEF UpdateDomain, DeleteDomain, EditsList
    <3> QED BY <2>3, <3>1, CreatedLast, ToggledCurrent, RebuiltCurrent DEF Edit
  <2>4. CASE FlushState \/ LinkReported \/ AddressMoves \/ UNCHANGED vars
    <3>1. UNCHANGED <<cfg, rt, ed, pub, proc, unborn>>
      BY <2>4 DEF FlushState, LinkReported, AddressMoves, vars
    <3> QED BY <3>1 DEF JobInv, ListInv, WalkInv, CurrentInv, CurrentIn, ToVisit, Ahead,
                        AddressFor, AtProvider
  <2> QED BY <2>0, <2>1, <2>2, <2>3, <2>4, StepsOfJob
<1>3. CurrentInv => SyncedIsCurrent
  <2> SUFFICES ASSUME CurrentInv, Quiet, NEW i \in DOMAIN cfg,
                      rt[cfg[i].id].status = "synced"
               PROVE  rt[cfg[i].id].ip = AddressFor(cfg[i])
    BY DEF SyncedIsCurrent
  <2>1. ~ToVisit(i)
    BY PassIsNoManual DEF Quiet, ToVisit, Ahead
  <2> QED BY <2>1 DEF CurrentInv, CurrentIn
<1>4. Spec => [](ListInv /\ WalkInv /\ CurrentInv)
  BY <1>1, <1>2, TypeInvariant, PushedAddressInvariant, PTL DEF Spec
<1> QED BY <1>3, <1>4, PTL
=============================================================================
