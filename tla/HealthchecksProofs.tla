------------------------- MODULE HealthchecksProofs -------------------------
(***************************************************************************)
(* Proofs about Healthchecks, for every number of projects, checks and     *)
(* requests: type correctness, that a deleted project stays forgotten, that*)
(* the visibility of a check is nobody's but the user's, and, with one     *)
(* update at a time, that what is shown of a project is its own.           *)
(***************************************************************************)
EXTENDS Healthchecks, TLAPS

Pcs == {"idle", "asked", "answered", "saved"}
Answers == {Failed} \cup SUBSET Keys
(* A task that is under way has a project. *)
ProcState == {r \in [pc : Pcs, id : Ids \cup {None}, holds : BOOLEAN, at : Endpoints,
                     ans : Answers, run : BOOLEAN, sets : SUBSET {"url", "key"}] :
                r.pc # "idle" => r.id \in Ids}

(* A poll or a fetch that still holds the object of a project holds that   *)
(* of a listed one, a poll that of its own; a fetch saves an answer only.  *)
Holders == Ids \cup Fetchers

HeldIsListed(t) ==
  /\ proc[t].holds => /\ proc[t].id \in Ids /\ Listed(proc[t].id)
                      /\ t \in Ids => proc[t].id = t
  /\ proc[t].pc = "saved" => proc[t].ans # Failed

HoldInv == \A t \in Holders : HeldIsListed(t)

(* An id is taken once: what is being created is not listed yet, and is    *)
(* nothing another request creates.                                        *)
Creating(c) == proc[c].pc \in {"asked", "answered"}

BirthInv ==
  /\ \A id \in unborn : ~Listed(id)
  /\ \A c \in Creators : Creating(c) =>
       /\ proc[c].id \in Ids /\ ~Listed(proc[c].id) /\ proc[c].id \notin unborn
       /\ \A d \in Creators : d # c /\ Creating(d) => proc[d].id # proc[c].id

(* TypeOK with the type of a task under a name. *)
Typed ==
  /\ config \in [Ids -> Project \cup {None}] /\ rt \in [Ids -> Runtime \cup {None}]
  /\ online \in BOOLEAN /\ jobs \subseteq Ids
  /\ proc \in [Tasks -> ProcState] /\ loop \in Routes \cup {None}
  /\ deleting \subseteq Ids /\ unborn \subseteq Ids
  /\ listing \in [Urls -> SUBSET Keys]
  /\ spent \in [requests : Nat, lists : Nat]

IInv == Typed /\ HoldInv /\ BirthInv

LEMMA TypedIsTypeOK == Typed => TypeOK
BY DEF Typed, TypeOK, ProcState, Pcs, Answers

LEMMA NoneIsNoValue == None \notin Project /\ None \notin Runtime /\ None \notin Ids
BY HealthchecksAssumption

LEMMA TaskClasses ==
  /\ Holders \subseteq Tasks /\ Routes \subseteq Tasks /\ Creators \subseteq Tasks
  /\ Holders \cap Creators = {} /\ Holders \cap Updaters = {} /\ Ids \cap Fetchers = {}
  /\ Updaters \cap Creators = {}
BY HealthchecksAssumption DEF Holders, Tasks, Routes

-----------------------------------------------------------------------------
(* What the operators return *)

LEMMA IdleTypes == Idle \in ProcState /\ Idle.holds = FALSE /\ Idle.pc = "idle"
BY HealthchecksAssumption DEF Idle, ProcState, Pcs, Answers

LEMMA ProjectParts ==
  ASSUME Typed, NEW id \in Ids, Listed(id)
  PROVE  config[id] \in Project /\ config[id].at \in Endpoints /\ config[id].refs \in Refs
BY DEF Typed, Listed, Project

(* A merged list names what was fetched; what was known keeps its choice.  *)
LEMMA MergeTypes ==
  ASSUME NEW refs \in Refs, NEW remote \in SUBSET Keys
  PROVE  /\ MergeRefs(refs, remote) \in Refs
         /\ \A k \in DOMAIN refs \cap DOMAIN MergeRefs(refs, remote) :
              MergeRefs(refs, remote)[k] = refs[k]
<1>1. PICK K \in SUBSET Keys : refs \in [K -> BOOLEAN] BY DEF Refs
<1>2. MergeRefs(refs, remote) \in [remote -> BOOLEAN] BY <1>1 DEF MergeRefs
<1>3. DOMAIN MergeRefs(refs, remote) = remote BY DEF MergeRefs
<1> QED BY <1>2, <1>3 DEF Refs, MergeRefs

LEMMA PreviousTypes ==
  ASSUME Typed, NEW id \in Ids PROVE Previous(id) \in Runtime
<1>1. NeverPolled \in Runtime BY DEF NeverPolled, Runtime
<1>2. rt[id] = None \/ rt[id] \in Runtime BY DEF Typed
<1> QED BY <1>1, <1>2 DEF Previous

LEMMA OutcomeTypes ==
  ASSUME NEW prior \in Runtime, NEW at \in Endpoints, NEW ans \in SUBSET Keys, NEW known
  PROVE  Paused(prior) \in Runtime /\ FailedAfter(prior) \in Runtime
         /\ Succeeded(at, known, ans) \in Runtime
BY DEF Paused, FailedAfter, Succeeded, Runtime

LEMMA WithFieldsTypes ==
  ASSUME NEW at \in Endpoints, NEW new \in Endpoints, NEW sets
  PROVE  WithFields(at, new, sets) \in Endpoints
BY DEF WithFields, Endpoints

LEMMA DetachedKeeps ==
  ASSUME NEW procs \in [Tasks -> ProcState], NEW id
  PROVE  /\ Detached(procs, id) \in [Tasks -> ProcState]
         /\ \A t \in Tasks :
              /\ Detached(procs, id)[t].pc = procs[t].pc
              /\ Detached(procs, id)[t].id = procs[t].id
              /\ Detached(procs, id)[t].ans = procs[t].ans
              /\ Detached(procs, id)[t].at = procs[t].at
              /\ Detached(procs, id)[t].sets = procs[t].sets
              /\ Detached(procs, id)[t].holds => procs[t].holds /\ procs[t].id # id
<1>1. ASSUME NEW t \in Tasks
      PROVE  /\ [procs[t] EXCEPT !.holds = FALSE] \in ProcState
             /\ [procs[t] EXCEPT !.holds = FALSE].pc = procs[t].pc
             /\ [procs[t] EXCEPT !.holds = FALSE].id = procs[t].id
             /\ [procs[t] EXCEPT !.holds = FALSE].ans = procs[t].ans
             /\ [procs[t] EXCEPT !.holds = FALSE].at = procs[t].at
             /\ [procs[t] EXCEPT !.holds = FALSE].sets = procs[t].sets
             /\ [procs[t] EXCEPT !.holds = FALSE].holds = FALSE
  BY DEF ProcState
<1>2. DOMAIN Detached(procs, id) = Tasks BY DEF Detached
<1> QED BY <1>1, <1>2 DEF Detached

-----------------------------------------------------------------------------
(* What a step does to the tasks *)

(* A task of its own moves, the others stay. *)
LEMMA OneMoves ==
  ASSUME NEW procs \in [Tasks -> ProcState], NEW t \in Tasks, NEW r \in ProcState,
         proc' = [procs EXCEPT ![t] = r]
  PROVE  /\ proc' \in [Tasks -> ProcState] /\ proc'[t] = r
         /\ \A u \in Tasks \ {t} : proc'[u] = procs[u]
OBVIOUS

LEMMA AsksMoves ==
  ASSUME Typed, NEW t \in Tasks, NEW id \in Ids, NEW at \in Endpoints,
         NEW sets \in SUBSET {"url", "key"}, Asks(t, id, at, sets)
  PROVE  /\ proc' \in [Tasks -> ProcState]
         /\ proc'[t].pc = "asked" /\ proc'[t].id = id
         /\ proc'[t].at = at /\ proc'[t].sets = sets
         /\ \A u \in Tasks \ {t} : proc'[u] = proc[u]
<1> DEFINE r == [pc |-> "asked", id |-> id, holds |-> TRUE, at |-> at, ans |-> Failed,
                 run |-> FALSE, sets |-> sets]
<1>1. r \in ProcState BY DEF ProcState, Pcs, Answers
<1>2. proc' = [proc EXCEPT ![t] = r] BY DEF Asks
<1>3. /\ proc' \in [Tasks -> ProcState] /\ proc'[t] = r
      /\ \A u \in Tasks \ {t} : proc'[u] = proc[u]
  BY <1>1, <1>2, OneMoves DEF Typed
<1> QED BY <1>3

LEMMA SavesMoves ==
  ASSUME NEW procs \in [Tasks -> ProcState], NEW t \in Tasks, Saves(t, procs),
         procs[t].id \in Ids
  PROVE  /\ proc' \in [Tasks -> ProcState] /\ loop' = t
         /\ proc'[t].pc = "saved" /\ proc'[t].id = procs[t].id
         /\ proc'[t].ans = procs[t].ans /\ proc'[t].holds = procs[t].holds
         /\ proc'[t].at = procs[t].at
         /\ \A u \in Tasks \ {t} : proc'[u] = procs[u]
<1> DEFINE r == [procs[t] EXCEPT !.pc = "saved"]
<1>1. r \in ProcState /\ r.pc = "saved" /\ r.id = procs[t].id /\ r.ans = procs[t].ans
      /\ r.holds = procs[t].holds /\ r.at = procs[t].at
  BY DEF ProcState, Pcs
<1>2. proc' = [procs EXCEPT ![t] = r] /\ loop' = t BY DEF Saves
<1> HIDE DEF r
<1> QED BY <1>1, <1>2, OneMoves

(* A task that ends. *)
LEMMA EndMoves ==
  ASSUME Typed, NEW t \in Tasks, proc' = [proc EXCEPT ![t] = Idle]
  PROVE  /\ proc' \in [Tasks -> ProcState]
         /\ proc'[t].holds = FALSE /\ proc'[t].pc = "idle"
         /\ \A u \in Tasks \ {t} : proc'[u] = proc[u]
BY IdleTypes, OneMoves DEF Typed

-----------------------------------------------------------------------------
(* What the invariant needs of a step *)

Gone(u) == proc'[u].holds = FALSE /\ proc'[u].pc # "saved"

LEMMA HoldersStay ==
  ASSUME Typed, HoldInv, \A id \in Ids : Listed(id) => Listed(id)',
         \A u \in Holders : proc'[u] = proc[u] \/ Gone(u) \/ HeldIsListed(u)'
  PROVE  HoldInv'
<1> SUFFICES ASSUME NEW u \in Holders PROVE HeldIsListed(u)' BY DEF HoldInv
<1>1. CASE proc'[u] = proc[u]
  BY <1>1 DEF HoldInv, HeldIsListed
<1>2. CASE Gone(u)
  BY <1>2 DEF Gone, HeldIsListed
<1> QED BY <1>1, <1>2

(* Holders may lose their object, and must if it leaves the list. *)
LEMMA HoldersLose ==
  ASSUME HoldInv, \A u \in Holders :
           /\ proc'[u].pc = proc[u].pc /\ proc'[u].id = proc[u].id
           /\ proc'[u].ans = proc[u].ans
           /\ proc'[u].holds => proc[u].holds /\ config'[proc[u].id] # None
  PROVE  HoldInv'
<1> SUFFICES ASSUME NEW u \in Holders PROVE HeldIsListed(u)' BY DEF HoldInv
<1>1. HeldIsListed(u) BY DEF HoldInv
<1> QED BY <1>1 DEF HeldIsListed, Listed

LEMMA BirthsStay ==
  ASSUME BirthInv, unborn \subseteq Ids, UNCHANGED unborn,
         \A id \in Ids : Listed(id)' => Listed(id),
         \A c \in Creators : Creating(c)' => Creating(c) /\ proc'[c].id = proc[c].id
  PROVE  BirthInv'
BY DEF BirthInv

LEMMA ProjectSet ==
  ASSUME Typed, NEW i \in Ids, NEW p \in Project, config' = [config EXCEPT ![i] = p]
  PROVE  /\ config' \in [Ids -> Project \cup {None}]
         /\ config'[i] = p /\ config'[i] # None
         /\ \A j \in Ids \ {i} : config'[j] = config[j]
BY NoneIsNoValue DEF Typed, Listed

LEMMA RuntimeSet ==
  ASSUME Typed, NEW i \in Ids, NEW r \in Runtime, rt' = [rt EXCEPT ![i] = r]
  PROVE  rt' \in [Ids -> Runtime \cup {None}]
BY DEF Typed

-----------------------------------------------------------------------------
(* The steps of a poll *)
LEMMA PollTickInv == ASSUME IInv, NEW id \in Ids, PollTick(id) PROVE IInv'
<1>1. Typed /\ HoldInv /\ BirthInv /\ id \in Tasks BY DEF IInv, Tasks
<1>2. UNCHANGED <<config, online, jobs, loop, deleting, unborn, listing, spent>>
  BY DEF PollTick
<1>3. CASE UNCHANGED <<rt, proc>>
  BY <1>1, <1>2, <1>3 DEF IInv, Typed, HoldInv, HeldIsListed, BirthInv, Listed, Creating
<1>4. CASE PollPauses(id) /\ UNCHANGED proc
  <2>1. rt' \in [Ids -> Runtime \cup {None}]
    <3>1. Paused(Previous(id)) \in Runtime
      BY <1>1, PreviousTypes DEF Paused, Runtime
    <3> QED BY <1>1, <1>4, <3>1, RuntimeSet DEF PollPauses
  <2> QED BY <1>1, <1>2, <1>4, <2>1
          DEF IInv, Typed, HoldInv, HeldIsListed, BirthInv, Listed, Creating
<1>5. CASE Listed(id) /\ Asks(id, id, config[id].at, {}) /\ UNCHANGED rt
  <2>1. /\ proc' \in [Tasks -> ProcState]
        /\ proc'[id].pc = "asked" /\ proc'[id].id = id
        /\ \A u \in Tasks \ {id} : proc'[u] = proc[u]
    BY <1>1, <1>5, ProjectParts, AsksMoves
  <2>2. Typed' BY <1>1, <1>2, <1>5, <2>1 DEF Typed
  <2>3. HeldIsListed(id)' BY <1>2, <1>5, <2>1 DEF HeldIsListed, Listed
  <2>4. HoldInv' BY <1>1, <1>2, <2>1, <2>3, HoldersStay, TaskClasses DEF Listed
  <2>5. \A c \in Creators : proc'[c] = proc[c]
    BY <2>1, TaskClasses DEF Holders
  <2>6. BirthInv'
    BY <1>1, <1>2, <2>5, BirthsStay DEF Listed, Creating, Typed
  <2> QED BY <2>2, <2>4, <2>6 DEF IInv
<1> QED BY <1>3, <1>4, <1>5 DEF PollTick

LEMMA PollResumesInv == ASSUME IInv, NEW id \in Ids, PollResumes(id) PROVE IInv'
<1>1. Typed /\ HoldInv /\ BirthInv /\ id \in Tasks BY DEF IInv, Tasks
<1>2. UNCHANGED <<config, online, jobs, loop, deleting, unborn, listing, spent>>
  BY DEF PollResumes
<1>3. /\ proc' \in [Tasks -> ProcState]
      /\ Gone(id)
      /\ \A u \in Tasks \ {id} : proc'[u] = proc[u]
  BY <1>1, EndMoves DEF PollResumes, Gone
<1>4. rt' \in [Ids -> Runtime \cup {None}]
  <2>1. CASE ~StillListed(proc[id]) BY <1>1, <2>1 DEF PollResumes, Typed
  <2>2. CASE StillListed(proc[id])
    <3> DEFINE known == DOMAIN config[id].refs
    <3>1. proc[id].at \in Endpoints /\ proc[id].ans \in Answers
      BY <1>1 DEF Typed, ProcState
    <3>2. CASE proc[id].ans = Failed
      <4>1. FailedAfter(Previous(id)) \in Runtime
        BY <1>1, PreviousTypes DEF FailedAfter, Runtime
      <4>2. rt' = [rt EXCEPT ![id] = FailedAfter(Previous(id))]
        BY <2>2, <3>2 DEF PollResumes
      <4> QED BY <1>1, <4>1, <4>2, RuntimeSet
    <3>3. CASE proc[id].ans # Failed
      <4>1. Succeeded(proc[id].at, known, proc[id].ans) \in Runtime
        BY <3>1, <3>3 DEF Answers, Succeeded, Runtime
      <4>2. rt' = [rt EXCEPT ![id] = Succeeded(proc[id].at, known, proc[id].ans)]
        BY <2>2, <3>3 DEF PollResumes
      <4> QED BY <1>1, <4>1, <4>2, RuntimeSet
    <3> QED BY <3>2, <3>3
  <2> QED BY <2>1, <2>2
<1>5. Typed' BY <1>1, <1>2, <1>3, <1>4 DEF Typed
<1>6. HoldInv' BY <1>1, <1>2, <1>3, HoldersStay, TaskClasses DEF Listed
<1>7. \A c \in Creators : proc'[c] = proc[c]
  BY <1>3, TaskClasses DEF Holders
<1>8. BirthInv' BY <1>1, <1>2, <1>7, BirthsStay DEF Listed, Creating, Typed
<1> QED BY <1>5, <1>6, <1>8 DEF IInv

LEMMA UpstreamAnswersInv ==
  ASSUME IInv, NEW t \in Tasks, UpstreamAnswers(t) PROVE IInv'
<1>1. Typed /\ HoldInv /\ BirthInv BY DEF IInv
<1>2. UNCHANGED <<config, rt, online, jobs, loop, deleting, unborn, listing, spent>>
  BY DEF UpstreamAnswers
<1>3. PICK ans \in {Failed} \cup (IF proc[t].at \in Valid
                                 THEN {listing[proc[t].at[1]]} ELSE {}) :
        proc' = [proc EXCEPT ![t].pc = "answered", ![t].ans = ans]
  BY DEF UpstreamAnswers
<1>4. ans \in Answers
  <2>1. proc[t].at \in Endpoints BY <1>1 DEF Typed, ProcState
  <2>2. proc[t].at[1] \in Urls BY <2>1 DEF Endpoints
  <2> QED BY <1>1, <1>3, <2>2 DEF Typed, Answers
<1> DEFINE r == [proc[t] EXCEPT !.pc = "answered", !.ans = ans]
<1>5. proc[t] \in ProcState /\ proc[t].pc = "asked"
  BY <1>1 DEF Typed, UpstreamAnswers
<1>6. r \in ProcState /\ r.pc = "answered" /\ r.id = proc[t].id /\ r.holds = proc[t].holds
  BY <1>4, <1>5 DEF ProcState, Pcs
<1>7. proc' = [proc EXCEPT ![t] = r] BY <1>1, <1>3 DEF Typed
<1> HIDE DEF r
<1>8. /\ proc' \in [Tasks -> ProcState] /\ proc'[t] = r
      /\ \A u \in Tasks \ {t} : proc'[u] = proc[u]
  BY <1>1, <1>6, <1>7, OneMoves DEF Typed
<1>9. Typed' BY <1>1, <1>2, <1>8 DEF Typed
<1>10. t \in Holders => HeldIsListed(t)'
  BY <1>1, <1>2, <1>6, <1>8 DEF HoldInv, HeldIsListed, Listed
<1>11. HoldInv' BY <1>1, <1>2, <1>8, <1>10, HoldersStay, TaskClasses DEF Listed
<1>12. \A c \in Creators : Creating(c)' => Creating(c) /\ proc'[c].id = proc[c].id
  BY <1>5, <1>6, <1>8, TaskClasses DEF Creating
<1>13. BirthInv' BY <1>1, <1>2, <1>12, BirthsStay DEF Listed, Typed
<1> QED BY <1>9, <1>11, <1>13 DEF IInv

-----------------------------------------------------------------------------
(* The steps of a fetch *)
LEMMA StartFetchInv ==
  ASSUME IInv, NEW f \in Fetchers, NEW id \in Ids, StartFetch(f, id) PROVE IInv'
<1>1. Typed /\ HoldInv /\ BirthInv /\ f \in Tasks /\ f \notin Ids /\ Listed(id)
  BY TaskClasses DEF IInv, Tasks, Routes, StartFetch
<1>2. UNCHANGED <<config, rt, online, jobs, loop, deleting, unborn, listing>>
      /\ Asks(f, id, config[id].at, {})
  BY DEF StartFetch
<1>3. spent' \in [requests : Nat, lists : Nat]
  BY <1>1 DEF StartFetch, Requests, Typed
<1>4. /\ proc' \in [Tasks -> ProcState]
      /\ proc'[f].pc = "asked" /\ proc'[f].id = id
      /\ \A u \in Tasks \ {f} : proc'[u] = proc[u]
  BY <1>1, <1>2, ProjectParts, AsksMoves
<1>5. Typed' BY <1>1, <1>2, <1>3, <1>4 DEF Typed
<1>6. HeldIsListed(f)' BY <1>1, <1>2, <1>4 DEF HeldIsListed, Listed
<1>7. HoldInv' BY <1>1, <1>2, <1>4, <1>6, HoldersStay, TaskClasses DEF Listed
<1>8. \A c \in Creators : proc'[c] = proc[c]
  BY <1>4, TaskClasses DEF Holders
<1>9. BirthInv' BY <1>1, <1>2, <1>8, BirthsStay DEF Listed, Creating, Typed
<1> QED BY <1>5, <1>7, <1>9 DEF IInv

LEMMA FetchResumesInv == ASSUME IInv, NEW f \in Fetchers, FetchResumes(f) PROVE IInv'
<1>1. Typed /\ HoldInv /\ BirthInv /\ f \in Tasks /\ f \in Holders /\ f \in Routes
  BY DEF IInv, Tasks, Routes, Holders
<1>2. UNCHANGED <<rt, online, jobs, deleting, unborn, listing, spent>>
  BY DEF FetchResumes
<1>3. CASE proc' = [proc EXCEPT ![f] = Idle] /\ UNCHANGED <<config, loop>>
  <2>1. /\ proc' \in [Tasks -> ProcState] /\ Gone(f)
        /\ \A u \in Tasks \ {f} : proc'[u] = proc[u]
    BY <1>1, <1>3, EndMoves DEF Gone
  <2>2. Typed' BY <1>1, <1>2, <1>3, <2>1 DEF Typed
  <2>3. HoldInv' BY <1>1, <1>3, <2>1, HoldersStay, TaskClasses DEF Listed
  <2>4. \A c \in Creators : proc'[c] = proc[c]
    BY <2>1, TaskClasses DEF Holders
  <2>5. BirthInv' BY <1>1, <1>2, <1>3, <2>4, BirthsStay DEF Listed, Creating, Typed
  <2> QED BY <2>2, <2>3, <2>5 DEF IInv
<1>4. CASE proc[f].ans # Failed /\ StillListed(proc[f])
  <2> DEFINE i == proc[f].id
             p == [config[i] EXCEPT !.refs = MergeRefs(config[i].refs, proc[f].ans)]
  <2>1. i \in Ids /\ Listed(i)
    BY <1>1, <1>4 DEF HoldInv, HeldIsListed, StillListed
  <2>2. p \in Project
    <3>1. proc[f].ans \in SUBSET Keys BY <1>1, <1>4 DEF Typed, ProcState, Answers
    <3>2. config[i] \in Project /\ config[i].refs \in Refs BY <1>1, <2>1, ProjectParts
    <3>3. MergeRefs(config[i].refs, proc[f].ans) \in Refs BY <3>1, <3>2, MergeTypes
    <3> QED BY <3>2, <3>3 DEF Project
  <2>3. config' = [config EXCEPT ![i] = p] /\ Saves(f, proc)
    BY <1>1, <1>4 DEF FetchResumes, Typed
  <2> proc[f].id \in Ids BY <2>1
  <2>4. /\ proc' \in [Tasks -> ProcState] /\ loop' = f
        /\ proc'[f].pc = "saved" /\ proc'[f].id = proc[f].id
        /\ proc'[f].ans = proc[f].ans /\ proc'[f].holds = proc[f].holds
        /\ \A u \in Tasks \ {f} : proc'[u] = proc[u]
    BY <1>1, <2>3, SavesMoves DEF Typed
  <2> HIDE DEF p
  <2>5. /\ config' \in [Ids -> Project \cup {None}] /\ config'[i] # None
        /\ \A j \in Ids \ {i} : config'[j] = config[j]
    BY <1>1, <2>1, <2>2, <2>3, ProjectSet DEF Listed
  <2>6. Typed' BY <1>1, <1>2, <2>4, <2>5 DEF Typed
  <2>7. \A j \in Ids : Listed(j)' <=> Listed(j)
    BY <2>1, <2>5 DEF Listed
  <2>8. HeldIsListed(f)'
    <3>1. HeldIsListed(f) BY <1>1 DEF HoldInv
    <3> QED BY <1>4, <2>1, <2>4, <2>5, <3>1 DEF HeldIsListed, Listed
  <2>9. HoldInv' BY <1>1, <2>4, <2>7, <2>8, HoldersStay, TaskClasses
  <2>10. \A c \in Creators : proc'[c] = proc[c]
    BY <1>1, <2>4, TaskClasses
  <2>11. BirthInv' BY <1>1, <1>2, <2>7, <2>10, BirthsStay DEF Creating, Typed
  <2> QED BY <2>6, <2>9, <2>11 DEF IInv
<1> QED BY <1>3, <1>4 DEF FetchResumes

LEMMA FetchRecordsInv == ASSUME IInv, NEW f \in Fetchers, FetchRecords(f) PROVE IInv'
<1>1. Typed /\ HoldInv /\ BirthInv /\ f \in Tasks /\ f \in Holders
  BY DEF IInv, Tasks, Routes, Holders
<1>2. UNCHANGED <<config, online, jobs, deleting, unborn, listing, spent>>
      /\ loop' = None
  BY DEF FetchRecords
<1>3. /\ proc' \in [Tasks -> ProcState] /\ Gone(f)
      /\ \A u \in Tasks \ {f} : proc'[u] = proc[u]
  BY <1>1, EndMoves DEF Gone, FetchRecords
<1>4. rt' \in [Ids -> Runtime \cup {None}]
  <2>1. proc[f].ans # Failed
    BY <1>1 DEF HoldInv, HeldIsListed, FetchRecords
  <2>2. proc[f].ans \in SUBSET Keys /\ proc[f].at \in Endpoints
    BY <1>1, <2>1 DEF Typed, ProcState, Answers
  <2>3. Succeeded(proc[f].at, proc[f].ans, proc[f].ans) \in Runtime
    BY <2>2 DEF Succeeded, Runtime
  <2> QED BY <1>1, <2>3 DEF FetchRecords, Typed
<1>5. Typed' BY <1>1, <1>2, <1>3, <1>4 DEF Typed
<1>6. HoldInv' BY <1>1, <1>2, <1>3, HoldersStay, TaskClasses DEF Listed
<1>7. \A c \in Creators : proc'[c] = proc[c]
  BY <1>1, <1>3, TaskClasses
<1>8. BirthInv' BY <1>1, <1>2, <1>7, BirthsStay DEF Listed, Creating, Typed
<1> QED BY <1>5, <1>6, <1>8 DEF IInv

-----------------------------------------------------------------------------
(* The steps of an update *)
LEMMA UpdateInPlaceInv ==
  ASSUME IInv, NEW u \in Updaters, NEW id \in Ids, NEW run \in BOOLEAN,
         UpdateInPlace(u, id, run)
  PROVE  IInv'
<1> DEFINE r == [Idle EXCEPT !.id = id, !.run = run]
           procs == [Detached(proc, id) EXCEPT ![u] = r]
<1>1. /\ Typed /\ HoldInv /\ BirthInv
      /\ u \in Tasks /\ u \in Routes /\ u \notin Holders /\ u \notin Creators
  BY TaskClasses DEF IInv, Tasks, Routes
<1>2. UNCHANGED <<config, rt, online, jobs, deleting, unborn, listing>>
      /\ Saves(u, procs)
  BY DEF UpdateInPlace
<1>3. spent' \in [requests : Nat, lists : Nat]
  BY <1>1 DEF UpdateInPlace, Requests, Typed
<1>4. r \in ProcState /\ r.id = id BY IdleTypes DEF ProcState
<1>5. Detached(proc, id) \in [Tasks -> ProcState]
  BY <1>1, DetachedKeeps DEF Typed
<1> HIDE DEF r
<1>6. /\ procs \in [Tasks -> ProcState] /\ procs[u].id \in Ids
      /\ \A v \in Tasks \ {u} : procs[v] = Detached(proc, id)[v]
  BY <1>1, <1>4, <1>5
<1> HIDE DEF procs
<1>7. /\ proc' \in [Tasks -> ProcState] /\ loop' = u
      /\ \A v \in Tasks \ {u} : proc'[v] = Detached(proc, id)[v]
  BY <1>1, <1>2, <1>6, SavesMoves
<1>8. \A v \in Tasks \ {u} :
        /\ proc'[v].pc = proc[v].pc /\ proc'[v].id = proc[v].id
        /\ proc'[v].ans = proc[v].ans
        /\ proc'[v].holds => proc[v].holds
  BY <1>1, <1>7, DetachedKeeps DEF Typed
<1>9. Typed' BY <1>1, <1>2, <1>3, <1>7 DEF Typed
<1>10. HoldInv'
  <2>1. \A v \in Holders : proc[v].holds => config'[proc[v].id] # None
    BY <1>1, <1>2 DEF HoldInv, HeldIsListed, Listed
  <2>2. \A v \in Holders :
          /\ proc'[v].pc = proc[v].pc /\ proc'[v].id = proc[v].id
          /\ proc'[v].ans = proc[v].ans
          /\ proc'[v].holds => proc[v].holds /\ config'[proc[v].id] # None
    BY <1>1, <1>8, <2>1, TaskClasses
  <2> QED BY <1>1, <2>2, HoldersLose
<1>11. BirthInv'
  <2>1. \A c \in Creators : Creating(c)' => Creating(c) /\ proc'[c].id = proc[c].id
    BY <1>1, <1>8, TaskClasses DEF Creating
  <2> QED BY <1>1, <1>2, <2>1, BirthsStay DEF Listed, Typed
<1> QED BY <1>9, <1>10, <1>11 DEF IInv

LEMMA StartUpdateInv ==
  ASSUME IInv, NEW u \in Updaters, NEW id \in Ids, NEW new \in Endpoints,
         NEW sets \in FieldSets, StartUpdate(u, id, new, sets)
  PROVE  IInv'
<1> DEFINE at == WithFields(config[id].at, new, sets)
<1>1. /\ Typed /\ HoldInv /\ BirthInv
      /\ u \in Tasks /\ u \in Routes /\ u \notin Holders /\ u \notin Creators
  BY TaskClasses DEF IInv, Tasks, Routes
<1>2. UNCHANGED <<config, rt, online, jobs, loop, deleting, unborn, listing>>
      /\ Asks(u, id, at, sets)
  BY DEF StartUpdate
<1>3. spent' \in [requests : Nat, lists : Nat]
  BY <1>1 DEF StartUpdate, Requests, Typed
<1>4. at \in Endpoints /\ sets \in SUBSET {"url", "key"}
  BY <1>1, ProjectParts, WithFieldsTypes, HealthchecksAssumption DEF StartUpdate
<1> HIDE DEF at
<1>5. /\ proc' \in [Tasks -> ProcState]
      /\ \A v \in Tasks \ {u} : proc'[v] = proc[v]
  BY <1>1, <1>2, <1>4, AsksMoves
<1>6. Typed' BY <1>1, <1>2, <1>3, <1>5 DEF Typed
<1>7. HoldInv' BY <1>1, <1>2, <1>5, HoldersStay, TaskClasses DEF Listed
<1>8. \A c \in Creators : proc'[c] = proc[c]
  BY <1>1, <1>5, TaskClasses
<1>9. BirthInv' BY <1>1, <1>2, <1>8, BirthsStay DEF Listed, Creating, Typed
<1> QED BY <1>6, <1>7, <1>9 DEF IInv

LEMMA UpdateResumesInv == ASSUME IInv, NEW u \in Updaters, UpdateResumes(u) PROVE IInv'
<1> DEFINE i == proc[u].id
<1>1. /\ Typed /\ HoldInv /\ BirthInv
      /\ u \in Tasks /\ u \in Routes /\ u \notin Holders /\ u \notin Creators
  BY TaskClasses DEF IInv, Tasks, Routes
<1>2. UNCHANGED <<rt, online, jobs, deleting, unborn, listing, spent>>
  BY DEF UpdateResumes
<1>3. CASE proc' = [proc EXCEPT ![u] = Idle] /\ UNCHANGED <<config, loop>>
  <2>1. /\ proc' \in [Tasks -> ProcState]
        /\ \A v \in Tasks \ {u} : proc'[v] = proc[v]
    BY <1>1, <1>3, EndMoves
  <2>2. Typed' BY <1>1, <1>2, <1>3, <2>1 DEF Typed
  <2>3. HoldInv' BY <1>1, <1>3, <2>1, HoldersStay, TaskClasses DEF Listed
  <2>4. \A c \in Creators : proc'[c] = proc[c] BY <1>1, <2>1, TaskClasses
  <2>5. BirthInv' BY <1>1, <1>2, <1>3, <2>4, BirthsStay DEF Listed, Creating, Typed
  <2> QED BY <2>2, <2>3, <2>5 DEF IInv
<1>4. i \in Ids BY <1>1 DEF Typed, ProcState, UpdateResumes
<1>5. CASE proc[u].ans # Failed /\ Listed(i)
  <2> DEFINE p == [at |-> WithFields(config[i].at, proc[u].at, proc[u].sets),
                   refs |-> MergeRefs(config[i].refs, proc[u].ans)]
  <2>1. p \in Project
    <3>1. proc[u].ans \in SUBSET Keys /\ proc[u].at \in Endpoints
      BY <1>1, <1>5 DEF Typed, ProcState, Answers
    <3>2. config[i].at \in Endpoints /\ config[i].refs \in Refs
      BY <1>1, <1>4, <1>5, ProjectParts
    <3>3. MergeRefs(config[i].refs, proc[u].ans) \in Refs BY <3>1, <3>2, MergeTypes
    <3>4. WithFields(config[i].at, proc[u].at, proc[u].sets) \in Endpoints
      BY <3>1, <3>2, WithFieldsTypes
    <3> QED BY <3>3, <3>4 DEF Project
  <2>2. config' = [config EXCEPT ![i] = p] /\ Saves(u, Detached(proc, i))
    BY <1>1, <1>5 DEF UpdateResumes, Typed
  <2> HIDE DEF p
  <2>3. /\ config' \in [Ids -> Project \cup {None}] /\ config'[i] # None
        /\ \A j \in Ids \ {i} : config'[j] = config[j]
    BY <1>1, <1>4, <2>1, <2>2, ProjectSet DEF Listed
  <2>4. Detached(proc, i) \in [Tasks -> ProcState] /\ Detached(proc, i)[u].id \in Ids
    BY <1>1, <1>4, DetachedKeeps DEF Typed
  <2>5. /\ proc' \in [Tasks -> ProcState] /\ loop' = u
        /\ \A v \in Tasks \ {u} : proc'[v] = Detached(proc, i)[v]
    BY <1>1, <2>2, <2>4, SavesMoves
  <2>6. \A v \in Tasks \ {u} :
          /\ proc'[v].pc = proc[v].pc /\ proc'[v].id = proc[v].id
          /\ proc'[v].ans = proc[v].ans
          /\ proc'[v].holds => proc[v].holds
    BY <1>1, <2>5, DetachedKeeps DEF Typed
  <2>7. Typed' BY <1>1, <1>2, <2>3, <2>5 DEF Typed
  <2>8. \A j \in Ids : Listed(j)' <=> Listed(j) BY <1>4, <1>5, <2>3 DEF Listed
  <2>9. HoldInv'
    <3>1. \A v \in Holders : proc[v].holds => config'[proc[v].id] # None
      BY <1>1, <2>8 DEF HoldInv, HeldIsListed, Listed
    <3>2. \A v \in Holders :
            /\ proc'[v].pc = proc[v].pc /\ proc'[v].id = proc[v].id
            /\ proc'[v].ans = proc[v].ans
            /\ proc'[v].holds => proc[v].holds /\ config'[proc[v].id] # None
      BY <1>1, <2>6, <3>1, TaskClasses
    <3> QED BY <1>1, <3>2, HoldersLose
  <2>10. BirthInv'
    <3>1. \A c \in Creators : Creating(c)' => Creating(c) /\ proc'[c].id = proc[c].id
      BY <1>1, <2>6, TaskClasses DEF Creating
    <3> QED BY <1>1, <1>2, <2>8, <3>1, BirthsStay DEF Typed
  <2> QED BY <2>7, <2>9, <2>10 DEF IInv
<1> QED BY <1>3, <1>5 DEF UpdateResumes

-----------------------------------------------------------------------------
(* The steps of a creation, and the end of a route *)
LEMMA StartCreateInv ==
  ASSUME IInv, NEW c \in Creators, NEW id \in Ids, NEW at \in Endpoints,
         StartCreate(c, id, at)
  PROVE  IInv'
<1>1. /\ Typed /\ HoldInv /\ BirthInv
      /\ c \in Tasks /\ c \in Routes /\ c \notin Holders /\ id \in unborn
  BY TaskClasses DEF IInv, Tasks, Routes, StartCreate
<1>2. UNCHANGED <<config, rt, online, jobs, loop, deleting, listing>>
      /\ unborn' = unborn \ {id} /\ Asks(c, id, at, {})
  BY DEF StartCreate
<1>3. spent' \in [requests : Nat, lists : Nat]
  BY <1>1 DEF StartCreate, Requests, Typed
<1>4. /\ proc' \in [Tasks -> ProcState]
      /\ proc'[c].pc = "asked" /\ proc'[c].id = id
      /\ \A v \in Tasks \ {c} : proc'[v] = proc[v]
  BY <1>1, <1>2, AsksMoves
<1>5. Typed' BY <1>1, <1>2, <1>3, <1>4 DEF Typed
<1>6. HoldInv' BY <1>1, <1>2, <1>4, HoldersStay, TaskClasses DEF Listed
<1>7. ~Listed(id) BY <1>1 DEF BirthInv
<1>8. \A d \in Creators \ {c} :
        /\ proc'[d] = proc[d]
        /\ Creating(d) => proc[d].id # id
  BY <1>1, <1>4, TaskClasses DEF BirthInv
<1>9. BirthInv'
  BY <1>1, <1>2, <1>4, <1>7, <1>8 DEF BirthInv, Creating, Listed
<1> QED BY <1>5, <1>6, <1>9 DEF IInv

LEMMA CreateResumesInv == ASSUME IInv, NEW c \in Creators, CreateResumes(c) PROVE IInv'
<1> DEFINE i == proc[c].id
<1>1. /\ Typed /\ HoldInv /\ BirthInv
      /\ c \in Tasks /\ c \in Routes /\ c \notin Holders /\ Creating(c)
  BY TaskClasses DEF IInv, Tasks, Routes, CreateResumes, Creating
<1>2. UNCHANGED <<rt, online, jobs, deleting, unborn, listing, spent>>
  BY DEF CreateResumes
<1>3. CASE proc' = [proc EXCEPT ![c] = Idle] /\ UNCHANGED <<config, loop>>
  <2>1. /\ proc' \in [Tasks -> ProcState] /\ proc'[c].pc = "idle"
        /\ \A v \in Tasks \ {c} : proc'[v] = proc[v]
    BY <1>1, <1>3, EndMoves
  <2>2. Typed' BY <1>1, <1>2, <1>3, <2>1 DEF Typed
  <2>3. HoldInv' BY <1>1, <1>3, <2>1, HoldersStay, TaskClasses DEF Listed
  <2>4. \A d \in Creators : Creating(d)' => Creating(d) /\ proc'[d].id = proc[d].id
    BY <1>1, <2>1, TaskClasses DEF Creating
  <2>5. BirthInv' BY <1>1, <1>2, <1>3, <2>4, BirthsStay DEF Listed, Typed
  <2> QED BY <2>2, <2>3, <2>5 DEF IInv
<1>4. CASE proc[c].ans # Failed
  <2> DEFINE p == [at |-> proc[c].at, refs |-> [k \in proc[c].ans |-> TRUE]]
  <2>1. i \in Ids /\ ~Listed(i) /\ i \notin unborn BY <1>1 DEF BirthInv
  <2>2. p \in Project
    <3>1. proc[c].ans \in SUBSET Keys /\ proc[c].at \in Endpoints
      BY <1>1, <1>4 DEF Typed, ProcState, Answers
    <3>2. [k \in proc[c].ans |-> TRUE] \in [proc[c].ans -> BOOLEAN] OBVIOUS
    <3>3. [k \in proc[c].ans |-> TRUE] \in Refs BY <3>1, <3>2 DEF Refs
    <3> QED BY <3>1, <3>3 DEF Project
  <2>3. config' = [config EXCEPT ![i] = p] /\ Saves(c, proc)
    BY <1>4 DEF CreateResumes
  <2> HIDE DEF p
  <2>4. /\ config' \in [Ids -> Project \cup {None}] /\ config'[i] # None
        /\ \A j \in Ids \ {i} : config'[j] = config[j]
    BY <1>1, <2>1, <2>2, <2>3, ProjectSet DEF Listed
  <2>5. /\ proc' \in [Tasks -> ProcState] /\ loop' = c
        /\ proc'[c].pc = "saved"
        /\ \A v \in Tasks \ {c} : proc'[v] = proc[v]
    <3>1. proc[c].id \in Ids BY <2>1
    <3> QED BY <1>1, <2>3, <3>1, SavesMoves DEF Typed
  <2>6. Typed' BY <1>1, <1>2, <2>4, <2>5 DEF Typed
  <2>7. \A j \in Ids : config[j] # None => config'[j] # None
    BY <2>4
  <2>8. HoldInv' BY <1>1, <2>5, <2>7, HoldersStay, TaskClasses DEF Listed
  <2>9. \A d \in Creators \ {c} :
          /\ proc'[d] = proc[d]
          /\ Creating(d) => proc[d].id # i
    BY <1>1, <2>5, TaskClasses DEF BirthInv
  <2>10. BirthInv'
    <3>1. \A id \in unborn : config'[id] = None
      BY <1>1, <2>1, <2>4 DEF BirthInv, Listed, Typed
    <3> QED BY <1>1, <1>2, <2>4, <2>5, <2>9, <3>1 DEF BirthInv, Creating, Listed
  <2> QED BY <2>6, <2>8, <2>10 DEF IInv
<1> QED BY <1>3, <1>4 DEF CreateResumes

LEMMA RouteFinishesInv == ASSUME IInv, NEW t \in Tasks, RouteFinishes(t) PROVE IInv'
<1>1. /\ Typed /\ HoldInv /\ BirthInv
      /\ t \in Updaters \cup Creators /\ t \notin Holders
  BY TaskClasses DEF IInv, RouteFinishes
<1>2. UNCHANGED <<config, online, deleting, unborn, listing, spent>> /\ loop' = None
  BY DEF RouteFinishes
<1>3. /\ proc' \in [Tasks -> ProcState] /\ proc'[t].pc = "idle"
      /\ \A v \in Tasks \ {t} : proc'[v] = proc[v]
  BY <1>1, EndMoves DEF RouteFinishes
<1>4. proc[t] \in ProcState /\ proc[t].id \in Ids
  BY <1>1 DEF Typed, ProcState, RouteFinishes
<1>5. jobs' \subseteq Ids
  BY <1>1, <1>4 DEF RouteFinishes, Schedules, Typed
<1>6. rt' \in [Ids -> Runtime \cup {None}]
  <2>1. CASE proc[t].ans = Failed BY <1>1, <2>1 DEF RouteFinishes, Typed
  <2>2. CASE proc[t].ans # Failed
    <3>1. proc[t].ans \in SUBSET Keys /\ proc[t].at \in Endpoints
      BY <1>4, <2>2 DEF ProcState, Answers
    <3>2. Succeeded(proc[t].at, proc[t].ans, proc[t].ans) \in Runtime
      BY <3>1 DEF Succeeded, Runtime
    <3> QED BY <1>1, <2>2, <3>2 DEF RouteFinishes, Typed
  <2> QED BY <2>1, <2>2
<1>7. Typed' BY <1>1, <1>2, <1>3, <1>5, <1>6 DEF Typed
<1>8. HoldInv' BY <1>1, <1>2, <1>3, HoldersStay, TaskClasses DEF Listed
<1>9. \A d \in Creators : Creating(d)' => Creating(d) /\ proc'[d].id = proc[d].id
  BY <1>1, <1>3, TaskClasses DEF Creating
<1>10. BirthInv' BY <1>1, <1>2, <1>9, BirthsStay DEF Listed, Typed
<1> QED BY <1>7, <1>8, <1>10 DEF IInv

-----------------------------------------------------------------------------
(* The steps of the threads, the link and upstream *)
LEMMA DeleteRemovesInv == ASSUME IInv, NEW id \in Ids, DeleteRemoves(id) PROVE IInv'
<1>1. Typed /\ HoldInv /\ BirthInv BY DEF IInv
<1>2. UNCHANGED <<rt, online, jobs, loop, unborn, listing>>
      /\ config' = [config EXCEPT ![id] = None] /\ proc' = Detached(proc, id)
      /\ deleting' = deleting \cup {id}
  BY DEF DeleteRemoves
<1>3. spent' \in [requests : Nat, lists : Nat]
  BY <1>1 DEF DeleteRemoves, Typed
<1>4. /\ config' \in [Ids -> Project \cup {None}] /\ config'[id] = None
      /\ \A j \in Ids \ {id} : config'[j] = config[j]
  BY <1>1, <1>2 DEF Typed
<1>5. /\ proc' \in [Tasks -> ProcState]
      /\ \A t \in Tasks :
           /\ proc'[t].pc = proc[t].pc
           /\ proc'[t].id = proc[t].id
           /\ proc'[t].ans = proc[t].ans
           /\ proc'[t].holds => proc[t].holds /\ proc[t].id # id
  BY <1>1, <1>2, DetachedKeeps DEF Typed
<1>6. Typed' BY <1>1, <1>2, <1>3, <1>4, <1>5 DEF Typed
<1>7. HoldInv'
  <2>1. \A v \in Holders :
          /\ proc'[v].pc = proc[v].pc /\ proc'[v].id = proc[v].id
          /\ proc'[v].ans = proc[v].ans
          /\ proc'[v].holds => proc[v].holds /\ config'[proc[v].id] # None
    BY <1>1, <1>4, <1>5, TaskClasses DEF HoldInv, HeldIsListed, Listed
  <2> QED BY <1>1, <2>1, HoldersLose
<1>8. \A d \in Creators : Creating(d)' => Creating(d) /\ proc'[d].id = proc[d].id
  BY <1>5, TaskClasses DEF Creating
<1>9. BirthInv' BY <1>1, <1>2, <1>4, <1>8, BirthsStay DEF Listed, Typed
<1> QED BY <1>6, <1>7, <1>9 DEF IInv

LEMMA SetVisibleInv ==
  ASSUME IInv, NEW id \in Ids, NEW k \in Keys, SetVisible(id, k) PROVE IInv'
<1> DEFINE refs == [config[id].refs EXCEPT ![k] = ~config[id].refs[k]]
           p == [config[id] EXCEPT !.refs = refs]
<1>1. Typed /\ HoldInv /\ BirthInv /\ Listed(id) BY DEF IInv, SetVisible
<1>2. UNCHANGED <<rt, online, jobs, proc, loop, deleting, unborn, listing>>
  BY DEF SetVisible
<1>3. spent' \in [requests : Nat, lists : Nat]
  BY <1>1 DEF SetVisible, Typed
<1>4. p \in Project
  <2>1. config[id] \in Project /\ config[id].refs \in Refs BY <1>1, ProjectParts
  <2>2. PICK K \in SUBSET Keys : config[id].refs \in [K -> BOOLEAN]
    BY <2>1 DEF Refs
  <2>3. refs \in [K -> BOOLEAN] BY <2>2
  <2>4. refs \in Refs BY <2>3 DEF Refs
  <2> HIDE DEF refs
  <2> QED BY <2>1, <2>4 DEF Project
<1>5. config' = [config EXCEPT ![id] = p] BY Zenon DEF SetVisible
<1> HIDE DEF p
<1>6. /\ config' \in [Ids -> Project \cup {None}] /\ config'[id] # None
      /\ \A j \in Ids \ {id} : config'[j] = config[j]
  BY <1>1, <1>4, <1>5, ProjectSet DEF Listed
<1>7. \A j \in Ids : config'[j] # None <=> config[j] # None
  BY <1>1, <1>6 DEF Listed
<1>8. Typed' BY <1>1, <1>2, <1>3, <1>6 DEF Typed
<1>9. HoldInv' BY <1>1, <1>2, <1>7, HoldersStay DEF Listed
<1>10. BirthInv' BY <1>1, <1>2, <1>7, BirthsStay DEF Listed, Creating, Typed
<1> QED BY <1>8, <1>9, <1>10 DEF IInv

(* Whatever leaves the list and the tasks alone. *)
LEMMA QuietInv ==
  ASSUME IInv, UNCHANGED <<config, proc, unborn>>, Typed' PROVE IInv'
BY DEF IInv, HoldInv, HeldIsListed, BirthInv, Listed, Creating

LEMMA LinkLostInv == ASSUME IInv, LinkLost PROVE IInv'
<1>1. Typed BY DEF IInv
<1>2. \A id \in Ids : Paused(Previous(id)) \in Runtime
  BY <1>1, PreviousTypes DEF Paused, Runtime
<1>3. rt' \in [Ids -> Runtime \cup {None}]
  BY <1>1, <1>2 DEF LinkLost, Typed
<1>4. Typed' BY <1>1, <1>3 DEF LinkLost, Typed
<1> QED BY <1>4, QuietInv DEF LinkLost

LEMMA NextInv == ASSUME IInv, [Next]_vars PROVE IInv'
<1>1. CASE Poll BY <1>1, PollTickInv, PollResumesInv DEF Poll
<1>2. CASE Fetch BY <1>2, StartFetchInv, FetchResumesInv, FetchRecordsInv DEF Fetch
<1>3. CASE Update
  BY <1>3, UpdateInPlaceInv, StartUpdateInv, UpdateResumesInv DEF Update
<1>4. CASE Create BY <1>4, StartCreateInv, CreateResumesInv DEF Create
<1>5. CASE Threads
  <2>1. ASSUME NEW id \in Ids, DeleteForgets(id) PROVE IInv'
    <3>1. Typed' BY <2>1 DEF DeleteForgets, IInv, Typed
    <3> QED BY <2>1, <3>1, QuietInv DEF DeleteForgets
  <2> QED BY <1>5, <2>1, DeleteRemovesInv, SetVisibleInv DEF Threads
<1>6. CASE \E t \in Tasks : UpstreamAnswers(t) \/ RouteFinishes(t)
  BY <1>6, UpstreamAnswersInv, RouteFinishesInv
<1>7. CASE LinkLost BY <1>7, LinkLostInv
<1>8. CASE LinkReturns
  <2>1. Typed' BY <1>8 DEF LinkReturns, IInv, Typed
  <2> QED BY <1>8, <2>1, QuietInv DEF LinkReturns
<1>9. CASE UpstreamChanges
  <2>1. Typed' BY <1>9 DEF UpstreamChanges, IInv, Typed
  <2> QED BY <1>9, <2>1, QuietInv DEF UpstreamChanges
<1>10. CASE UNCHANGED vars
  <2>1. Typed' BY <1>10 DEF vars, IInv, Typed
  <2> QED BY <1>10, <2>1, QuietInv DEF vars
<1> QED BY <1>1, <1>2, <1>3, <1>4, <1>5, <1>6, <1>7, <1>8, <1>9, <1>10 DEF Next

LEMMA InitInv == ASSUME Init PROVE IInv
<1>1. config \in [Ids -> Project \cup {None}]
  <2>1. [at : {FirstEndpoint}, refs : Refs] \subseteq Project
    BY HealthchecksAssumption DEF Project
  <2> QED BY <2>1 DEF Init
<1>2. Typed
  BY <1>1, IdleTypes, HealthchecksAssumption DEF Init, Typed
<1>3. \A t \in Tasks : proc[t].pc = "idle" /\ proc[t].holds = FALSE
  BY IdleTypes DEF Init
<1>4. HoldInv BY <1>3, TaskClasses DEF HoldInv, HeldIsListed
<1>5. BirthInv BY <1>3, TaskClasses DEF BirthInv, Creating, Init
<1> QED BY <1>2, <1>4, <1>5 DEF IInv

LEMMA Invariance == Spec => []IInv
<1>1. Init => IInv BY InitInv
<1>2. IInv /\ [Next]_vars => IInv' BY NextInv
<1> QED BY <1>1, <1>2, PTL DEF Spec

(* For every number of projects, checks and requests every variable keeps  *)
(* its type.                                                               *)
THEOREM TypeCorrect == Spec => []TypeOK
<1>1. IInv => TypeOK BY TypedIsTypeOK DEF IInv
<1> QED BY <1>1, Invariance, PTL

-----------------------------------------------------------------------------
(* A deleted project *)
Returns(id) == \/ rt[id] = None /\ rt'[id] # None
               \/ id \notin jobs /\ id \in jobs'
Forgets == \A id \in Ids : ~Listed(id) /\ Returns(id) => loop # None /\ proc[loop].id = id

LEMMA PollForgets == ASSUME IInv, NEW i \in Ids, PollTick(i) \/ PollResumes(i) PROVE Forgets
<1> SUFFICES ASSUME NEW id \in Ids, ~Listed(id), Returns(id) PROVE FALSE BY DEF Forgets
<1>1. rt \in [Ids -> Runtime \cup {None}] /\ UNCHANGED jobs
  BY DEF IInv, Typed, PollTick, PollResumes
<1>2. rt'[id] # rt[id] BY <1>1 DEF Returns
<1>3. CASE PollTick(i)
  BY <1>1, <1>2, <1>3 DEF PollTick, PollPauses
<1>4. CASE PollResumes(i)
  <2>1. StillListed(proc[i]) /\ i = id BY <1>1, <1>2, <1>4 DEF PollResumes
  <2> QED BY <2>1 DEF IInv, HoldInv, HeldIsListed, Holders, StillListed
<1> QED BY <1>3, <1>4

LEMMA RouteForgets ==
  ASSUME IInv, NEW t \in Tasks,
         t \in Routes /\ (FetchRecords(t) \/ RouteFinishes(t))
  PROVE  Forgets
<1>1. loop = t /\ t # None /\ rt \in [Ids -> Runtime \cup {None}]
  BY HealthchecksAssumption DEF FetchRecords, RouteFinishes, IInv, Typed
<1>2. ASSUME NEW id \in Ids, id # proc[t].id PROVE ~Returns(id)
  BY <1>1, <1>2 DEF FetchRecords, RouteFinishes, Schedules, Returns
<1> QED BY <1>1, <1>2 DEF Forgets

LEMMA StepForgets == ASSUME IInv, [Next]_vars PROVE Forgets
<1>1. CASE UNCHANGED <<rt, jobs>> BY <1>1 DEF Forgets, Returns
<1>2. CASE Poll BY <1>2, PollForgets DEF Poll
<1>3. ASSUME NEW f \in Fetchers, FetchRecords(f) PROVE Forgets
  BY <1>3, RouteForgets DEF Tasks, Routes
<1>4. ASSUME NEW t \in Tasks, RouteFinishes(t) PROVE Forgets
  <2>1. t \in Routes BY <1>4 DEF RouteFinishes, Routes
  <2> QED BY <1>4, <2>1, RouteForgets
<1>5. ASSUME NEW id \in Ids, DeleteForgets(id) PROVE Forgets
  <2>1. rt \in [Ids -> Runtime \cup {None}] BY DEF IInv, Typed
  <2> QED BY <1>5, <2>1 DEF DeleteForgets, Forgets, Returns
<1>6. CASE LinkLost
  BY <1>6 DEF LinkLost, LossPauses, Forgets, Returns, IInv, Typed
<1>7. \/ UNCHANGED <<rt, jobs>> \/ Poll \/ LinkLost
      \/ \E f \in Fetchers : FetchRecords(f)
      \/ \E t \in Tasks : RouteFinishes(t)
      \/ \E id \in Ids : DeleteForgets(id)
  BY DEF Next, vars, Fetch, Update, Create, Threads, StartFetch, FetchResumes,
         UpdateInPlace, StartUpdate, UpdateResumes, StartCreate, CreateResumes,
         DeleteRemoves, SetVisible, UpstreamAnswers, LinkReturns, UpstreamChanges
<1> QED BY <1>1, <1>2, <1>3, <1>4, <1>5, <1>6, <1>7

(* For every number of projects and requests: nothing but a route that was *)
(* inside its `persist' brings the runtime or the job of a deleted project *)
(* back.                                                                   *)
THEOREM DeletedStays == Spec => DeletedStaysForgotten
<1>1. IInv /\ [Next]_vars => [Forgets]_vars BY StepForgets
<1>2. Forgets <=> \A id \in Ids : ~Listed(id) =>
         /\ rt[id] = None /\ rt'[id] # None => loop # None /\ proc[loop].id = id
         /\ id \notin jobs /\ id \in jobs' => loop # None /\ proc[loop].id = id
  BY DEF Forgets, Returns
<1> QED BY <1>1, <1>2, Invariance, PTL DEF Spec, DeletedStaysForgotten

-----------------------------------------------------------------------------
(* The visibility of a check *)
Flips(id, k) ==
  /\ Listed(id) /\ Listed(id)'
  /\ k \in DOMAIN config[id].refs /\ k \in DOMAIN config'[id].refs
  /\ config[id].refs[k] # config'[id].refs[k]
Chosen == \A id \in Ids, k \in Keys : Flips(id, k) => SetVisible(id, k)

(* A step that stores the merge of the old list and an answer flips none.  *)
LEMMA MergeFlipsNone ==
  ASSUME Typed, NEW i \in Ids, NEW remote \in SUBSET Keys, NEW p,
         Listed(i), p.refs = MergeRefs(config[i].refs, remote),
         config' = [config EXCEPT ![i] = p]
  PROVE  Chosen
<1> SUFFICES ASSUME NEW id \in Ids, NEW k \in Keys, Flips(id, k) PROVE FALSE BY DEF Chosen
<1>1. config'[i] = p /\ \A j \in Ids \ {i} : config'[j] = config[j] BY DEF Typed
<1>2. id = i BY <1>1 DEF Flips
<1>3. config[i].refs \in Refs BY ProjectParts
<1>4. \A q \in DOMAIN config[i].refs \cap DOMAIN p.refs : p.refs[q] = config[i].refs[q]
  BY <1>3, MergeTypes
<1> QED BY <1>1, <1>2, <1>4 DEF Flips

LEMMA FetchFlipsNone == ASSUME IInv, NEW f \in Fetchers, FetchResumes(f) PROVE Chosen
<1>1. CASE UNCHANGED config BY <1>1 DEF Chosen, Flips
<1>2. CASE proc[f].ans # Failed /\ StillListed(proc[f])
  <2> DEFINE i == proc[f].id
             p == [config[i] EXCEPT !.refs = MergeRefs(config[i].refs, proc[f].ans)]
  <2>1. Typed /\ f \in Tasks BY DEF IInv, Tasks, Routes
  <2>2. i \in Ids /\ Listed(i)
    BY <1>2 DEF IInv, HoldInv, HeldIsListed, StillListed, Holders
  <2>3. proc[f].ans \in SUBSET Keys BY <1>2, <2>1 DEF Typed, ProcState, Answers
  <2>4. p.refs = MergeRefs(config[i].refs, proc[f].ans)
    BY <2>1, <2>2, ProjectParts DEF Project
  <2>5. config' = [config EXCEPT ![i] = p]
    BY <1>2, <2>1 DEF FetchResumes, Typed
  <2> HIDE DEF p
  <2> QED BY <2>1, <2>2, <2>3, <2>4, <2>5, MergeFlipsNone
<1> QED BY <1>1, <1>2 DEF FetchResumes

LEMMA UpdateFlipsNone == ASSUME IInv, NEW u \in Updaters, UpdateResumes(u) PROVE Chosen
<1>1. CASE UNCHANGED config BY <1>1 DEF Chosen, Flips
<1>2. CASE proc[u].ans # Failed /\ Listed(proc[u].id)
  <2> DEFINE i == proc[u].id
             p == [at |-> WithFields(config[i].at, proc[u].at, proc[u].sets),
                   refs |-> MergeRefs(config[i].refs, proc[u].ans)]
  <2>1. Typed /\ u \in Tasks BY DEF IInv, Tasks, Routes
  <2>2. i \in Ids BY <2>1 DEF Typed, ProcState, UpdateResumes
  <2>3. proc[u].ans \in SUBSET Keys BY <1>2, <2>1 DEF Typed, ProcState, Answers
  <2>4. p.refs = MergeRefs(config[i].refs, proc[u].ans) OBVIOUS
  <2>5. config' = [config EXCEPT ![i] = p]
    BY <1>2, <2>1 DEF UpdateResumes, Typed
  <2> HIDE DEF p
  <2> QED BY <1>2, <2>1, <2>2, <2>3, <2>4, <2>5, MergeFlipsNone
<1> QED BY <1>1, <1>2 DEF UpdateResumes

(* A creation stores a project under an id that was not listed. *)
LEMMA CreateFlipsNone == ASSUME IInv, NEW c \in Creators, CreateResumes(c) PROVE Chosen
<1>1. ~Listed(proc[c].id) BY DEF IInv, BirthInv, Creating, CreateResumes
<1>2. ASSUME NEW id \in Ids, id # proc[c].id PROVE config'[id] = config[id]
  BY <1>2 DEF CreateResumes, IInv, Typed
<1> QED BY <1>1, <1>2 DEF Chosen, Flips

LEMMA DeleteFlipsNone == ASSUME IInv, NEW i \in Ids, DeleteRemoves(i) PROVE Chosen
<1>1. config'[i] = None /\ \A id \in Ids \ {i} : config'[id] = config[id]
  BY DEF DeleteRemoves, IInv, Typed
<1> QED BY <1>1 DEF Chosen, Flips, Listed

LEMMA VisibleFlipsOne ==
  ASSUME IInv, NEW i \in Ids, NEW q \in Keys, SetVisible(i, q) PROVE Chosen
<1> SUFFICES ASSUME NEW id \in Ids, NEW k \in Keys, Flips(id, k) PROVE id = i /\ k = q
  BY DEF Chosen
<1> DEFINE refs == [config[i].refs EXCEPT ![q] = ~config[i].refs[q]]
           p == [config[i] EXCEPT !.refs = refs]
<1>1. config' = [config EXCEPT ![i] = p] BY Zenon DEF SetVisible
<1>2. Listed(i) /\ Typed BY DEF SetVisible, IInv
<1>3. p.refs = refs
  <2>1. config[i] \in Project BY <1>2, ProjectParts
  <2> HIDE DEF refs
  <2> QED BY <2>1 DEF Project
<1>4. \A r \in DOMAIN config[i].refs : r # q => refs[r] = config[i].refs[r] OBVIOUS
<1> HIDE DEF p, refs
<1>5. config'[i] = p /\ \A j \in Ids \ {i} : config'[j] = config[j]
  BY <1>1, <1>2 DEF Typed
<1>6. id = i BY <1>5 DEF Flips
<1>7. k = q BY <1>3, <1>4, <1>5, <1>6 DEF Flips
<1> QED BY <1>6, <1>7

LEMMA StepChosen == ASSUME IInv, [Next]_vars PROVE Chosen
<1>1. CASE UNCHANGED config BY <1>1 DEF Chosen, Flips
<1>2. \/ UNCHANGED config
      \/ \E f \in Fetchers : FetchResumes(f)
      \/ \E u \in Updaters : UpdateResumes(u)
      \/ \E c \in Creators : CreateResumes(c)
      \/ \E id \in Ids : DeleteRemoves(id) \/ \E k \in Keys : SetVisible(id, k)
  BY DEF Next, vars, Poll, PollTick, PollResumes, Fetch, Update, Create, Threads,
         StartFetch, FetchRecords, UpdateInPlace, StartUpdate, StartCreate,
         DeleteForgets, UpstreamAnswers, RouteFinishes, LinkLost, LinkReturns,
         UpstreamChanges
<1> QED BY <1>1, <1>2, FetchFlipsNone, UpdateFlipsNone, CreateFlipsNone,
           DeleteFlipsNone, VisibleFlipsOne

(* For every number of projects, checks and requests: a check that stays   *)
(* listed is hidden or shown by the visibility route alone.                *)
THEOREM ChoiceStays == Spec => OnlyChoiceHides
<1>1. IInv /\ [Next]_vars => [Chosen]_vars BY StepChosen
<1>2. Chosen <=> \A id \in Ids, k \in Keys :
         /\ Listed(id) /\ Listed(id)'
         /\ k \in DOMAIN config[id].refs /\ k \in DOMAIN config'[id].refs
         /\ config[id].refs[k] # config'[id].refs[k]
         => SetVisible(id, k)
  BY DEF Chosen, Flips
<1> QED BY <1>1, <1>2, Invariance, PTL DEF Spec, OnlyChoiceHides

-----------------------------------------------------------------------------
(* What is shown of a project, with one update at a time *)
OneUpdater == \A u, v \in Updaters : u = v

Updating(u) == proc[u].pc \in {"asked", "answered"}

(* The request inside `persist' has an outcome for the project to record.  *)
Pending(id) == loop # None /\ proc[loop].id = id /\ proc[loop].ans # Failed

(* The runtime of a listed project is of its endpoint and its list, unless *)
(* the request inside `persist' is about to replace it.                    *)
Tells(id) ==
  Listed(id) /\ rt[id] # None /\ ~Pending(id) =>
    /\ rt[id].keys \subseteq DOMAIN config[id].refs
    /\ rt[id].of \in {None, config[id].at}

(* A poll or a fetch that still holds its object asked the endpoint of it. *)
AskedRight(t) == proc[t].holds => proc[t].at = config[proc[t].id].at

(* The fields an update sets are the only difference between the endpoint  *)
(* it validates and the stored one, and nobody creates its project anew.   *)
ValidatesRight(u) ==
  Updating(u) =>
    /\ proc[u].id \notin unborn
    /\ Listed(proc[u].id) =>
         WithFields(config[proc[u].id].at, proc[u].at, proc[u].sets) = proc[u].at
    /\ \A c \in Creators : Creating(c) => proc[c].id # proc[u].id

(* The loop is blocked by the one task that has saved, and what that task  *)
(* stored is what it will record.                                          *)
SavedRight ==
  /\ \A t \in Tasks : proc[t].pc = "saved" => loop = t
  /\ loop # None =>
       /\ proc[loop].pc = "saved"
       /\ proc[loop].ans # Failed /\ Listed(proc[loop].id) =>
            /\ config[proc[loop].id].at = proc[loop].at
            /\ DOMAIN config[proc[loop].id].refs = proc[loop].ans

TellInv ==
  /\ \A id \in Ids : Tells(id)
  /\ \A t \in Holders : AskedRight(t)
  /\ \A u \in Updaters : ValidatesRight(u)
  /\ SavedRight

(* Tasks that go on as they were, or only lose their object. *)
Same(u) ==
  /\ proc'[u].pc = proc[u].pc /\ proc'[u].id = proc[u].id
  /\ proc'[u].ans = proc[u].ans /\ proc'[u].at = proc[u].at
  /\ proc'[u].sets = proc[u].sets
  /\ proc'[u].holds => proc[u].holds

(* A task moves while the loop is free before and after; no list changes.  *)
LEMMA FreeMoves ==
  ASSUME IInv, TellInv, NEW t \in Tasks, UNCHANGED config, loop = None, loop' = None,
         unborn' \subseteq unborn,
         \A u \in Tasks \ {t} : proc'[u] = proc[u], proc'[t].pc # "saved",
         \A id \in Ids : Tells(id)',
         t \in Holders => AskedRight(t)',
         t \in Updaters => ValidatesRight(t)',
         t \in Creators /\ Creating(t)' =>
           \A u \in Updaters : Updating(u) => proc'[t].id # proc[u].id
  PROVE  TellInv'
<1>1. \A u \in Holders : AskedRight(u)'
  BY TaskClasses DEF TellInv, AskedRight
<1>2. ASSUME NEW u \in Updaters PROVE ValidatesRight(u)'
  <2>1. CASE u = t BY <2>1
  <2>2. CASE u # t
    <3>1. proc'[u] = proc[u] /\ ValidatesRight(u) BY <2>2, TaskClasses DEF TellInv, Routes
    <3>2. \A c \in Creators : Updating(u) /\ Creating(c)' => proc'[c].id # proc[u].id
      BY <3>1, TaskClasses DEF ValidatesRight, Creating
    <3> QED BY <3>1, <3>2 DEF ValidatesRight, Updating, Listed
  <2> QED BY <2>1, <2>2
<1>3. SavedRight'
  BY DEF TellInv, SavedRight
<1> QED BY <1>1, <1>2, <1>3 DEF TellInv

(* A task stores a list, if it has an answer, and blocks the loop.         *)
LEMMA LoopEntered ==
  ASSUME IInv, TellInv, NEW t \in Routes, NEW i \in Ids, UNCHANGED <<rt, unborn>>,
         loop = None, loop' = t,
         proc'[t].pc = "saved", proc'[t].id = i,
         \A u \in Tasks \ {t} : Same(u),
         \A j \in Ids \ {i} : config'[j] = config[j],
         IF proc'[t].ans = Failed THEN config' = config
         ELSE /\ config'[i] # None /\ config'[i].at = proc'[t].at
              /\ DOMAIN config'[i].refs = proc'[t].ans,
         \A u \in Holders \ {t} : proc'[u].holds =>
           config'[proc[u].id].at = config[proc[u].id].at,
         t \in Holders => AskedRight(t)',
         \A u \in Updaters \ {t} : Updating(u) /\ config'[proc[u].id] # None =>
           /\ config[proc[u].id] # None
           /\ config'[proc[u].id].at = config[proc[u].id].at
  PROVE  TellInv'
<1>1. t \in Tasks /\ t # None BY HealthchecksAssumption DEF Tasks, Routes
<1>2. ASSUME NEW id \in Ids PROVE Tells(id)'
  <2>1. ~Pending(id) BY DEF Pending
  <2>2. Tells(id) BY DEF TellInv
  <2>3. CASE proc'[t].ans = Failed
    BY <2>1, <2>2, <2>3 DEF Tells, Listed
  <2>4. CASE proc'[t].ans # Failed /\ id = i
    BY <1>1, <2>4 DEF Tells, Pending
  <2>5. CASE id # i BY <2>1, <2>2, <2>5 DEF Tells, Listed
  <2> QED BY <2>3, <2>4, <2>5
<1>3. ASSUME NEW u \in Holders PROVE AskedRight(u)'
  <2>1. CASE u # t
    BY <2>1, TaskClasses DEF TellInv, AskedRight, Same
  <2> QED BY <2>1
<1>4. ASSUME NEW u \in Updaters PROVE ValidatesRight(u)'
  <2>1. CASE u = t BY <2>1 DEF ValidatesRight, Updating
  <2>2. CASE u # t
    <3>1. Same(u) /\ ValidatesRight(u) BY <2>2, TaskClasses DEF TellInv, Routes
    <3>2. \A c \in Creators : Creating(c)' => Creating(c) /\ proc'[c].id = proc[c].id
      BY TaskClasses DEF Creating, Same
    <3> QED BY <2>2, <3>1, <3>2 DEF ValidatesRight, Updating, Listed, Same
  <2> QED BY <2>1, <2>2
<1>5. SavedRight'
  <2>1. ASSUME NEW u \in Tasks, proc'[u].pc = "saved" PROVE u = t
    <3>1. None \notin Tasks BY HealthchecksAssumption DEF Tasks
    <3>2. CASE u # t
      <4>1. proc[u].pc = "saved" BY <2>1, <3>2 DEF Same
      <4>2. loop = u BY <4>1 DEF TellInv, SavedRight
      <4> QED BY <3>1, <4>2
    <3> QED BY <3>2
  <2>2. proc'[t].ans # Failed => /\ config'[i].at = proc'[t].at
                                /\ DOMAIN config'[i].refs = proc'[t].ans
    OBVIOUS
  <2> QED BY <2>1, <2>2 DEF SavedRight
<1> QED BY <1>2, <1>3, <1>4, <1>5 DEF TellInv

(* The task inside `persist' records its outcome and frees the loop.       *)
LEMMA LoopLeft ==
  ASSUME IInv, TellInv, NEW t \in Tasks, UNCHANGED <<config, unborn>>,
         loop = t, t # None, loop' = None, proc[t].id \in Ids,
         \A u \in Tasks \ {t} : proc'[u] = proc[u],
         proc'[t].pc = "idle", proc'[t].holds = FALSE,
         rt' = IF proc[t].ans = Failed THEN rt
               ELSE [rt EXCEPT ![proc[t].id] =
                      Succeeded(proc[t].at, proc[t].ans, proc[t].ans)]
  PROVE  TellInv'
<1>1. ASSUME NEW id \in Ids PROVE Tells(id)'
  <2>1. CASE ~Pending(id)
    <3>1. rt'[id] = rt[id] BY <2>1 DEF Pending, IInv, Typed
    <3> QED BY <2>1, <3>1 DEF TellInv, Tells, Listed
  <2>2. CASE Pending(id)
    <3>1. id = proc[t].id /\ proc[t].ans # Failed BY <2>2 DEF Pending
    <3>2. rt'[id] = Succeeded(proc[t].at, proc[t].ans, proc[t].ans)
      BY <3>1 DEF IInv, Typed
    <3>3. rt'[id].keys = proc[t].ans \cap proc[t].ans /\ rt'[id].of = proc[t].at
      BY <3>2 DEF Succeeded
    <3>4. Listed(id) => /\ config[id].at = proc[t].at
                        /\ DOMAIN config[id].refs = proc[t].ans
      BY <3>1 DEF TellInv, SavedRight
    <3> QED BY <3>3, <3>4 DEF Tells, Listed
  <2> QED BY <2>1, <2>2
<1>2. ASSUME NEW u \in Holders PROVE AskedRight(u)'
  BY TaskClasses DEF TellInv, AskedRight
<1>3. ASSUME NEW u \in Updaters PROVE ValidatesRight(u)'
  <2>1. CASE u = t BY <2>1 DEF ValidatesRight, Updating
  <2>2. CASE u # t
    <3>1. proc'[u] = proc[u] /\ ValidatesRight(u)
      BY <2>2, TaskClasses DEF TellInv, Routes
    <3>2. \A c \in Creators : Creating(c)' => Creating(c) /\ proc'[c].id = proc[c].id
      BY TaskClasses DEF Creating
    <3> QED BY <3>1, <3>2 DEF ValidatesRight, Updating, Listed
  <2> QED BY <2>1, <2>2
<1>4. SavedRight'
  <2>1. ASSUME NEW u \in Tasks PROVE proc'[u].pc # "saved"
    <3>1. CASE u = t BY <3>1
    <3>2. CASE u # t
      <4>1. proc[u].pc # "saved" BY <3>2 DEF TellInv, SavedRight
      <4> QED BY <3>2, <4>1
    <3> QED BY <3>1, <3>2
  <2> QED BY <2>1 DEF SavedRight
<1> QED BY <1>1, <1>2, <1>3, <1>4 DEF TellInv

(* A runtime is replaced by one that is just as right. *)
LEMMA RuntimeStillTells ==
  ASSUME TellInv, UNCHANGED <<config, loop>>, NEW id \in Ids,
         Pending(id)' <=> Pending(id),
         \/ rt'[id] = rt[id] \/ rt'[id] = None
         \/ rt'[id].keys = Previous(id).keys /\ rt'[id].of = Previous(id).of
  PROVE  Tells(id)'
<1>1. Tells(id) BY DEF TellInv
<1>2. Previous(id) = IF rt[id] = None THEN NeverPolled ELSE rt[id] BY DEF Previous
<1>3. NeverPolled.keys = {} /\ NeverPolled.of = None BY DEF NeverPolled
<1> QED BY <1>1, <1>2, <1>3 DEF Tells, Listed

LEMMA PausedParts ==
  ASSUME Typed, NEW id \in Ids
  PROVE  /\ Paused(Previous(id)).keys = Previous(id).keys
         /\ Paused(Previous(id)).of = Previous(id).of
         /\ FailedAfter(Previous(id)).keys = Previous(id).keys
         /\ FailedAfter(Previous(id)).of = Previous(id).of
BY PreviousTypes DEF Paused, FailedAfter, Runtime

(* Steps that change no task, or one that stays right; no list either.     *)
LEMMA QuietTells ==
  ASSUME TellInv, UNCHANGED <<config, proc, loop, unborn>>, \A id \in Ids : Tells(id)'
  PROVE  TellInv'
<1>1. \A u \in Holders : AskedRight(u)' BY DEF TellInv, AskedRight
<1>2. \A u \in Updaters : ValidatesRight(u)'
  BY DEF TellInv, ValidatesRight, Updating, Creating, Listed
<1>3. SavedRight' BY DEF TellInv, SavedRight, Listed
<1> QED BY <1>1, <1>2, <1>3 DEF TellInv

LEMMA PollTickTells == ASSUME IInv, TellInv, NEW id \in Ids, PollTick(id) PROVE TellInv'
<1>1. Typed /\ id \in Tasks /\ id \in Holders /\ loop = None BY DEF IInv, Tasks, Holders, PollTick
<1>2. UNCHANGED <<config, loop, unborn>> BY DEF PollTick
<1>3. CASE UNCHANGED proc /\ (UNCHANGED rt \/ PollPauses(id))
  <2>1. \A j \in Ids : Pending(j)' <=> Pending(j) BY <1>2, <1>3 DEF Pending
  <2>2. ASSUME NEW j \in Ids PROVE Tells(j)'
    <3>1. \/ rt'[j] = rt[j] \/ rt'[j] = Paused(Previous(j))
      BY <1>1, <1>3 DEF PollPauses, Typed
    <3> QED BY <1>1, <1>2, <2>1, <3>1, PausedParts, RuntimeStillTells
  <2> QED BY <1>2, <1>3, <2>2, QuietTells
<1>4. CASE Listed(id) /\ Asks(id, id, config[id].at, {}) /\ UNCHANGED rt
  <2>1. /\ proc'[id].pc = "asked" /\ proc'[id].id = id /\ proc'[id].at = config[id].at
        /\ \A u \in Tasks \ {id} : proc'[u] = proc[u]
    BY <1>1, <1>4, ProjectParts, AsksMoves
  <2>2. \A j \in Ids : Tells(j)'
    <3>1. \A j \in Ids : ~Pending(j)' /\ ~Pending(j) BY <1>1, <1>2 DEF Pending
    <3> QED BY <1>1, <1>2, <1>4, <3>1 DEF TellInv, Tells, Listed
  <2>3. AskedRight(id)' BY <1>2, <2>1 DEF AskedRight
  <2> QED BY <1>1, <1>2, <2>1, <2>2, <2>3, FreeMoves, TaskClasses
<1> QED BY <1>3, <1>4 DEF PollTick

LEMMA PollResumesTells ==
  ASSUME IInv, TellInv, NEW id \in Ids, PollResumes(id) PROVE TellInv'
<1>1. Typed /\ id \in Tasks /\ id \in Holders /\ loop = None
  BY DEF IInv, Tasks, Holders, PollResumes
<1>2. UNCHANGED <<config, loop, unborn>> BY DEF PollResumes
<1>3. /\ proc'[id].holds = FALSE /\ proc'[id].pc = "idle"
      /\ \A u \in Tasks \ {id} : proc'[u] = proc[u]
  BY <1>1, EndMoves DEF PollResumes
<1>4. \A j \in Ids : ~Pending(j)' /\ ~Pending(j) BY <1>1, <1>2 DEF Pending
<1>5. ASSUME NEW j \in Ids PROVE Tells(j)'
  <2>1. CASE rt'[j] = rt[j] BY <1>2, <1>4, <2>1, RuntimeStillTells
  <2>2. CASE rt'[j] # rt[j]
    <3>1. StillListed(proc[id]) /\ j = id BY <1>1, <2>2 DEF PollResumes, Typed
    <3>2. CASE proc[id].ans = Failed
      <4>1. rt'[id] = FailedAfter(Previous(id)) BY <1>1, <3>1, <3>2 DEF PollResumes, Typed
      <4> QED BY <1>1, <1>2, <1>4, <3>1, <4>1, PausedParts, RuntimeStillTells
    <3>3. CASE proc[id].ans # Failed
      <4>1. rt'[id] = Succeeded(proc[id].at, DOMAIN config[id].refs, proc[id].ans)
        BY <1>1, <3>1, <3>3 DEF PollResumes, Typed
      <4>2. /\ rt'[id].keys = proc[id].ans \cap DOMAIN config[id].refs
            /\ rt'[id].of = proc[id].at
        BY <4>1 DEF Succeeded
      <4>3. proc[id].id = id
        BY <1>1, <3>1 DEF IInv, HoldInv, HeldIsListed, StillListed
      <4>4. proc[id].at = config[id].at
        BY <1>1, <3>1, <4>3 DEF TellInv, AskedRight, StillListed
      <4> QED BY <1>2, <3>1, <4>2, <4>4 DEF Tells
    <3> QED BY <3>2, <3>3
  <2> QED BY <2>1, <2>2
<1>6. AskedRight(id)' BY <1>3 DEF AskedRight
<1> QED BY <1>1, <1>2, <1>3, <1>5, <1>6, FreeMoves, TaskClasses

LEMMA UpstreamAnswersTells ==
  ASSUME IInv, TellInv, NEW t \in Tasks, UpstreamAnswers(t) PROVE TellInv'
<1>1. Typed /\ proc[t].pc = "asked" BY DEF IInv, UpstreamAnswers
<1>2. UNCHANGED <<config, rt, loop, unborn>> BY DEF UpstreamAnswers
<1>3. PICK ans : proc' = [proc EXCEPT ![t].pc = "answered", ![t].ans = ans]
  BY DEF UpstreamAnswers
<1> DEFINE r == [proc[t] EXCEPT !.pc = "answered", !.ans = ans]
<1>4. r.pc = "answered" /\ r.id = proc[t].id /\ r.at = proc[t].at
      /\ r.sets = proc[t].sets /\ r.holds = proc[t].holds
  BY <1>1 DEF Typed, ProcState
<1>5. proc' = [proc EXCEPT ![t] = r] BY <1>1, <1>3 DEF Typed
<1> HIDE DEF r
<1>6. proc'[t] = r /\ \A u \in Tasks \ {t} : proc'[u] = proc[u]
  BY <1>1, <1>5 DEF Typed
<1>7. loop # t /\ (loop # None => loop \in Tasks)
  <2>1. t # None BY HealthchecksAssumption DEF Tasks
  <2> QED BY <1>1, <2>1 DEF TellInv, SavedRight, Typed, Tasks
<1>8. ASSUME NEW id \in Ids PROVE Tells(id)'
  <2>1. Pending(id)' <=> Pending(id) BY <1>2, <1>6, <1>7 DEF Pending
  <2> QED BY <1>2, <2>1, RuntimeStillTells
<1>9. ASSUME NEW u \in Holders PROVE AskedRight(u)'
  BY <1>2, <1>4, <1>6, TaskClasses DEF TellInv, AskedRight
<1>10. ASSUME NEW u \in Updaters PROVE ValidatesRight(u)'
  <2>1. u \in Tasks BY DEF Tasks, Routes
  <2>2. /\ Updating(u)' => Updating(u)
        /\ proc'[u].id = proc[u].id /\ proc'[u].at = proc[u].at
        /\ proc'[u].sets = proc[u].sets
    BY <1>1, <1>4, <1>6, <2>1 DEF Updating
  <2>3. \A c \in Creators : Creating(c)' => Creating(c) /\ proc'[c].id = proc[c].id
    BY <1>1, <1>4, <1>6, TaskClasses DEF Creating
  <2> QED BY <1>2, <2>2, <2>3 DEF TellInv, ValidatesRight, Listed
<1>11. SavedRight'
  <2>1. ASSUME NEW u \in Tasks, proc'[u].pc = "saved" PROVE loop = u
    BY <1>4, <1>6, <2>1 DEF TellInv, SavedRight
  <2>2. loop # None => proc'[loop] = proc[loop] BY <1>6, <1>7
  <2> QED BY <1>2, <2>1, <2>2 DEF TellInv, SavedRight, Listed
<1> QED BY <1>8, <1>9, <1>10, <1>11 DEF TellInv

LEMMA StartFetchTells ==
  ASSUME IInv, TellInv, NEW f \in Fetchers, NEW id \in Ids, StartFetch(f, id)
  PROVE  TellInv'
<1>1. Typed /\ f \in Tasks /\ f \in Holders /\ loop = None /\ Listed(id)
  BY DEF IInv, Tasks, Routes, Holders, StartFetch, Requests
<1>2. UNCHANGED <<config, rt, loop, unborn>> /\ Asks(f, id, config[id].at, {})
  BY DEF StartFetch
<1>3. /\ proc'[f].pc = "asked" /\ proc'[f].id = id /\ proc'[f].at = config[id].at
      /\ \A u \in Tasks \ {f} : proc'[u] = proc[u]
  BY <1>1, <1>2, ProjectParts, AsksMoves
<1>4. \A j \in Ids : ~Pending(j)' /\ ~Pending(j) BY <1>1, <1>2 DEF Pending
<1>5. \A j \in Ids : Tells(j)' BY <1>2, <1>4 DEF TellInv, Tells, Listed
<1>6. AskedRight(f)' BY <1>2, <1>3 DEF AskedRight
<1> QED BY <1>1, <1>2, <1>3, <1>5, <1>6, FreeMoves, TaskClasses

(* A request on the loop that ends without storing anything. *)
LEMMA EndsTells ==
  ASSUME IInv, TellInv, NEW t \in Tasks, UNCHANGED <<config, rt, loop, unborn>>,
         loop = None, proc' = [proc EXCEPT ![t] = Idle]
  PROVE  TellInv'
<1>1. /\ proc'[t].holds = FALSE /\ proc'[t].pc = "idle"
      /\ \A u \in Tasks \ {t} : proc'[u] = proc[u]
  BY EndMoves DEF IInv
<1>2. \A j \in Ids : ~Pending(j)' /\ ~Pending(j) BY DEF Pending
<1>3. \A j \in Ids : Tells(j)' BY <1>2 DEF TellInv, Tells, Listed
<1>4. AskedRight(t)' BY <1>1 DEF AskedRight
<1>5. ValidatesRight(t)' BY <1>1 DEF ValidatesRight, Updating
<1>6. ~Creating(t)' BY <1>1 DEF Creating
<1> QED BY <1>1, <1>3, <1>4, <1>5, <1>6, FreeMoves

LEMMA FetchResumesTells ==
  ASSUME IInv, TellInv, NEW f \in Fetchers, FetchResumes(f) PROVE TellInv'
<1>1. /\ Typed /\ HoldInv /\ f \in Tasks /\ f \in Holders /\ f \in Routes /\ f \notin Updaters
      /\ UNCHANGED <<rt, unborn>> /\ loop = None
  BY TaskClasses DEF IInv, Tasks, Routes, Holders, FetchResumes
<1>2. CASE proc' = [proc EXCEPT ![f] = Idle] /\ UNCHANGED <<config, loop>>
  BY <1>1, <1>2, EndsTells
<1>3. CASE proc[f].ans # Failed /\ StillListed(proc[f])
  <2> DEFINE i == proc[f].id
             p == [config[i] EXCEPT !.refs = MergeRefs(config[i].refs, proc[f].ans)]
  <2>1. i \in Ids /\ Listed(i)
    BY <1>1, <1>3 DEF HoldInv, HeldIsListed, StillListed
  <2>2. config' = [config EXCEPT ![i] = p] /\ Saves(f, proc)
    BY <1>1, <1>3 DEF FetchResumes, Typed
  <2>3. p.at = config[i].at /\ p.refs = MergeRefs(config[i].refs, proc[f].ans)
    BY <1>1, <2>1, ProjectParts DEF Project
  <2>4. p \in Project
    <3>1. proc[f].ans \in SUBSET Keys BY <1>1, <1>3 DEF Typed, ProcState, Answers
    <3>2. config[i] \in Project /\ config[i].refs \in Refs BY <1>1, <2>1, ProjectParts
    <3>3. MergeRefs(config[i].refs, proc[f].ans) \in Refs BY <3>1, <3>2, MergeTypes
    <3> QED BY <3>2, <3>3 DEF Project
  <2> HIDE DEF p
  <2>5. /\ config'[i] = p /\ config'[i] # None
        /\ \A j \in Ids \ {i} : config'[j] = config[j]
    BY <1>1, <2>1, <2>2, <2>4, ProjectSet DEF Listed
  <2>6. /\ loop' = f /\ proc'[f].pc = "saved" /\ proc'[f].id = i
        /\ proc'[f].ans = proc[f].ans /\ proc'[f].holds = proc[f].holds
        /\ proc'[f].at = proc[f].at
        /\ \A u \in Tasks \ {f} : proc'[u] = proc[u]
    <3>1. proc[f].id \in Ids BY <2>1
    <3> QED BY <1>1, <2>2, <3>1, SavesMoves DEF Typed
  <2>7. proc[f].at = config[i].at
    BY <1>1, <1>3 DEF TellInv, AskedRight, StillListed
  <2>8. DOMAIN config'[i].refs = proc[f].ans
    BY <2>3, <2>5 DEF MergeRefs
  <2>9. \A j \in Ids : config'[j].at = config[j].at /\ (config'[j] # None => config[j] # None)
    BY <2>1, <2>3, <2>5 DEF Listed
  <2>10. \A u \in Tasks \ {f} : Same(u) BY <2>6 DEF Same
  <2>11. \A u \in Holders \ {f} : proc'[u].holds =>
           config'[proc[u].id].at = config[proc[u].id].at
    BY <1>1, <2>6, <2>9, TaskClasses DEF HoldInv, HeldIsListed
  <2>12. AskedRight(f)' BY <2>3, <2>5, <2>6, <2>7 DEF AskedRight
  <2>13. \A u \in Updaters \ {f} : Updating(u) /\ config'[proc[u].id] # None =>
           config[proc[u].id] # None /\ config'[proc[u].id].at = config[proc[u].id].at
    <3>1. \A u \in Updaters : Updating(u) => proc[u].id \in Ids
      BY <1>1 DEF Typed, ProcState, Updating, Tasks, Routes
    <3> QED BY <2>9, <3>1
  <2>14. IF proc'[f].ans = Failed THEN config' = config
         ELSE /\ config'[i] # None /\ config'[i].at = proc'[f].at
              /\ DOMAIN config'[i].refs = proc'[f].ans
    BY <1>3, <2>3, <2>5, <2>6, <2>7, <2>8
  <2>15. proc'[f].pc = "saved" /\ proc'[f].id = i /\ loop' = f BY <2>6
  <2> HIDE DEF i
  <2> QED BY <1>1, <2>1, <2>5, <2>10, <2>11, <2>12, <2>13, <2>14, <2>15, LoopEntered
<1> QED BY <1>2, <1>3 DEF FetchResumes

LEMMA FetchRecordsTells ==
  ASSUME IInv, TellInv, NEW f \in Fetchers, FetchRecords(f) PROVE TellInv'
<1>1. Typed /\ HoldInv /\ f \in Tasks /\ f \in Holders /\ f # None
  BY HealthchecksAssumption DEF IInv, Tasks, Routes, Holders
<1>2. UNCHANGED <<config, unborn>> /\ loop = f /\ loop' = None BY DEF FetchRecords
<1>3. /\ proc'[f].holds = FALSE /\ proc'[f].pc = "idle"
      /\ \A u \in Tasks \ {f} : proc'[u] = proc[u]
  BY <1>1, EndMoves DEF FetchRecords
<1>4. proc[f].id \in Ids /\ proc[f].ans # Failed
  BY <1>1 DEF Typed, ProcState, HoldInv, HeldIsListed, FetchRecords
<1>5. rt' = [rt EXCEPT ![proc[f].id] = Succeeded(proc[f].at, proc[f].ans, proc[f].ans)]
  BY DEF FetchRecords
<1> QED BY <1>1, <1>2, <1>3, <1>4, <1>5, LoopLeft

LEMMA RouteFinishesTells ==
  ASSUME IInv, TellInv, NEW t \in Tasks, RouteFinishes(t) PROVE TellInv'
<1>1. Typed /\ t # None /\ proc[t].pc = "saved"
  BY HealthchecksAssumption DEF IInv, Tasks, RouteFinishes
<1>2. UNCHANGED <<config, unborn>> /\ loop = t /\ loop' = None BY DEF RouteFinishes
<1>3. /\ proc'[t].holds = FALSE /\ proc'[t].pc = "idle"
      /\ \A u \in Tasks \ {t} : proc'[u] = proc[u]
  BY <1>1, EndMoves DEF RouteFinishes
<1>4. proc[t].id \in Ids BY <1>1 DEF Typed, ProcState
<1>5. rt' = IF proc[t].ans = Failed THEN rt
            ELSE [rt EXCEPT ![proc[t].id] = Succeeded(proc[t].at, proc[t].ans, proc[t].ans)]
  BY DEF RouteFinishes
<1> QED BY <1>1, <1>2, <1>3, <1>4, <1>5, LoopLeft

(* An endpoint that was put together is not changed by doing so again.     *)
LEMMA WithFieldsTwice ==
  ASSUME NEW at \in Endpoints, NEW new \in Endpoints, NEW sets
  PROVE  WithFields(at, WithFields(at, new, sets), sets) = WithFields(at, new, sets)
<1> DEFINE u == IF "url" \in sets THEN new[1] ELSE at[1]
           k == IF "key" \in sets THEN new[2] ELSE at[2]
<1>1. WithFields(at, new, sets) = <<u, k>> BY DEF WithFields
<1>2. <<u, k>>[1] = u /\ <<u, k>>[2] = k OBVIOUS
<1>3. WithFields(at, <<u, k>>, sets) = <<IF "url" \in sets THEN u ELSE at[1],
                                        IF "key" \in sets THEN k ELSE at[2]>>
  BY <1>2 DEF WithFields
<1>4. (IF "url" \in sets THEN u ELSE at[1]) = u /\ (IF "key" \in sets THEN k ELSE at[2]) = k
  OBVIOUS
<1> QED BY <1>1, <1>3, <1>4

LEMMA UpdateInPlaceTells ==
  ASSUME IInv, TellInv, NEW u \in Updaters, NEW id \in Ids, NEW run \in BOOLEAN,
         UpdateInPlace(u, id, run)
  PROVE  TellInv'
<1> DEFINE r == [Idle EXCEPT !.id = id, !.run = run]
           procs == [Detached(proc, id) EXCEPT ![u] = r]
<1>1. /\ Typed /\ HoldInv /\ u \in Tasks /\ u \in Routes /\ u \notin Holders
      /\ loop = None /\ UNCHANGED <<config, rt, unborn>>
  BY TaskClasses DEF IInv, Tasks, Routes, UpdateInPlace, Requests
<1>2. Saves(u, procs) BY DEF UpdateInPlace
<1>3. r \in ProcState /\ r.id = id /\ r.ans = Failed
  BY IdleTypes DEF ProcState, Idle
<1>4. Detached(proc, id) \in [Tasks -> ProcState]
  BY <1>1, DetachedKeeps DEF Typed
<1> HIDE DEF r
<1>5. /\ procs \in [Tasks -> ProcState] /\ procs[u] = r
      /\ \A v \in Tasks \ {u} : procs[v] = Detached(proc, id)[v]
  BY <1>1, <1>3, <1>4
<1> HIDE DEF procs
<1>6. /\ loop' = u /\ proc'[u].pc = "saved" /\ proc'[u].id = id /\ proc'[u].ans = Failed
      /\ \A v \in Tasks \ {u} : proc'[v] = Detached(proc, id)[v]
  BY <1>1, <1>2, <1>3, <1>5, SavesMoves
<1>7. \A v \in Tasks \ {u} : Same(v)
  BY <1>1, <1>6, DetachedKeeps DEF Typed, Same
<1> QED BY <1>1, <1>6, <1>7, LoopEntered

LEMMA StartUpdateTells ==
  ASSUME IInv, TellInv, NEW u \in Updaters, NEW id \in Ids, NEW new \in Endpoints,
         NEW sets \in FieldSets, StartUpdate(u, id, new, sets)
  PROVE  TellInv'
<1> DEFINE at == WithFields(config[id].at, new, sets)
<1>1. /\ Typed /\ BirthInv /\ u \in Tasks /\ u \notin Holders /\ u \notin Creators
      /\ loop = None /\ Listed(id)
      /\ UNCHANGED <<config, rt, loop, unborn>> /\ Asks(u, id, at, sets)
  BY TaskClasses DEF IInv, Tasks, Routes, StartUpdate, Requests
<1>2. config[id].at \in Endpoints /\ at \in Endpoints /\ sets \in SUBSET {"url", "key"}
  BY <1>1, ProjectParts, WithFieldsTypes, HealthchecksAssumption
<1>3. WithFields(config[id].at, at, sets) = at BY <1>2, WithFieldsTwice
<1> HIDE DEF at
<1>4. /\ proc'[u].pc = "asked" /\ proc'[u].id = id /\ proc'[u].at = at
      /\ proc'[u].sets = sets
      /\ \A v \in Tasks \ {u} : proc'[v] = proc[v]
  BY <1>1, <1>2, AsksMoves
<1>5. \A j \in Ids : ~Pending(j)' /\ ~Pending(j) BY <1>1 DEF Pending
<1>6. \A j \in Ids : Tells(j)' BY <1>1, <1>5 DEF TellInv, Tells, Listed
<1>7. ValidatesRight(u)'
  <2>1. id \notin unborn /\ \A c \in Creators : Creating(c) => proc[c].id # id
    BY <1>1 DEF BirthInv
  <2>2. \A c \in Creators : proc'[c] = proc[c] BY <1>1, <1>4, TaskClasses
  <2> QED BY <1>1, <1>3, <1>4, <2>1, <2>2 DEF ValidatesRight, Creating
<1> QED BY <1>1, <1>4, <1>6, <1>7, FreeMoves

LEMMA UpdateResumesTells ==
  ASSUME OneUpdater, IInv, TellInv, NEW u \in Updaters, UpdateResumes(u) PROVE TellInv'
<1> DEFINE i == proc[u].id
<1>1. /\ Typed /\ HoldInv /\ u \in Tasks /\ u \in Routes /\ u \notin Holders
      /\ UNCHANGED <<rt, unborn>> /\ loop = None
  BY TaskClasses DEF IInv, Tasks, Routes, UpdateResumes
<1>2. CASE proc' = [proc EXCEPT ![u] = Idle] /\ UNCHANGED <<config, loop>>
  BY <1>1, <1>2, EndsTells
<1>3. CASE proc[u].ans # Failed /\ Listed(i)
  <2> DEFINE p == [at |-> WithFields(config[i].at, proc[u].at, proc[u].sets),
                   refs |-> MergeRefs(config[i].refs, proc[u].ans)]
  <2>1. i \in Ids BY <1>1 DEF Typed, ProcState, UpdateResumes
  <2>2. config' = [config EXCEPT ![i] = p] /\ Saves(u, Detached(proc, i))
    BY <1>1, <1>3 DEF UpdateResumes, Typed
  <2>3. p.at = proc[u].at
    BY <1>3 DEF TellInv, ValidatesRight, Updating, UpdateResumes
  <2>4. p.refs = MergeRefs(config[i].refs, proc[u].ans) OBVIOUS
  <2>5. p \in Project
    <3>1. proc[u].ans \in SUBSET Keys /\ proc[u].at \in Endpoints
      BY <1>1, <1>3 DEF Typed, ProcState, Answers
    <3>2. config[i].at \in Endpoints /\ config[i].refs \in Refs
      BY <1>1, <1>3, <2>1, ProjectParts
    <3>3. MergeRefs(config[i].refs, proc[u].ans) \in Refs BY <3>1, <3>2, MergeTypes
    <3>4. WithFields(config[i].at, proc[u].at, proc[u].sets) \in Endpoints
      BY <3>1, <3>2, WithFieldsTypes
    <3> QED BY <3>3, <3>4 DEF Project
  <2> HIDE DEF p
  <2>6. /\ config'[i] = p /\ config'[i] # None
        /\ \A j \in Ids \ {i} : config'[j] = config[j]
    BY <1>1, <2>1, <2>2, <2>5, ProjectSet DEF Listed
  <2>7. Detached(proc, i) \in [Tasks -> ProcState]
        /\ Detached(proc, i)[u].id = i /\ Detached(proc, i)[u].ans = proc[u].ans
        /\ Detached(proc, i)[u].at = proc[u].at
    BY <1>1, DetachedKeeps DEF Typed
  <2>8. /\ loop' = u /\ proc'[u].pc = "saved" /\ proc'[u].id = i
        /\ proc'[u].ans = proc[u].ans /\ proc'[u].at = proc[u].at
        /\ \A v \in Tasks \ {u} : proc'[v] = Detached(proc, i)[v]
    <3>1. Detached(proc, i)[u].id \in Ids BY <2>1, <2>7
    <3> QED BY <1>1, <2>2, <2>7, <3>1, SavesMoves
  <2>9. \A v \in Tasks \ {u} : Same(v) /\ (proc'[v].holds => proc[v].id # i)
    BY <1>1, <2>8, DetachedKeeps DEF Typed, Same
  <2>10. \A v \in Holders \ {u} : proc'[v].holds =>
           config'[proc[v].id].at = config[proc[v].id].at
    <3>1. ASSUME NEW v \in Holders, proc'[v].holds
          PROVE  proc[v].id \in Ids /\ proc[v].id # i
      <4>1. v \in Tasks \ {u} BY <1>1, TaskClasses
      <4> QED BY <1>1, <2>9, <3>1, <4>1 DEF HoldInv, HeldIsListed, Same
    <3> QED BY <2>6, <3>1
  <2>11. Updaters \ {u} = {} BY DEF OneUpdater
  <2>12. DOMAIN config'[i].refs = proc[u].ans BY <2>4, <2>6 DEF MergeRefs
  <2>13. IF proc'[u].ans = Failed THEN config' = config
         ELSE /\ config'[i] # None /\ config'[i].at = proc'[u].at
              /\ DOMAIN config'[i].refs = proc'[u].ans
    BY <1>3, <2>3, <2>6, <2>8, <2>12
  <2>14. /\ proc'[u].pc = "saved" /\ proc'[u].id = i /\ loop' = u
         /\ \A v \in Tasks \ {u} : Same(v)
    BY <2>8, <2>9
  <2> HIDE DEF i
  <2> QED BY <1>1, <2>1, <2>6, <2>10, <2>11, <2>13, <2>14, LoopEntered
<1> QED BY <1>2, <1>3 DEF UpdateResumes

LEMMA StartCreateTells ==
  ASSUME IInv, TellInv, NEW c \in Creators, NEW id \in Ids, NEW at \in Endpoints,
         StartCreate(c, id, at)
  PROVE  TellInv'
<1>1. /\ Typed /\ c \in Tasks /\ c \notin Holders /\ c \notin Updaters
      /\ loop = None /\ id \in unborn /\ unborn' = unborn \ {id}
      /\ UNCHANGED <<config, rt, loop>> /\ Asks(c, id, at, {})
  BY TaskClasses DEF IInv, Tasks, Routes, StartCreate, Requests
<1>2. /\ proc'[c].pc = "asked" /\ proc'[c].id = id
      /\ \A v \in Tasks \ {c} : proc'[v] = proc[v]
  BY <1>1, AsksMoves
<1>3. \A j \in Ids : ~Pending(j)' /\ ~Pending(j) BY <1>1 DEF Pending
<1>4. \A j \in Ids : Tells(j)' BY <1>1, <1>3 DEF TellInv, Tells, Listed
<1>5. \A u \in Updaters : Updating(u) => proc'[c].id # proc[u].id
  BY <1>1, <1>2 DEF TellInv, ValidatesRight
<1> QED BY <1>1, <1>2, <1>4, <1>5, FreeMoves

LEMMA CreateResumesTells ==
  ASSUME IInv, TellInv, NEW c \in Creators, CreateResumes(c) PROVE TellInv'
<1> DEFINE i == proc[c].id
<1>1. /\ Typed /\ HoldInv /\ BirthInv /\ Creating(c)
      /\ c \in Tasks /\ c \in Routes /\ c \notin Holders /\ c \notin Updaters
      /\ UNCHANGED <<rt, unborn>> /\ loop = None
  BY TaskClasses DEF IInv, Tasks, Routes, CreateResumes, Creating
<1>2. CASE proc' = [proc EXCEPT ![c] = Idle] /\ UNCHANGED <<config, loop>>
  BY <1>1, <1>2, EndsTells
<1>3. CASE proc[c].ans # Failed
  <2> DEFINE p == [at |-> proc[c].at, refs |-> [k \in proc[c].ans |-> TRUE]]
  <2>1. i \in Ids /\ ~Listed(i) BY <1>1 DEF BirthInv
  <2>2. p \in Project
    <3>1. proc[c].ans \in SUBSET Keys /\ proc[c].at \in Endpoints
      BY <1>1, <1>3 DEF Typed, ProcState, Answers
    <3>2. [k \in proc[c].ans |-> TRUE] \in [proc[c].ans -> BOOLEAN] OBVIOUS
    <3>3. [k \in proc[c].ans |-> TRUE] \in Refs BY <3>1, <3>2 DEF Refs
    <3> QED BY <3>1, <3>3 DEF Project
  <2>3. config' = [config EXCEPT ![i] = p] /\ Saves(c, proc)
    BY <1>3 DEF CreateResumes
  <2>4. p.at = proc[c].at /\ DOMAIN p.refs = proc[c].ans OBVIOUS
  <2> HIDE DEF p
  <2>5. /\ config'[i] = p /\ config'[i] # None
        /\ \A j \in Ids \ {i} : config'[j] = config[j]
    BY <1>1, <2>1, <2>2, <2>3, ProjectSet DEF Listed
  <2>6. /\ loop' = c /\ proc'[c].pc = "saved" /\ proc'[c].id = i
        /\ proc'[c].ans = proc[c].ans /\ proc'[c].at = proc[c].at
        /\ \A v \in Tasks \ {c} : proc'[v] = proc[v]
    <3>1. proc[c].id \in Ids BY <2>1
    <3> QED BY <1>1, <2>3, <3>1, SavesMoves DEF Typed
  <2>7. \A v \in Tasks \ {c} : Same(v) BY <2>6 DEF Same
  <2>8. \A v \in Holders \ {c} : proc'[v].holds =>
          config'[proc[v].id].at = config[proc[v].id].at
    <3>1. \A v \in Holders : proc[v].holds => proc[v].id \in Ids /\ proc[v].id # i
      BY <1>1, <2>1 DEF HoldInv, HeldIsListed
    <3> QED BY <1>1, <2>5, <2>6, <3>1, TaskClasses
  <2>9. \A v \in Updaters \ {c} : Updating(v) /\ config'[proc[v].id] # None =>
          config[proc[v].id] # None /\ config'[proc[v].id].at = config[proc[v].id].at
    <3>1. \A v \in Updaters : Updating(v) => proc[v].id \in Ids /\ proc[v].id # i
      BY <1>1 DEF Typed, ProcState, Updating, Tasks, Routes, TellInv, ValidatesRight
    <3> QED BY <2>5, <3>1
  <2>10. IF proc'[c].ans = Failed THEN config' = config
         ELSE /\ config'[i] # None /\ config'[i].at = proc'[c].at
              /\ DOMAIN config'[i].refs = proc'[c].ans
    BY <1>3, <2>4, <2>5, <2>6
  <2>11. proc'[c].pc = "saved" /\ proc'[c].id = i /\ loop' = c BY <2>6
  <2> HIDE DEF i
  <2> QED BY <1>1, <2>1, <2>5, <2>7, <2>8, <2>9, <2>10, <2>11, LoopEntered
<1> QED BY <1>2, <1>3 DEF CreateResumes

(* A list changes in a thread: an entry goes, or its endpoint and its keys *)
(* stay.                                                                   *)
LEMMA ThreadTells ==
  ASSUME IInv, TellInv, UNCHANGED <<rt, loop, unborn>>, \A u \in Tasks : Same(u),
         \A id \in Ids : config'[id] # None =>
           /\ config[id] # None /\ config'[id].at = config[id].at
           /\ DOMAIN config'[id].refs = DOMAIN config[id].refs,
         \A u \in Holders : proc'[u].holds => config'[proc[u].id] # None
  PROVE  TellInv'
<1>1. loop # None => loop \in Tasks BY DEF IInv, Typed, Tasks
<1>2. ASSUME NEW id \in Ids PROVE Tells(id)'
  <2>1. Pending(id)' <=> Pending(id) BY <1>1 DEF Pending, Same
  <2> QED BY <2>1 DEF TellInv, Tells, Listed
<1>3. ASSUME NEW u \in Holders PROVE AskedRight(u)'
  <2>1. Same(u) /\ (proc[u].holds => proc[u].id \in Ids)
    BY TaskClasses DEF IInv, HoldInv, HeldIsListed
  <2> QED BY <2>1 DEF TellInv, AskedRight, Same
<1>4. ASSUME NEW u \in Updaters PROVE ValidatesRight(u)'
  <2>1. Same(u) /\ (Updating(u) => proc[u].id \in Ids)
    BY DEF Tasks, Routes, IInv, Typed, ProcState, Updating
  <2>2. \A c \in Creators : Creating(c)' => Creating(c) /\ proc'[c].id = proc[c].id
    BY TaskClasses DEF Creating, Same
  <2> QED BY <2>1, <2>2 DEF TellInv, ValidatesRight, Updating, Listed, Same
<1>5. SavedRight'
  <2>1. \A u \in Tasks : proc'[u].pc = "saved" => loop = u
    BY DEF TellInv, SavedRight, Same
  <2>2. loop # None => proc[loop].pc = "saved" /\ proc[loop].id \in Ids /\ Same(loop)
    BY <1>1 DEF TellInv, SavedRight, IInv, Typed, ProcState
  <2> QED BY <2>1, <2>2 DEF TellInv, SavedRight, Listed, Same
<1> QED BY <1>2, <1>3, <1>4, <1>5 DEF TellInv

LEMMA DeleteRemovesTells ==
  ASSUME IInv, TellInv, NEW id \in Ids, DeleteRemoves(id) PROVE TellInv'
<1>1. Typed /\ HoldInv /\ UNCHANGED <<rt, loop, unborn>>
      /\ config' = [config EXCEPT ![id] = None] /\ proc' = Detached(proc, id)
  BY DEF DeleteRemoves, IInv
<1>2. config'[id] = None /\ \A j \in Ids \ {id} : config'[j] = config[j]
  BY <1>1 DEF Typed
<1>3. \A u \in Tasks : Same(u) /\ (proc'[u].holds => proc[u].id # id)
  BY <1>1, DetachedKeeps DEF Typed, Same
<1>4. \A u \in Holders : proc'[u].holds => config'[proc[u].id] # None
  BY <1>1, <1>2, <1>3, TaskClasses DEF HoldInv, HeldIsListed, Listed, Same
<1> QED BY <1>1, <1>2, <1>3, <1>4, ThreadTells

LEMMA SetVisibleTells ==
  ASSUME IInv, TellInv, NEW i \in Ids, NEW k \in Keys, SetVisible(i, k) PROVE TellInv'
<1> DEFINE refs == [config[i].refs EXCEPT ![k] = ~config[i].refs[k]]
           p == [config[i] EXCEPT !.refs = refs]
<1>1. Typed /\ HoldInv /\ Listed(i) /\ UNCHANGED <<rt, loop, proc, unborn>>
  BY DEF SetVisible, IInv
<1>2. config' = [config EXCEPT ![i] = p] BY Zenon DEF SetVisible
<1>3. config[i] \in Project BY <1>1, ProjectParts
<1>4. DOMAIN refs = DOMAIN config[i].refs OBVIOUS
<1>5. p.refs = refs /\ p.at = config[i].at
  <2> HIDE DEF refs
  <2> QED BY <1>3 DEF Project
<1> HIDE DEF p, refs
<1>6. config'[i] = p /\ \A j \in Ids \ {i} : config'[j] = config[j]
  BY <1>1, <1>2 DEF Typed
<1>7. \A u \in Tasks : Same(u) BY <1>1 DEF Same
<1>8. \A j \in Ids : config'[j] # None <=> config[j] # None
  <2>1. p # None
    <3>1. PICK K \in SUBSET Keys : config[i].refs \in [K -> BOOLEAN]
      BY <1>3 DEF Project, Refs
    <3>2. refs \in [K -> BOOLEAN] BY <3>1 DEF refs
    <3>3. refs \in Refs BY <3>2 DEF Refs
    <3>4. p \in Project BY <1>3, <3>3 DEF p, Project
    <3> QED BY <3>4, NoneIsNoValue
  <2> QED BY <1>1, <1>6, <2>1 DEF Listed
<1>9. \A u \in Holders : proc'[u].holds => config'[proc[u].id] # None
  BY <1>1, <1>8 DEF HoldInv, HeldIsListed, Listed
<1> QED BY <1>1, <1>4, <1>5, <1>6, <1>7, <1>8, <1>9, ThreadTells
LEMMA DeleteForgetsTells ==
  ASSUME IInv, TellInv, NEW id \in Ids, DeleteForgets(id) PROVE TellInv'
<1>1. UNCHANGED <<config, proc, loop, unborn>> BY DEF DeleteForgets
<1>2. ASSUME NEW j \in Ids PROVE Tells(j)'
  <2>1. rt'[j] = rt[j] \/ rt'[j] = None BY DEF DeleteForgets, IInv, Typed
  <2>2. Pending(j)' <=> Pending(j) BY <1>1 DEF Pending
  <2> QED BY <1>1, <2>1, <2>2, RuntimeStillTells
<1> QED BY <1>1, <1>2, QuietTells

LEMMA LinkLostTells == ASSUME IInv, TellInv, LinkLost PROVE TellInv'
<1>1. Typed /\ UNCHANGED <<config, proc, loop, unborn>> BY DEF LinkLost, IInv
<1>2. ASSUME NEW j \in Ids PROVE Tells(j)'
  <2>1. rt'[j] = rt[j] \/ rt'[j] = Paused(Previous(j)) BY DEF LinkLost
  <2>2. Pending(j)' <=> Pending(j) BY <1>1 DEF Pending
  <2> QED BY <1>1, <2>1, <2>2, PausedParts, RuntimeStillTells
<1> QED BY <1>1, <1>2, QuietTells

LEMMA StutterTells ==
  ASSUME TellInv, UNCHANGED <<config, rt, proc, loop, unborn>> PROVE TellInv'
<1>1. ASSUME NEW j \in Ids PROVE Tells(j)'
  <2>1. Pending(j)' <=> Pending(j) BY DEF Pending
  <2> QED BY <2>1, RuntimeStillTells
<1> QED BY <1>1, QuietTells

LEMMA NextTells == ASSUME OneUpdater, IInv, TellInv, [Next]_vars PROVE TellInv'
<1>1. CASE Poll BY <1>1, PollTickTells, PollResumesTells DEF Poll
<1>2. CASE Fetch BY <1>2, StartFetchTells, FetchResumesTells, FetchRecordsTells DEF Fetch
<1>3. CASE Update
  BY <1>3, UpdateInPlaceTells, StartUpdateTells, UpdateResumesTells DEF Update
<1>4. CASE Create BY <1>4, StartCreateTells, CreateResumesTells DEF Create
<1>5. CASE Threads
  BY <1>5, DeleteRemovesTells, DeleteForgetsTells, SetVisibleTells DEF Threads
<1>6. CASE \E t \in Tasks : UpstreamAnswers(t) \/ RouteFinishes(t)
  BY <1>6, UpstreamAnswersTells, RouteFinishesTells
<1>7. CASE LinkLost BY <1>7, LinkLostTells
<1>8. CASE LinkReturns \/ UpstreamChanges \/ UNCHANGED vars
  <2>1. UNCHANGED <<config, rt, proc, loop, unborn>>
    BY <1>8 DEF LinkReturns, UpstreamChanges, vars
  <2> QED BY <2>1, StutterTells
<1> QED BY <1>1, <1>2, <1>3, <1>4, <1>5, <1>6, <1>7, <1>8 DEF Next

LEMMA InitTells == ASSUME Init PROVE TellInv
<1>1. loop = None /\ \A t \in Tasks : proc[t].pc = "idle" /\ proc[t].holds = FALSE
  BY IdleTypes DEF Init
<1>2. \A id \in Ids : Tells(id) BY DEF Init, Tells
<1>3. \A t \in Holders : AskedRight(t) BY <1>1, TaskClasses DEF AskedRight
<1>4. \A u \in Updaters : ValidatesRight(u)
  BY <1>1 DEF ValidatesRight, Updating, Tasks, Routes
<1>5. SavedRight BY <1>1 DEF SavedRight
<1> QED BY <1>2, <1>3, <1>4, <1>5 DEF TellInv

(* For every number of projects, checks, fetches and creations, with one   *)
(* update at a time: whenever the loop is free, what is shown of a project *)
(* comes from its endpoint and names only checks of its list, whatever     *)
(* polls, routes and deletions are in flight                               *)
(* (services/healthchecks.py:43-46, 65-66, 75-76).                         *)
THEOREM RuntimeTells == ASSUME OneUpdater PROVE Spec => []RuntimeTellsProject
<1>1. Init => IInv /\ TellInv BY InitInv, InitTells
<1>2. IInv /\ TellInv /\ [Next]_vars => (IInv /\ TellInv)' BY NextInv, NextTells
<1>3. TellInv => RuntimeTellsProject
  BY DEF TellInv, Tells, Pending, RuntimeTellsProject, Listed
<1> QED BY <1>1, <1>2, <1>3, PTL DEF Spec
=============================================================================
