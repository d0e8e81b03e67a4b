---------------------------- MODULE Healthchecks ----------------------------
(***************************************************************************)
(* The Healthchecks projects of tether_ddns: the poll job of each project, *)
(* the manual fetch, the routes that create, edit and delete a project or  *)
(* switch a check off, and the link that comes and goes around them.       *)
(*                                                                         *)
(* A step is what the code does between two awaits.  While a route on the  *)
(* loop is inside `persist' the loop is blocked (loop holds that task) but *)
(* the threads of the plain routes go on; this is where a deletion can     *)
(* slip in between the write of a list and the write of the runtime.       *)
(***************************************************************************)
EXTENDS Naturals, FiniteSets, Functions

CONSTANTS
  Ids,          \* project ids; a poll task bears the id of its project
  Keys,         \* unique keys of checks
  Urls, ApiKeys,
  Valid,        \* the endpoints (url and key) that upstream accepts
  Fetchers, Updaters, Creators,   \* the requests that may be in progress
  InitialIds,   \* the projects configured when the process starts
  FirstEndpoint,
  FieldSets,    \* the endpoint fields an update may carry
  None, Failed,
  MaxRequests,  \* bound: requests of the routes
  MaxLists      \* bound: changes of a list of checks upstream

Routes == Fetchers \cup Updaters \cup Creators
Tasks == Ids \cup Routes
Endpoints == Urls \X ApiKeys
Refs == UNION {[K -> BOOLEAN] : K \in SUBSET Keys}
Project == [at : Endpoints, refs : Refs]
(* of is a ghost: the endpoint whose answer the checks shown come from.    *)
Runtime == [offline : BOOLEAN, keys : SUBSET Keys, of : Endpoints \cup {None}]

ASSUME HealthchecksAssumption ==
  /\ Ids \cap Routes = {} /\ InitialIds \subseteq Ids
  /\ Fetchers \cap Updaters = {} /\ (Fetchers \cup Updaters) \cap Creators = {}
  /\ Valid \subseteq Endpoints /\ FirstEndpoint \in Endpoints
  /\ {MaxRequests, MaxLists} \subseteq Nat
  /\ FieldSets \subseteq SUBSET {"url", "key"}
  /\ None \notin Project \cup Runtime \cup Endpoints \cup Ids \cup Routes
  /\ \A K \in SUBSET Keys : K # Failed

VARIABLES
  config,    \* the listed project of an id, or None
  rt,        \* RuntimeState.healthchecks
  online,    \* RuntimeState.online
  jobs,      \* the poll jobs
  proc,      \* the requests in progress
  loop,      \* the task inside `persist', which blocks the loop, or None
  deleting,  \* the ids whose delete route has still to forget the rest
  unborn,    \* the ids that no project has had
  listing,   \* upstream: the checks of each site
  spent      \* events counted against their bounds

vars == <<config, rt, online, jobs, proc, loop, deleting, unborn, listing, spent>>

Idle == [pc |-> "idle", id |-> None, holds |-> FALSE, at |-> FirstEndpoint,
         ans |-> Failed, run |-> FALSE, sets |-> {}]

Listed(id) == config[id] # None
NeverPolled == [offline |-> FALSE, keys |-> {}, of |-> None]
Previous(id) == IF rt[id] = None THEN NeverPolled ELSE rt[id]

-----------------------------------------------------------------------------
(* What the code computes *)

(* Mutant: every check of the answer is shown again. *)
MergeAllShown(refs, remote) == [k \in remote |-> TRUE]
MergeRefs(refs, remote) ==
  [k \in remote |-> IF k \in DOMAIN refs THEN refs[k] ELSE TRUE]

(* Mutant: the answer of a poll is not filtered to the fetched checks. *)
SucceededUnfiltered(at, known, remote) ==
  [offline |-> FALSE, keys |-> remote, of |-> at]
Succeeded(at, known, remote) ==
  [offline |-> FALSE, keys |-> remote \cap known, of |-> at]

(* Mutant: a failing poll leaves the offline flag alone. *)
FailedStillPaused(prior) == prior
FailedAfter(prior) == [prior EXCEPT !.offline = FALSE]

Paused(prior) == [prior EXCEPT !.offline = TRUE]

(* Mutant: the project is looked up by its id, not by its identity. *)
StillListedById(locals) == Listed(locals.id)
StillListed(locals) == locals.holds

(* A list entry that is replaced or removed is no longer the object that   *)
(* the requests of that project hold.                                      *)
Detached(procs, id) ==
  [t \in Tasks |-> IF procs[t].id = id THEN [procs[t] EXCEPT !.holds = FALSE]
                   ELSE procs[t]]

Asks(t, id, at, sets) ==
  proc' = [proc EXCEPT ![t] =
    [pc |-> "asked", id |-> id, holds |-> TRUE, at |-> at, ans |-> Failed,
     run |-> FALSE, sets |-> sets]]

Saves(t, procs) ==
  /\ proc' = [procs EXCEPT ![t].pc = "saved"]
  /\ loop' = t

-----------------------------------------------------------------------------
(* The poll job *)

(* Mutant: a skipped poll does not flag its project. *)
PollPausesNothing(id) == rt' = rt
PollPauses(id) == rt' = [rt EXCEPT ![id] = Paused(Previous(id))]

(* A tick of the job.  APScheduler skips it while the last run goes on.    *)
(* A tick may come at any time: a nudge or run_now only brings it forward. *)
PollTick(id) ==
  /\ id \in jobs /\ loop = None
  /\ IF proc[id].pc # "idle" \/ ~Listed(id) THEN UNCHANGED <<rt, proc>>
     ELSE IF ~online THEN PollPauses(id) /\ UNCHANGED proc
     ELSE Asks(id, id, config[id].at, {}) /\ UNCHANGED rt
  /\ UNCHANGED <<config, online, jobs, loop, deleting, unborn, listing,
                 spent>>

(* list_checks: upstream lists its checks, or the request fails. *)
UpstreamAnswers(t) ==
  /\ proc[t].pc = "asked"
  /\ \E ans \in {Failed} \cup (IF proc[t].at \in Valid
                               THEN {listing[proc[t].at[1]]} ELSE {}) :
       proc' = [proc EXCEPT ![t].pc = "answered", ![t].ans = ans]
  /\ UNCHANGED <<config, rt, online, jobs, loop, deleting, unborn,
                 listing, spent>>

PollResumes(id) ==
  /\ proc[id].pc = "answered" /\ loop = None
  /\ rt' = IF ~StillListed(proc[id]) THEN rt
           ELSE [rt EXCEPT ![id] =
                  IF proc[id].ans = Failed THEN FailedAfter(Previous(id))
                  ELSE Succeeded(proc[id].at, DOMAIN config[id].refs, proc[id].ans)]
  /\ proc' = [proc EXCEPT ![id] = Idle]
  /\ UNCHANGED <<config, online, jobs, loop, deleting, unborn,
                 listing, spent>>

-----------------------------------------------------------------------------
(* The routes on the loop *)

Requests ==
  /\ loop = None /\ spent.requests < MaxRequests
  /\ spent' = [spent EXCEPT !.requests = @ + 1]

StartFetch(f, id) ==
  /\ Requests /\ proc[f].pc = "idle" /\ Listed(id)
  /\ Asks(f, id, config[id].at, {})
  /\ UNCHANGED <<config, rt, online, jobs, loop, deleting, unborn,
                 listing>>

FetchResumes(f) ==
  /\ proc[f].pc = "answered" /\ loop = None
  /\ IF proc[f].ans = Failed \/ ~StillListed(proc[f])
     THEN proc' = [proc EXCEPT ![f] = Idle] /\ UNCHANGED <<config, loop>>
     ELSE /\ config' = [config EXCEPT ![proc[f].id].refs =
                         MergeRefs(@, proc[f].ans)]
          /\ Saves(f, proc)
  /\ UNCHANGED <<rt, online, jobs, deleting, unborn, listing, spent>>

(* After `persist': the outcome is recorded, whatever a thread did.        *)
FetchRecords(f) ==
  /\ proc[f].pc = "saved" /\ loop = f
  /\ rt' = [rt EXCEPT ![proc[f].id] =
             Succeeded(proc[f].at, proc[f].ans, proc[f].ans)]
  /\ proc' = [proc EXCEPT ![f] = Idle] /\ loop' = None
  /\ UNCHANGED <<config, online, jobs, deleting, unborn, listing,
                 spent>>

(* An update that leaves the endpoint alone stores a new object at once;   *)
(* run tells whether it changed the interval.                              *)
UpdateInPlace(u, id, run) ==
  /\ Requests /\ proc[u].pc = "idle" /\ Listed(id)
  /\ Saves(u, [Detached(proc, id) EXCEPT ![u] =
                [Idle EXCEPT !.id = id, !.run = run]])
  /\ UNCHANGED <<config, rt, online, jobs, deleting, unborn, listing>>

(* Mutant: the parts of the endpoint are put together in the wrong order. *)
FieldsSwapped(at, new, sets) ==
  <<IF "key" \in sets THEN new[2] ELSE at[2],
    IF "url" \in sets THEN new[1] ELSE at[1]>>
(* The fields set by a request replace those of the stored project.        *)
WithFields(at, new, sets) ==
  <<IF "url" \in sets THEN new[1] ELSE at[1],
    IF "key" \in sets THEN new[2] ELSE at[2]>>

StartUpdate(u, id, new, sets) ==
  /\ Requests /\ proc[u].pc = "idle" /\ Listed(id)
  /\ LET at == WithFields(config[id].at, new, sets)
     IN  at # config[id].at /\ Asks(u, id, at, sets)
  /\ UNCHANGED <<config, rt, online, jobs, loop, deleting, unborn,
                 listing>>

(* The project is looked up again after the validation: 404 if it is gone. *)
UpdateResumes(u) ==
  /\ proc[u].pc = "answered" /\ loop = None
  /\ LET id == proc[u].id IN
     IF proc[u].ans = Failed \/ ~Listed(id)
     THEN proc' = [proc EXCEPT ![u] = Idle] /\ UNCHANGED <<config, loop>>
     ELSE /\ config' = [config EXCEPT ![id] =
               [at |-> WithFields(@.at, proc[u].at, proc[u].sets),
                refs |-> MergeRefs(@.refs, proc[u].ans)]]
          /\ Saves(u, Detached(proc, id))
  /\ UNCHANGED <<rt, online, jobs, deleting, unborn, listing, spent>>

StartCreate(c, id, at) ==
  /\ Requests /\ proc[c].pc = "idle" /\ id \in unborn
  /\ Asks(c, id, at, {})
  /\ unborn' = unborn \ {id}
  /\ UNCHANGED <<config, rt, online, jobs, loop, deleting, listing>>

CreateResumes(c) ==
  /\ proc[c].pc = "answered" /\ loop = None
  /\ IF proc[c].ans = Failed
     THEN proc' = [proc EXCEPT ![c] = Idle] /\ UNCHANGED <<config, loop>>
     ELSE /\ config' = [config EXCEPT ![proc[c].id] =
               [at |-> proc[c].at, refs |-> [k \in proc[c].ans |-> TRUE]]]
          /\ Saves(c, proc)
  /\ UNCHANGED <<rt, online, jobs, deleting, unborn, listing, spent>>

(* schedule_healthchecks adds or replaces the job. *)
Schedules(id) == jobs' = jobs \cup {id}

(* After `persist': a validated answer is recorded and its job scheduled;  *)
(* an update in place schedules if the interval changed.                   *)
RouteFinishes(t) ==
  /\ t \in Updaters \cup Creators /\ proc[t].pc = "saved" /\ loop = t
  /\ LET l == proc[t] IN
     IF l.ans # Failed
     THEN /\ rt' = [rt EXCEPT ![l.id] = Succeeded(l.at, l.ans, l.ans)]
          /\ Schedules(l.id)
     ELSE /\ UNCHANGED rt
          /\ IF l.run THEN Schedules(l.id) ELSE UNCHANGED jobs
  /\ proc' = [proc EXCEPT ![t] = Idle] /\ loop' = None
  /\ UNCHANGED <<config, online, deleting, unborn, listing, spent>>

-----------------------------------------------------------------------------
(* The routes in threads *)

DeleteRemoves(id) ==
  /\ Listed(id) /\ spent.requests < MaxRequests
  /\ config' = [config EXCEPT ![id] = None]
  /\ proc' = Detached(proc, id)
  /\ deleting' = deleting \cup {id}
  /\ spent' = [spent EXCEPT !.requests = @ + 1]
  /\ UNCHANGED <<rt, online, jobs, loop, unborn, listing>>

DeleteForgets(id) ==
  /\ id \in deleting
  /\ deleting' = deleting \ {id}
  /\ jobs' = jobs \ {id}
  /\ rt' = [rt EXCEPT ![id] = None]
  /\ UNCHANGED <<config, online, proc, loop, unborn, listing, spent>>

SetVisible(id, k) ==
  /\ Listed(id) /\ k \in DOMAIN config[id].refs /\ spent.requests < MaxRequests
  /\ config' = [config EXCEPT ![id].refs[k] = ~@]
  /\ spent' = [spent EXCEPT !.requests = @ + 1]
  /\ UNCHANGED <<rt, online, jobs, proc, loop, deleting, unborn,
                 listing>>

-----------------------------------------------------------------------------
(* The link, and upstream *)

(* Mutant: mark_offline goes by the poll jobs, not by the list. *)
JobsPaused == jobs
LossPauses == {id \in Ids : Listed(id)}

(* check_reachability up to its dispatch: one step. *)
LinkLost ==
  /\ online /\ loop = None
  /\ online' = FALSE
  /\ rt' = [id \in Ids |-> IF id \in LossPauses THEN Paused(Previous(id)) ELSE rt[id]]
  /\ UNCHANGED <<config, jobs, proc, loop, deleting, unborn, listing, spent>>

LinkReturns ==
  /\ ~online /\ loop = None
  /\ online' = TRUE
  /\ UNCHANGED <<config, rt, jobs, proc, loop, deleting, unborn, listing, spent>>

UpstreamChanges ==
  /\ spent.lists < MaxLists
  /\ \E url \in Urls, K \in SUBSET Keys :
       K # listing[url] /\ listing' = [listing EXCEPT ![url] = K]
  /\ spent' = [spent EXCEPT !.lists = @ + 1]
  /\ UNCHANGED <<config, rt, online, jobs, proc, loop, deleting,
                 unborn>>

-----------------------------------------------------------------------------
Init ==
  /\ config \in [Ids -> {None} \cup [at : {FirstEndpoint}, refs : Refs]]
  /\ \A id \in Ids : Listed(id) <=> id \in InitialIds
  /\ rt = [id \in Ids |-> None]
  /\ online \in BOOLEAN
  /\ jobs = InitialIds
  /\ proc = [t \in Tasks |-> Idle] /\ loop = None
  /\ deleting = {} /\ unborn = Ids \ InitialIds
  /\ listing = [url \in Urls |-> Keys]
  /\ spent = [requests |-> 0, lists |-> 0]

Poll == \E id \in Ids : PollTick(id) \/ PollResumes(id)
Fetch == \E f \in Fetchers : \/ \E id \in Ids : StartFetch(f, id)
                             \/ FetchResumes(f) \/ FetchRecords(f)
Update == \E u \in Updaters :
            \/ \E id \in Ids, run \in BOOLEAN : UpdateInPlace(u, id, run)
            \/ \E id \in Ids, new \in Endpoints, sets \in FieldSets :
                 StartUpdate(u, id, new, sets)
            \/ UpdateResumes(u)
Create == \E c \in Creators : \/ \E id \in Ids, at \in Endpoints : StartCreate(c, id, at)
                              \/ CreateResumes(c)
Threads == \E id \in Ids : \/ DeleteRemoves(id) \/ DeleteForgets(id)
                           \/ \E k \in Keys : SetVisible(id, k)

Next == \/ Poll \/ Fetch \/ Update \/ Create \/ Threads
        \/ \E t \in Tasks : UpstreamAnswers(t) \/ RouteFinishes(t)
        \/ LinkLost \/ LinkReturns \/ UpstreamChanges

Spec == Init /\ [][Next]_vars

(* The scheduler keeps ticking, requests time out after 10 s, and what has *)
(* begun on the loop or in a thread goes on.                               *)
Fairness ==
  /\ \A id \in Ids : WF_vars(PollTick(id)) /\ WF_vars(PollResumes(id))
                     /\ WF_vars(DeleteForgets(id))
  /\ \A t \in Tasks : WF_vars(UpstreamAnswers(t)) /\ WF_vars(RouteFinishes(t))
  /\ \A f \in Fetchers : WF_vars(FetchResumes(f)) /\ WF_vars(FetchRecords(f))
  /\ \A u \in Updaters : WF_vars(UpdateResumes(u))
  /\ \A c \in Creators : WF_vars(CreateResumes(c))

FairSpec == Spec /\ Fairness

-----------------------------------------------------------------------------
(* Properties *)

TypeOK ==
  /\ config \in [Ids -> Project \cup {None}]
  /\ rt \in [Ids -> Runtime \cup {None}]
  /\ online \in BOOLEAN
  /\ jobs \subseteq Ids
  /\ proc \in [Tasks -> [pc : {"idle", "asked", "answered", "saved"},
                         id : Ids \cup {None}, holds : BOOLEAN, at : Endpoints,
                         ans : {Failed} \cup SUBSET Keys, run : BOOLEAN,
                         sets : SUBSET {"url", "key"}]]
  /\ loop \in Routes \cup {None}
  /\ deleting \subseteq Ids /\ unborn \subseteq Ids
  /\ listing \in [Urls -> SUBSET Keys]
  /\ spent \in [requests : Nat, lists : Nat]

(* What is shown of a project comes from the endpoint it is configured     *)
(* with and names only checks of its list: an answer to a poll of the old  *)
(* endpoint, or of a list fetched meanwhile, is not recorded               *)
(* (services/healthchecks.py:43-46, 65-66, 75-76).                         *)
RuntimeTellsProject ==
  loop = None =>
    \A id \in Ids : Listed(id) /\ rt[id] # None =>
      /\ rt[id].keys \subseteq DOMAIN config[id].refs
      /\ rt[id].of \in {None, config[id].at}

(* A check that stays listed is shown or hidden by the visibility route    *)
(* alone: no fetch, poll or update that was under way undoes a choice      *)
(* (services/healthchecks.py:19-23, api.py:486-491).                       *)
OnlyChoiceHides ==
  [][\A id \in Ids, k \in Keys :
       /\ Listed(id) /\ Listed(id)'
       /\ k \in DOMAIN config[id].refs /\ k \in DOMAIN config'[id].refs
       /\ config[id].refs[k] # config'[id].refs[k]
       => SetVisible(id, k)]_vars

(* A deleted project is brought back by no poll that was in flight, no     *)
(* tick and no loss of the link.  Only a route that was inside its         *)
(* `persist' during the deletion does it (api.py:491-494).                 *)
DeletedStaysForgotten ==
  [][\A id \in Ids : ~Listed(id) =>
       /\ rt[id] = None /\ rt'[id] # None => loop # None /\ proc[loop].id = id
       /\ id \notin jobs /\ id \in jobs' => loop # None /\ proc[loop].id = id]_vars

(* While the link stays down every project ends up flagged as paused, even *)
(* if an answer that was in flight took the flag away                      *)
(* (services/healthchecks.py:59-61, 70-71, 93-96).                         *)
DownIsPaused ==
  <>[]~online => <>[](\A id \in Ids : Listed(id) =>
                        rt[id] # None /\ rt[id].offline)

(* While it stays up no project stays flagged as paused, though upstream   *)
(* may fail every request and the nudge may find the job running           *)
(* (scheduler.py:121-127, services/healthchecks.py:64-71).                 *)
UpIsPolled ==
  <>[]online => <>[](\A id \in Ids : Listed(id) =>
                       rt[id] # None /\ ~rt[id].offline)
=============================================================================
