---------------------------- MODULE SyncService ----------------------------
(***************************************************************************)
(* The domain-sync core: SyncService (services/sync.py) over RuntimeState  *)
(* (runtime.py), with the /api/domains routes that edit the configuration  *)
(* underneath it and the restart that restores it from disk.               *)
(*                                                                         *)
(* Tasks run on one asyncio loop and give it up only at an await: `loop'   *)
(* names the task that holds it between two awaits.  The plain `def'       *)
(* routes and the state flush run in threads, so their actions are not     *)
(* held back by `loop'.  The public-IP source, the DDNS provider and the   *)
(* link are the environment.                                               *)
(***************************************************************************)
EXTENDS Naturals, Sequences, SequencesExt

CONSTANTS
  Ids,            (* domain ids (uuids: an id is never handed out twice)     *)
  Targets,        (* what a domain's record-affecting configuration names:   *)
                  (* provider, credentials, hostname and record type         *)
  FamilyOf,       (* the IP family of each target's record type              *)
  Registered,     (* the targets whose provider is in PROVIDER_REGISTRY      *)
  Addresses,      (* public addresses                                        *)
  None,           (* Python's None                                           *)
  Passes,         (* concurrent runs of sync_ips: the sync job, and the      *)
                  (* startup job and /refresh through check_once             *)
  Manuals,        (* concurrent /domains/{id}/sync requests                  *)
  Editors,        (* threads running a domain-editing route                  *)
  EditKinds,      (* which of "create", "update", "toggle", "delete" occur   *)
  LinkStates,     (* what reachability checks report: a subset of BOOLEAN    *)
  RebuildPreempted, (* whether the loop may run while a thread is inside      *)
                  (* rebuild, after it emptied the dict                      *)
  RetryOnFailure, (* settings.retry_on_failure                               *)
  InitialConfig,  (* config.domains at first start                           *)
  InitialWan,     (* the real public address of each family at first start   *)
  MaxMoves,       (* bound: changes of the real public address               *)
  MaxFails,       (* bound: failed detections and provider updates           *)
  MaxEdits,       (* bound: domain edits                                     *)
  MaxCrashes      (* bound: crashes or shutdowns followed by a restart       *)

Families == {"ipv4", "ipv6"}
Tasks == Passes \cup Manuals
DomainConfig == [id : Ids, target : Targets, enabled : BOOLEAN]

ASSUME SyncAssumption ==
  /\ FamilyOf \in [Targets -> Families]
  /\ Registered \subseteq Targets
  /\ None \notin Addresses \cup Targets \cup Tasks
  /\ Passes \cap Manuals = {}
  /\ EditKinds \subseteq {"create", "update", "toggle", "delete"}
  /\ LinkStates \subseteq BOOLEAN
  /\ {RebuildPreempted, RetryOnFailure} \subseteq BOOLEAN
  /\ InitialConfig \in Seq(DomainConfig)
  /\ InitialWan \in [Families -> Addresses \cup {None}]
  /\ {MaxMoves, MaxFails, MaxEdits, MaxCrashes} \subseteq Nat

(* The ids in the file are uuids: no two of its domains have the same. *)
ASSUME IdsAssumption ==
  \A i, j \in DOMAIN InitialConfig : InitialConfig[i].id = InitialConfig[j].id => i = j

VARIABLES
  cfg,        (* config.domains, the live list                               *)
  rt,         (* RuntimeState.domains, "absent" where the dict has no entry  *)
  known,      (* RuntimeState._configs: the target each domain was last      *)
              (* rebuilt with                                                *)
  pub,        (* public_ipv4 and public_ipv6                                 *)
  online,     (* RuntimeState.online                                         *)
  proc,       (* each task's local variables and where it awaits             *)
  loop,       (* the task holding the event loop, or None                    *)
  ed,         (* each editing thread's progress                              *)
  disk,       (* config.json and state.json                                  *)
  wan,        (* environment: the real public address of each family         *)
  record,     (* environment: the address each target's DNS record holds     *)
  acked,      (* history: updates the provider acknowledged                  *)
  told,       (* history: the last domain_update_* event of each domain      *)
  announced,  (* history: the last ip_changed event of each family           *)
  unborn,     (* ids not handed out yet                                      *)
  spent       (* how much of each bound is used                              *)

vars == <<cfg, rt, known, pub, online, proc, loop, ed, disk, wan, record,
          acked, told, announced, unborn, spent>>

Status == {"pending", "updating", "synced", "error"}
DomainRuntime == [status : Status \cup {"absent"}, ip : Addresses \cup {None}]
Absent  == [status |-> "absent",  ip |-> None]
Pending == [status |-> "pending", ip |-> None]

(* A task between awaits: pc names the await it is suspended at ("idle"    *)
(* when it is not running, "visit" while it holds the loop in the          *)
(* for-loop of sync_ips); the other fields are its locals.                 *)
Idle == [pc |-> "idle", fam |-> "ipv4", cur |-> [f \in Families |-> None],
         changed |-> {}, idx |-> 1, dom |-> None, ip |-> None,
         before |-> "absent"]

TaskState ==
  [pc : {"idle", "detect", "detected", "announce", "visit", "update",
         "acked", "refused", "hooks"},
   fam : Families, cur : [Families -> Addresses \cup {None}],
   changed : SUBSET Families, idx : Nat \ {0},
   dom : DomainConfig \cup {None}, ip : Addresses \cup {None},
   before : Status \cup {"absent"}]

(* The loop is free to resume a task; and while a task holds it, the task  *)
(* goes on.  Both wait for a rebuild that is not preempted.                *)
LoopRuns == RebuildPreempted \/ \A e \in Editors : ed[e].pc # "cleared"
Ready(t, pc) == LoopRuns /\ loop = None /\ proc[t].pc = pc

IdsIn(list) == {list[i].id : i \in DOMAIN list}
ConfigOf(list, id) == CHOOSE d \in Range(list) : d.id = id
TargetsOf(list) ==
  [id \in Ids |-> IF id \in IdsIn(list) THEN ConfigOf(list, id).target ELSE None]

-----------------------------------------------------------------------------
(* RuntimeState *)

(* RuntimeState.set_status: a domain that is gone is left alone. *)
SetStatus(domains, id, status, ip) ==
  IF domains[id].status = "absent" THEN domains
  ELSE [domains EXCEPT ![id] =
         [status |-> status, ip |-> IF ip = None THEN @.ip ELSE ip]]

(* Mutant: a status the UI does not know. *)
FreshnessMisnamed(assigned, current) ==
  IF assigned # None /\ assigned = current THEN "synced" ELSE "stale"
(* Mutant: two unknown addresses count as equal. *)
FreshnessOfUnknown(assigned, current) ==
  IF assigned = current THEN "synced" ELSE "pending"
Freshness(assigned, current) ==
  IF assigned # None /\ assigned = current THEN "synced" ELSE "pending"

(* Mutant: a disabled domain is not re-evaluated. *)
SetFreshnessNever(domains, id, current) == domains
(* RuntimeState.set_freshness: only moves between synced and pending. *)
SetFreshness(domains, id, current) ==
  IF domains[id].status \in {"absent", "error", "updating"} THEN domains
  ELSE [domains EXCEPT ![id].status = Freshness(domains[id].ip, current)]

(* RuntimeState.rebuild: what the domains become, given the runtimes and   *)
(* configurations remembered from before; `enabled' is not compared.       *)
Rebuilt(list, prev, prevKnown, now) ==
  [id \in Ids |->
    IF id \notin IdsIn(list) THEN now[id]
    ELSE IF /\ prev[id].status # "absent"
            /\ prevKnown[id] = ConfigOf(list, id).target
         THEN prev[id]
         ELSE Pending]

-----------------------------------------------------------------------------
(* refresh_public_ips, inside a run of sync_ips *)

(* sync_ips returns at once while offline; both current addresses are read *)
(* before the first await.                                                 *)
StartPass(p) ==
  /\ Ready(p, "idle") /\ online
  /\ proc' = [proc EXCEPT ![p] = [Idle EXCEPT !.pc = "detect", !.cur = pub]]
  /\ UNCHANGED <<cfg, rt, known, pub, online, loop, ed, disk, wan, record,
                 acked, told, announced, unborn, spent>>

(* The source answers with the address it sees, or detection fails. *)
SourceAnswers(t) ==
  /\ proc[t].pc = "detect"
  /\ \/ /\ proc' = [proc EXCEPT ![t].pc = "detected", ![t].ip = wan[proc[t].fam]]
        /\ UNCHANGED spent
     \/ /\ spent.fails < MaxFails
        /\ proc' = [proc EXCEPT ![t].pc = "detected", ![t].ip = None]
        /\ spent' = [spent EXCEPT !.fails = @ + 1]
  /\ UNCHANGED <<cfg, rt, known, pub, online, loop, ed, disk, wan, record,
                 acked, told, announced, unborn>>

(* The next family's detection, or the first domain of the for-loop. *)
NextFamily(p, locals) ==
  IF locals.fam = "ipv4"
  THEN /\ proc' = [proc EXCEPT ![p] =
                    [locals EXCEPT !.pc = "detect", !.fam = "ipv6", !.ip = None]]
       /\ loop' = None
  ELSE /\ proc' = [proc EXCEPT ![p] =
                    [locals EXCEPT !.pc = "visit", !.ip = None]]
       /\ loop' = p

(* Mutant: any detected address is news. *)
IsNewsAlways(locals) == locals.ip # None
IsNews(locals) == locals.ip # None /\ locals.ip # locals.cur[locals.fam]

NothingNew(p) ==
  /\ Ready(p, "detected") /\ ~IsNews(proc[p])
  /\ NextFamily(p, proc[p])
  /\ UNCHANGED <<cfg, rt, known, pub, online, ed, disk, wan, record, acked,
                 told, announced, unborn, spent>>

AnnounceAddress(p) ==
  /\ Ready(p, "detected") /\ IsNews(proc[p])
  /\ LET f == proc[p].fam IN
     /\ pub' = [pub EXCEPT ![f] = proc[p].ip]
     /\ announced' = [announced EXCEPT
                       ![f] = [old |-> proc[p].cur[f], new |-> proc[p].ip]]
     /\ proc' = [proc EXCEPT ![p].pc = "announce", ![p].changed = @ \cup {f}]
  /\ UNCHANGED <<cfg, rt, known, online, loop, ed, disk, wan, record, acked,
                 told, unborn, spent>>

AnnounceReturns(p) ==
  /\ Ready(p, "announce")
  /\ NextFamily(p, proc[p])
  /\ UNCHANGED <<cfg, rt, known, pub, online, ed, disk, wan, record, acked,
                 told, announced, unborn, spent>>

-----------------------------------------------------------------------------
(* The for-loop of sync_ips over the live list, and _sync_one *)

(* The task goes on to the next index without giving up the loop. *)
NextDomain(p, locals) ==
  /\ proc' = [proc EXCEPT ![p] = [locals EXCEPT
                !.pc = "visit", !.idx = @ + 1, !.dom = None, !.ip = None,
                !.before = "absent"]]
  /\ loop' = p

(* The task suspends in the dispatch of a domain_update_* event. *)
Dispatch(p, id, event) ==
  /\ told' = [told EXCEPT ![id] = event]
  /\ proc' = [proc EXCEPT ![p].pc = "hooks"]
  /\ loop' = None

Visiting(p) == LoopRuns /\ loop = p /\ proc[p].pc = "visit"
Current(p) == cfg[proc[p].idx]
AddressFor(d) == pub[FamilyOf[d.target]]

EndPass(p) ==
  /\ Visiting(p) /\ proc[p].idx > Len(cfg)
  /\ proc' = [proc EXCEPT ![p] = Idle]
  /\ loop' = None
  /\ UNCHANGED <<cfg, rt, known, pub, online, ed, disk, wan, record, acked,
                 told, announced, unborn, spent>>

VisitDisabled(p) ==
  /\ Visiting(p) /\ proc[p].idx <= Len(cfg) /\ ~Current(p).enabled
  /\ LET id == Current(p).id IN
     /\ rt' = SetFreshness(rt, id, AddressFor(Current(p)))
     /\ IF rt'[id].status = "pending" /\ rt[id].status # "pending"
        THEN Dispatch(p, id, "pending")
        ELSE NextDomain(p, proc[p]) /\ UNCHANGED told
  /\ UNCHANGED <<cfg, known, pub, online, ed, disk, wan, record, acked,
                 announced, unborn, spent>>

(* Mutant: a failed update is not retried. *)
NeedsSyncOnce(p, d) ==
  \/ FamilyOf[d.target] \in proc[p].changed
  \/ rt[d.id].status \in {"absent", "pending"}
(* The freshness/retry rule of _sync_one. *)
NeedsSync(p, d) ==
  \/ FamilyOf[d.target] \in proc[p].changed
  \/ rt[d.id].status \in {"absent", "pending"}
  \/ RetryOnFailure /\ rt[d.id].status = "error"

Due(p, d) == d.enabled /\ AddressFor(d) # None /\ NeedsSync(p, d)

VisitNothingToDo(p) ==
  /\ Visiting(p) /\ proc[p].idx <= Len(cfg)
  /\ Current(p).enabled /\ ~Due(p, Current(p))
  /\ NextDomain(p, proc[p])
  /\ UNCHANGED <<cfg, rt, known, pub, online, ed, disk, wan, record, acked,
                 told, announced, unborn, spent>>

(* sync_domain fails at once when the provider is not registered. *)
VisitUnknownProvider(p) ==
  /\ Visiting(p) /\ proc[p].idx <= Len(cfg)
  /\ LET d == Current(p) IN
     /\ Due(p, d) /\ d.target \notin Registered
     /\ rt' = SetStatus(rt, d.id, "error", None)
     /\ IF rt[d.id].status = "error"
        THEN NextDomain(p, proc[p]) /\ UNCHANGED told
        ELSE IF rt'[d.id].status # "absent"
        THEN Dispatch(p, d.id, "error")
        ELSE /\ proc' = [proc EXCEPT ![p] = Idle]
             /\ loop' = None
             /\ UNCHANGED told
  /\ UNCHANGED <<cfg, known, pub, online, ed, disk, wan, record, acked,
                 announced, unborn, spent>>

(* sync_domain up to the await of provider.update. *)
BeginUpdate(t, locals, d, ip) ==
  /\ d.target \in Registered
  /\ rt' = SetStatus(rt, d.id, "updating", None)
  /\ proc' = [proc EXCEPT ![t] = [locals EXCEPT
                !.pc = "update", !.dom = d, !.ip = ip,
                !.before = rt[d.id].status]]
  /\ loop' = None

(* Mutant: the address the pass began with is pushed. *)
AddressAtStart(p, d) ==
  IF proc[p].cur[FamilyOf[d.target]] # None
  THEN proc[p].cur[FamilyOf[d.target]] ELSE AddressFor(d)
(* The address is read when the domain is visited, not when the pass began. *)
AddressToPush(p, d) == AddressFor(d)

VisitUpdate(p) ==
  /\ Visiting(p) /\ proc[p].idx <= Len(cfg)
  /\ Due(p, Current(p))
  /\ BeginUpdate(p, proc[p], Current(p), AddressToPush(p, Current(p)))
  /\ UNCHANGED <<cfg, known, pub, online, ed, disk, wan, record, acked, told,
                 announced, unborn, spent>>

(* The provider applies the update and says so, or the call raises, with   *)
(* the record written or not.                                              *)
ProviderAnswers(t) ==
  /\ proc[t].pc = "update"
  /\ LET target == proc[t].dom.target
         written == [record EXCEPT ![target] = proc[t].ip]
     IN
     \/ /\ record' = written
        /\ acked' = acked \cup {<<proc[t].dom.id, target, proc[t].ip>>}
        /\ proc' = [proc EXCEPT ![t].pc = "acked"]
        /\ UNCHANGED spent
     \/ /\ spent.fails < MaxFails
        /\ record' \in {record, written}
        /\ proc' = [proc EXCEPT ![t].pc = "refused"]
        /\ spent' = [spent EXCEPT !.fails = @ + 1]
        /\ UNCHANGED acked
  /\ UNCHANGED <<cfg, rt, known, pub, online, loop, ed, disk, wan, told,
                 announced, unborn>>

(* The status sync_domain returns, and the one it leaves behind. *)
Terminal(locals) == IF locals.pc = "acked" THEN "synced" ELSE "error"
(* Mutant: no status is set when the provider raises. *)
FinishedIfAcked(locals) ==
  IF locals.pc = "acked"
  THEN SetStatus(rt, locals.dom.id, "synced", locals.ip) ELSE rt
(* Mutant: the public address is recorded instead of the pushed one. *)
FinishedAtCurrent(locals) ==
  IF locals.pc = "acked"
  THEN SetStatus(rt, locals.dom.id, "synced", AddressFor(locals.dom))
  ELSE SetStatus(rt, locals.dom.id, "error", None)
Finished(locals) ==
  IF locals.pc = "acked"
  THEN SetStatus(rt, locals.dom.id, "synced", locals.ip)
  ELSE SetStatus(rt, locals.dom.id, "error", None)

Answered(t) == Ready(t, "acked") \/ Ready(t, "refused")

(* Mutant: the first outcome of a domain is not announced. *)
ConfirmsFirst(locals) == locals.before \in {Terminal(locals), "pending"}
(* _sync_one after sync_domain: nothing is dispatched for the status the   *)
(* domain had before.                                                      *)
Confirms(locals) == Terminal(locals) = locals.before

UpdateConfirms(p) ==
  /\ Answered(p) /\ Confirms(proc[p])
  /\ rt' = Finished(proc[p])
  /\ NextDomain(p, proc[p])
  /\ UNCHANGED <<cfg, known, pub, online, ed, disk, wan, record, acked, told,
                 announced, unborn, spent>>

(* The error event reads state.domains[domain.id].                         *)
EventNeedsRuntime(locals) == Terminal(locals) = "error"

UpdateChanges(p) ==
  /\ Answered(p) /\ ~Confirms(proc[p])
  /\ LET d == proc[p].dom IN
     /\ EventNeedsRuntime(proc[p]) => rt[d.id].status # "absent"
     /\ rt' = Finished(proc[p])
     /\ Dispatch(p, d.id, IF Terminal(proc[p]) = "synced" THEN "success" ELSE "error")
  /\ UNCHANGED <<cfg, known, pub, online, ed, disk, wan, record, acked,
                 announced, unborn, spent>>

(* KeyError: the domain was deleted while its update was failing, and the  *)
(* exception ends the whole pass.                                          *)
UpdateOfDeletedRaises(p) ==
  /\ Answered(p) /\ ~Confirms(proc[p])
  /\ EventNeedsRuntime(proc[p]) /\ rt[proc[p].dom.id].status = "absent"
  /\ proc' = [proc EXCEPT ![p] = Idle]
  /\ UNCHANGED <<cfg, rt, known, pub, online, loop, ed, disk, wan, record,
                 acked, told, announced, unborn, spent>>

HooksReturn(p) ==
  /\ Ready(p, "hooks")
  /\ NextDomain(p, proc[p])
  /\ UNCHANGED <<cfg, rt, known, pub, online, ed, disk, wan, record, acked,
                 told, announced, unborn, spent>>

-----------------------------------------------------------------------------
(* sync_one_now: the manual sync of one domain; it dispatches nothing *)

StartManual(m) ==
  /\ Ready(m, "idle")
  /\ \E d \in Range(cfg) :
       \/ /\ AddressFor(d) = None
          /\ proc' = [proc EXCEPT ![m] = [Idle EXCEPT
                        !.pc = "detect", !.fam = FamilyOf[d.target], !.dom = d]]
          /\ UNCHANGED <<rt, loop>>
       \/ /\ AddressFor(d) # None
          /\ BeginUpdate(m, Idle, d, AddressFor(d))
       \/ /\ AddressFor(d) # None /\ d.target \notin Registered
          /\ rt' = SetStatus(rt, d.id, "error", None)
          /\ UNCHANGED <<proc, loop>>
  /\ UNCHANGED <<cfg, known, pub, online, ed, disk, wan, record, acked, told,
                 announced, unborn, spent>>

(* 503 when the address is unknown; otherwise it becomes the public        *)
(* address, with no ip_changed event.                                      *)
ManualDetected(m) ==
  /\ Ready(m, "detected")
  /\ LET d == proc[m].dom  ip == proc[m].ip IN
     \/ /\ ip = None
        /\ proc' = [proc EXCEPT ![m] = Idle]
        /\ UNCHANGED <<rt, pub, loop>>
     \/ /\ ip # None
        /\ pub' = [pub EXCEPT ![proc[m].fam] = ip]
        /\ \/ BeginUpdate(m, Idle, d, ip)
           \/ /\ d.target \notin Registered
              /\ rt' = SetStatus(rt, d.id, "error", None)
              /\ proc' = [proc EXCEPT ![m] = Idle]
              /\ UNCHANGED loop
  /\ UNCHANGED <<cfg, known, online, ed, disk, wan, record, acked, told,
                 announced, unborn, spent>>

ManualReturns(m) ==
  /\ Answered(m)
  /\ rt' = Finished(proc[m])
  /\ proc' = [proc EXCEPT ![m] = Idle]
  /\ UNCHANGED <<cfg, known, pub, online, loop, ed, disk, wan, record, acked,
                 told, announced, unborn, spent>>

-----------------------------------------------------------------------------
(* create_domain, update_domain and delete_domain, in a thread *)

IdleEditor == [pc |-> "idle", prev |-> [id \in Ids |-> Absent],
               prevKnown |-> [id \in Ids |-> None]]

EditsList(e, kind) ==
  /\ kind \in EditKinds /\ ed[e].pc = "idle" /\ spent.edits < MaxEdits
  /\ ed' = [ed EXCEPT ![e].pc = "edited"]
  /\ spent' = [spent EXCEPT !.edits = @ + 1]
  /\ UNCHANGED <<rt, known, pub, online, proc, loop, disk, wan, record, acked,
                 told, announced>>

TargetsInUse == {cfg[i].target : i \in DOMAIN cfg}

CreateDomain(e) ==
  /\ EditsList(e, "create")
  /\ \E id \in unborn, target \in Targets \ TargetsInUse :
       /\ cfg' = Append(cfg, [id |-> id, target |-> target, enabled |-> TRUE])
       /\ unborn' = unborn \ {id}

UpdateDomain(e) ==
  /\ EditsList(e, "update")
  /\ \E i \in DOMAIN cfg, target \in Targets \ TargetsInUse :
       cfg' = [cfg EXCEPT ![i].target = target]
  /\ UNCHANGED unborn

ToggleDomain(e) ==
  /\ EditsList(e, "toggle")
  /\ \E i \in DOMAIN cfg : cfg' = [cfg EXCEPT ![i].enabled = ~@]
  /\ UNCHANGED unborn

(* del config.domains[i]: the later domains move down by one index. *)
DeleteDomain(e) ==
  /\ EditsList(e, "delete")
  /\ \E i \in DOMAIN cfg : cfg' = RemoveAt(cfg, i)
  /\ UNCHANGED unborn

(* _persist, then rebuild up to `self._configs = {}'. *)
RebuildClears(e) ==
  /\ ed[e].pc = "edited"
  /\ disk' = [disk EXCEPT !.cfg = cfg]
  /\ ed' = [ed EXCEPT ![e] = [pc |-> "cleared", prev |-> rt, prevKnown |-> known]]
  /\ rt' = [id \in Ids |-> Absent]
  /\ known' = [id \in Ids |-> None]
  /\ UNCHANGED <<cfg, pub, online, proc, loop, wan, record, acked, told,
                 announced, unborn, spent>>

RebuildFills(e) ==
  /\ ed[e].pc = "cleared"
  /\ rt' = Rebuilt(cfg, ed[e].prev, ed[e].prevKnown, rt)
  /\ known' = [id \in Ids |-> IF id \in IdsIn(cfg)
                              THEN ConfigOf(cfg, id).target ELSE known[id]]
  /\ ed' = [ed EXCEPT ![e] = IdleEditor]
  /\ UNCHANGED <<cfg, pub, online, proc, loop, disk, wan, record, acked, told,
                 announced, unborn, spent>>

-----------------------------------------------------------------------------
(* Persistence, restart and the environment *)

(* flush_state writes what changed; shutdown flushes once more.  Only a    *)
(* restart reads the file, so it is not written once none can follow.      *)
FlushState ==
  /\ spent.crashes < MaxCrashes
  /\ disk' = [disk EXCEPT !.rt = rt, !.pub = pub, !.online = online]
  /\ UNCHANGED <<cfg, rt, known, pub, online, proc, loop, ed, wan, record,
                 acked, told, announced, unborn, spent>>

(* The process ends anywhere; the next start loads both files, restores    *)
(* the runtime and rebuilds it (app.py lifespan).                          *)
Restart ==
  /\ spent.crashes < MaxCrashes
  /\ spent' = [spent EXCEPT !.crashes = @ + 1]
  /\ cfg' = disk.cfg
  /\ rt' = Rebuilt(disk.cfg, disk.rt, TargetsOf(disk.cfg), [id \in Ids |-> Absent])
  /\ known' = TargetsOf(disk.cfg)
  /\ pub' = disk.pub
  /\ online' = disk.online
  /\ proc' = [t \in Tasks |-> Idle]
  /\ loop' = None
  /\ ed' = [e \in Editors |-> IdleEditor]
  /\ UNCHANGED <<disk, wan, record, acked, told, announced, unborn>>

(* record_reachability of a check that ran on the loop. *)
LinkReported ==
  /\ loop = None
  /\ online' \in LinkStates \ {online}
  /\ UNCHANGED <<cfg, rt, known, pub, proc, loop, ed, disk, wan, record,
                 acked, told, announced, unborn, spent>>

AddressMoves ==
  /\ spent.moves < MaxMoves
  /\ spent' = [spent EXCEPT !.moves = @ + 1]
  /\ \E f \in {g \in Families : wan[g] # None}, a \in Addresses :
       /\ a # wan[f]
       /\ wan' = [wan EXCEPT ![f] = a]
  /\ UNCHANGED <<cfg, rt, known, pub, online, proc, loop, ed, disk, record,
                 acked, told, announced, unborn>>

-----------------------------------------------------------------------------
Init ==
  /\ cfg = InitialConfig
  /\ rt = [id \in Ids |-> IF id \in IdsIn(InitialConfig) THEN Pending ELSE Absent]
  /\ known = TargetsOf(InitialConfig)
  /\ pub = [f \in Families |-> None]
  /\ online = FALSE
  /\ proc = [t \in Tasks |-> Idle]
  /\ loop = None
  /\ ed = [e \in Editors |-> IdleEditor]
  /\ disk = [cfg |-> InitialConfig, rt |-> [id \in Ids |-> Absent],
             pub |-> [f \in Families |-> None], online |-> FALSE]
  /\ wan = InitialWan
  /\ record = [t \in Targets |-> None]
  /\ acked = {}
  /\ told = [id \in Ids |-> "nothing"]
  /\ announced = [f \in Families |-> [old |-> None, new |-> None]]
  /\ unborn = Ids \ IdsIn(InitialConfig)
  /\ spent = [moves |-> 0, fails |-> 0, edits |-> 0, crashes |-> 0]

(* What the loop does for a pass, once the environment has answered. *)
PassResumes(p) ==
  \/ NothingNew(p) \/ AnnounceAddress(p) \/ AnnounceReturns(p)
  \/ EndPass(p) \/ VisitDisabled(p) \/ VisitNothingToDo(p)
  \/ VisitUnknownProvider(p) \/ VisitUpdate(p)
  \/ UpdateConfirms(p) \/ UpdateChanges(p) \/ UpdateOfDeletedRaises(p)
  \/ HooksReturn(p)

ManualResumes(m) == ManualDetected(m) \/ ManualReturns(m)

Edit(e) == CreateDomain(e) \/ UpdateDomain(e) \/ ToggleDomain(e) \/ DeleteDomain(e)

Rebuild(e) == RebuildClears(e) \/ RebuildFills(e)

Next ==
  \/ \E p \in Passes : StartPass(p) \/ PassResumes(p)
  \/ \E m \in Manuals : StartManual(m) \/ ManualResumes(m)
  \/ \E t \in Tasks : SourceAnswers(t) \/ ProviderAnswers(t)
  \/ \E e \in Editors : Edit(e) \/ Rebuild(e)
  \/ FlushState \/ Restart \/ LinkReported \/ AddressMoves

Spec == Init /\ [][Next]_vars

(* The scheduler keeps firing the sync job, the loop keeps resuming tasks, *)
(* every external call ends (client timeouts), threads finish, and checks  *)
(* keep reporting the link.  Users, crashes and address moves owe nothing. *)
Fairness ==
  /\ \A p \in Passes : WF_vars(StartPass(p)) /\ WF_vars(PassResumes(p))
  /\ \A m \in Manuals : WF_vars(ManualResumes(m))
  /\ \A t \in Tasks : WF_vars(SourceAnswers(t)) /\ WF_vars(ProviderAnswers(t))
  /\ \A e \in Editors : WF_vars(Rebuild(e))
  /\ WF_vars(LinkReported)

FairSpec == Spec /\ Fairness

-----------------------------------------------------------------------------
(* Properties *)

(* Every variable keeps its shape: the statuses, addresses and program     *)
(* counters of runtime.py and sync.py, and a list index never below one.   *)
TypeOK ==
  /\ cfg \in Seq(DomainConfig)
  /\ rt \in [Ids -> DomainRuntime]
  /\ known \in [Ids -> Targets \cup {None}]
  /\ pub \in [Families -> Addresses \cup {None}]
  /\ online \in BOOLEAN
  /\ proc \in [Tasks -> TaskState]
  /\ loop \in Tasks \cup {None}
  /\ ed \in [Editors -> [pc : {"idle", "edited", "cleared"},
                         prev : [Ids -> DomainRuntime],
                         prevKnown : [Ids -> Targets \cup {None}]]]
  /\ disk \in [cfg : Seq(DomainConfig), rt : [Ids -> DomainRuntime],
               pub : [Families -> Addresses \cup {None}], online : BOOLEAN]
  /\ wan \in [Families -> Addresses \cup {None}]
  /\ record \in [Targets -> Addresses \cup {None}]
  /\ acked \subseteq Ids \X Targets \X Addresses
  /\ told \in [Ids -> {"nothing", "pending", "success", "error"}]
  /\ announced \in [Families -> [old : Addresses \cup {None},
                                 new : Addresses \cup {None}]]
  /\ unborn \subseteq Ids
  /\ spent \in [moves : Nat, fails : Nat, edits : Nat, crashes : Nat]

Quiet == \A t \in Tasks : proc[t].pc = "idle"

(* A domain is only ever called synced at an address its provider          *)
(* acknowledged for that domain: sync_domain writes it after the await,    *)
(* and set_freshness, rebuild and restore only carry it along.             *)
AckedId(id, ip) == \E target \in Targets : <<id, target, ip>> \in acked
SyncedWasAcked ==
  \A id \in Ids : rt[id].status = "synced" => AckedId(id, rt[id].ip)

(* Stronger: the acknowledgement was for the configuration the domain now  *)
(* has, so what the user sees as synced is the record he configured.       *)
SyncedRecordIsPushed ==
  \A id \in Ids :
    rt[id].status = "synced" /\ known[id] # None
      => <<id, known[id], rt[id].ip>> \in acked

(* 'updating' is left only by the task that set it, so a domain shown as   *)
(* updating always has an update in flight.                                *)
UpdatingHasTask ==
  \A id \in Ids : rt[id].status = "updating" =>
    \E t \in Tasks : /\ proc[t].pc \in {"update", "acked", "refused"}
                     /\ proc[t].dom.id = id

(* Between passes no enabled domain is called synced at an address other   *)
(* than the current public one: a change of address reaches every one.     *)
SyncedIsCurrent ==
  Quiet => \A i \in DOMAIN cfg :
    LET d == cfg[i] IN
    d.enabled /\ rt[d.id].status = "synced" => rt[d.id].ip = AddressFor(d)

(* Hooks hear of every failure and of every recovery: a domain in error    *)
(* was last reported as such, a synced one was not.                        *)
EventsTellTruth ==
  \A id \in Ids :
    /\ rt[id].status = "error" => told[id] = "error"
    /\ rt[id].status = "synced" => told[id] # "error"

(* The ip_changed events of a family form a chain: each starts from the    *)
(* address the previous one announced and really changes it.               *)
IpEventsChain ==
  [][\A p \in Passes : AnnounceAddress(p) =>
       LET f == proc[p].fam IN
       /\ announced'[f].old = announced[f].new
       /\ announced'[f].new # announced'[f].old]_vars

(* A domain_update_success event names the address that is public when it  *)
(* fires.                                                                  *)
SuccessIsCurrent ==
  [][\A p \in Passes :
       UpdateChanges(p) /\ proc[p].pc = "acked"
         => proc[p].ip = AddressFor(proc[p].dom)]_vars

(* When the address stops moving and the calls stop failing, every enabled *)
(* domain comes to rest synced, with its record at the real address.       *)
Settled ==
  \A i \in DOMAIN cfg :
    LET d == cfg[i]  f == FamilyOf[d.target] IN
    d.enabled /\ d.target \in Registered /\ wan[f] # None =>
      /\ rt[d.id] = [status |-> "synced", ip |-> wan[f]]
      /\ record[d.target] = wan[f]
Converges == <>[]Settled

(* The status an enabled domain was restored with does not stay stale: the *)
(* scheduled syncs leave no domain updating, or synced at an old address.  *)
Reconciled ==
  \A i \in DOMAIN cfg :
    LET d == cfg[i] IN
    d.enabled =>
      /\ rt[d.id].status # "updating"
      /\ rt[d.id].status = "synced" => rt[d.id].ip = AddressFor(d)
RestartReconciles == <>[]Reconciled
=============================================================================
