-------------------------------- MODULE Hooks --------------------------------
(***************************************************************************)
(* The hooks of tether_ddns: the dispatch of events over the live list of  *)
(* hooks, the manual run of one hook, the routes that edit the list, and   *)
(* the router firewall hook with the administrator session it opens.       *)
(*                                                                         *)
(* A step is what the code does between two awaits; hooks that do not      *)
(* match an event, and log hooks, which do not wait for anything, are      *)
(* passed over inside the step.  Of the router hook the exchanges that     *)
(* change something are steps: log in, open the rule, apply it, log out.   *)
(* The event "ip" is a change of the address of the family of the rule;    *)
(* "other" is any event that the router hook leaves alone.                 *)
(***************************************************************************)
EXTENDS Naturals, SequencesExt

CONSTANTS
  HookIds,
  Addresses,
  InitialHooks, \* the configured hooks when the process starts
  Inputs,       \* what a request may make of a hook
  Passes,       \* the runs of sync_ips, which announce a new address
  Checks,       \* the reachability checks, which tell other events
  Manuals,      \* the requests to run a hook now
  None, Lost,
  MaxEvents,    \* bound: events and manual runs
  MaxEdits,     \* bound: edits of the list
  MaxFails      \* bound: exchanges that raise

Events == {"ip", "other"}
Plugins == {"pushover", "router", "unknown"}
Supports == [pushover |-> {"other"}, router |-> {"ip"}, unknown |-> {}]
Settings == [plugin : Plugins, enabled : BOOLEAN, events : SUBSET Events]
Hook == [id : HookIds, plugin : Plugins, enabled : BOOLEAN, events : SUBSET Events]
(* What a dispatch or a manual run keeps across its awaits: the event and  *)
(* the address it carries, and the hook it is at.  due and done are        *)
(* ghosts: the hooks owed the event, and those that have handled it.       *)
Locals == [pc : {"idle", "notify", "login", "prepare", "apply", "logout"},
           ev : Events, at : Addresses \cup {None}, idx : Nat,
           hook : HookIds \cup {None}, ok : BOOLEAN,
           due : SUBSET HookIds, done : SUBSET HookIds]
Dispatchers == Passes \cup Checks
Tasks == Dispatchers \cup Manuals

ASSUME HooksAssumption ==
  /\ InitialHooks \in Seq(Hook) /\ Inputs \subseteq Settings
  /\ \A i, j \in DOMAIN InitialHooks :
       InitialHooks[i].id = InitialHooks[j].id => i = j
  /\ Passes \cap Checks = {} /\ Dispatchers \cap Manuals = {}
  /\ {None, Lost} \cap (Tasks \cup Addresses) = {} /\ None # Lost
  /\ {MaxEvents, MaxEdits, MaxFails} \subseteq Nat

VARIABLES
  hooks,   \* config.hooks
  proc,    \* the dispatches and manual runs
  pub,     \* the public address of the family of the rule
  rule,    \* the router: the destination of the rule
  owner,   \* the router: the task whose session is open, Lost or None
  excused, \* ghost: something the rule may be behind for happened
  unborn,  \* the ids that no hook has had
  spent    \* events counted against their bounds

vars == <<hooks, proc, pub, rule, owner, excused, unborn, spent>>

Fresh == [pc |-> "idle", ev |-> "other", at |-> None, idx |-> 1, hook |-> None,
          ok |-> TRUE, due |-> {}, done |-> {}]

-----------------------------------------------------------------------------
(* The loop of dispatch *)

Matches(h, ev) == h.enabled /\ ev \in h.events \cap Supports[h.plugin]

Opening(plugin) == IF plugin = "router" THEN "login" ELSE "notify"

(* From the given index on: the first hook that matches is handled next.   *)
Visits(t, l, from) ==
  LET matching == {i \in from..Len(hooks) : Matches(hooks[i], l.ev)} IN
  \/ /\ matching = {}
     /\ proc' = [proc EXCEPT ![t] = [l EXCEPT !.pc = "idle"]]
  \/ \E i \in matching :
       /\ \A j \in matching : i <= j
       /\ proc' = [proc EXCEPT ![t] =
            [l EXCEPT !.pc = Opening(hooks[i].plugin), !.idx = i,
                      !.hook = hooks[i].id, !.ok = TRUE]]

Dispatch(t, ev, at) ==
  LET owed == {h \in ToSet(hooks) : Matches(h, ev)} IN
  Visits(t, [Fresh EXCEPT !.ev = ev, !.at = at, !.due = {h.id : h \in owed}], 1)

(* Mutant: an exception of a hook ends the dispatch. *)
AfterUnlessRaised(idx, ok) == IF ok THEN idx + 1 ELSE Len(hooks) + 1
(* Exceptions are contained: the loop goes on with the next index.         *)
After(idx, ok) == idx + 1

(* The handling of the current hook ends, and is logged if it raised.      *)
Ends(t, ok) ==
  LET l == [proc[t] EXCEPT !.done = @ \cup {proc[t].hook}] IN
  IF t \in Manuals THEN proc' = [proc EXCEPT ![t] = [l EXCEPT !.pc = "idle"]]
  ELSE Visits(t, l, After(l.idx, ok))

Idle(t) == proc[t].pc = "idle"
Happens == spent.events < MaxEvents /\ spent' = [spent EXCEPT !.events = @ + 1]
Raises == spent.fails < MaxFails /\ spent' = [spent EXCEPT !.fails = @ + 1]

(* refresh_public_ips stores the new address and dispatches the event.     *)
Announces(p, a) ==
  /\ Idle(p) /\ a # pub /\ Happens
  /\ pub' = a
  /\ Dispatch(p, "ip", a)
  /\ excused' = \/ \E t \in (Passes \cup Manuals) \ {p} : ~Idle(t)
                \/ ~\E h \in ToSet(hooks) : h.plugin = "router" /\ Matches(h, "ip")
  /\ UNCHANGED <<hooks, rule, owner, unborn>>

Tells(t) ==
  /\ Idle(t) /\ Happens
  /\ Dispatch(t, "other", None)
  /\ UNCHANGED <<hooks, pub, rule, owner, excused, unborn>>

(* run_hook_now takes a hook as it is, switched off or not, and the        *)
(* address of the moment.  Runs of other hooks are of no consequence.      *)
RunNow(m, i) ==
  /\ Idle(m) /\ pub # None /\ Happens
  /\ "ip" \in hooks[i].events \cap Supports[hooks[i].plugin]
  /\ proc' = [proc EXCEPT ![m] =
       [Fresh EXCEPT !.pc = Opening(hooks[i].plugin), !.ev = "ip", !.at = pub,
                     !.hook = hooks[i].id]]
  /\ UNCHANGED <<hooks, pub, rule, owner, excused, unborn>>

(* A hook other than the router's returns or raises. *)
Notified(t) ==
  /\ proc[t].pc = "notify"
  /\ \/ Ends(t, TRUE) /\ UNCHANGED spent
     \/ Ends(t, FALSE) /\ Raises
  /\ UNCHANGED <<hooks, pub, rule, owner, excused, unborn>>

-----------------------------------------------------------------------------
(* The router hook.  The router has one administrator session: while it is *)
(* taken, a login is refused or takes it over.                             *)

GoesTo(t, pc) == proc' = [proc EXCEPT ![t].pc = pc] /\ UNCHANGED excused

(* The logout comes whether or not the rule was applied. *)
Leaves(l, ok) == [l EXCEPT !.pc = "logout", !.ok = ok]

(* The answer of the login is not looked at. *)
LogsIn(t) ==
  /\ proc[t].pc = "login"
  /\ \/ owner' = t /\ GoesTo(t, "prepare") /\ UNCHANGED spent
     \/ owner # None /\ GoesTo(t, "prepare") /\ UNCHANGED <<owner, spent>>
     \/ owner' \in {owner, Lost} /\ Ends(t, FALSE) /\ excused' = TRUE /\ Raises
  /\ UNCHANGED <<hooks, pub, rule, unborn>>

(* Without a session there is no write token in the page. *)
Prepares(t) ==
  /\ proc[t].pc = "prepare"
  /\ \/ owner = t /\ GoesTo(t, "apply") /\ UNCHANGED spent
     \/ /\ proc' = [proc EXCEPT ![t] = Leaves(@, FALSE)] /\ UNCHANGED excused
        /\ (owner # t /\ UNCHANGED spent) \/ Raises
  /\ UNCHANGED <<hooks, pub, rule, owner, unborn>>

(* Mutant: a status of 200 is taken for a success. *)
AcceptedByStatus(t) == TRUE
(* Without a session the answer is a hidden SessionTimeout. *)
Accepted(t) == owner = t

Applies(t) ==
  /\ proc[t].pc = "apply"
  /\ \/ /\ rule' = IF owner = t THEN proc[t].at ELSE rule
        /\ proc' = [proc EXCEPT ![t] = Leaves(@, Accepted(t))]
        /\ UNCHANGED spent
     \/ /\ rule' \in {rule, IF owner = t THEN proc[t].at ELSE rule}
        /\ proc' = [proc EXCEPT ![t] = Leaves(@, FALSE)]
        /\ Raises
  /\ UNCHANGED <<hooks, pub, owner, excused, unborn>>

(* Mutant: a run that failed does not log out. *)
ReleasedIfApplied(t) == IF owner = t /\ proc[t].ok THEN None ELSE owner
(* Without a session there is no token, and nothing to release. *)
Released(t) == IF owner = t THEN None ELSE owner

LogsOut(t) ==
  /\ proc[t].pc = "logout"
  /\ \/ /\ owner' = Released(t)
        /\ Ends(t, proc[t].ok) /\ excused' = (excused \/ ~proc[t].ok)
        /\ UNCHANGED spent
     \/ /\ owner' \in IF owner = t THEN {Lost, None} ELSE {owner}
        /\ Ends(t, FALSE) /\ excused' = TRUE /\ Raises
  /\ UNCHANGED <<hooks, pub, rule, unborn>>

SessionExpires ==
  /\ owner # None /\ owner' = None
  /\ UNCHANGED <<hooks, proc, pub, rule, excused, unborn, spent>>

-----------------------------------------------------------------------------
(* The routes, in threads *)

Edits == spent.edits < MaxEdits /\ spent' = [spent EXCEPT !.edits = @ + 1]

HookOf(id, input) ==
  [id |-> id, plugin |-> input.plugin, enabled |-> input.enabled, events |-> input.events]

CreateHook(id) ==
  /\ id \in unborn /\ Edits
  /\ \E input \in Inputs : hooks' = Append(hooks, HookOf(id, input))
  /\ unborn' = unborn \ {id}
  /\ UNCHANGED <<proc, pub, rule, owner, excused>>

(* A dispatch no longer owes its event to these hooks; an edit during an   *)
(* announcement excuses the rule.                                          *)
Forgives(waived) ==
  /\ proc' = [t \in Tasks |-> [proc[t] EXCEPT !.due = @ \ waived[t]]]
  /\ excused' = (excused \/ \E p \in Passes : ~Idle(p))

(* Mutant: the replacement comes with an id of its own. *)
RenewedId(i) == None
KeptId(i) == hooks[i].id

UpdateHook(i) ==
  /\ Edits
  /\ \E input \in Inputs : hooks' = [hooks EXCEPT ![i] = HookOf(KeptId(i), input)]
  /\ Forgives([t \in Tasks |-> {hooks[i].id}])
  /\ UNCHANGED <<pub, rule, owner, unborn>>

(* What a deletion behind the loop's index skips: the next hook alone.     *)
Skipped(t, i) ==
  {hooks[j].id : j \in {k \in DOMAIN hooks : i <= proc[t].idx /\ k = proc[t].idx + 1}}

DeleteHook(i) ==
  /\ Edits
  /\ hooks' = RemoveAt(hooks, i)
  /\ Forgives([t \in Tasks |-> {hooks[i].id} \cup Skipped(t, i)])
  /\ UNCHANGED <<pub, rule, owner, unborn>>

-----------------------------------------------------------------------------
Init ==
  /\ hooks = InitialHooks
  /\ proc = [t \in Tasks |-> Fresh]
  /\ pub = None /\ rule \in Addresses \cup {None}
  /\ owner = None /\ excused = FALSE
  /\ unborn = HookIds \ {h.id : h \in ToSet(InitialHooks)}
  /\ spent = [events |-> 0, edits |-> 0, fails |-> 0]

Router(t) == LogsIn(t) \/ Prepares(t) \/ Applies(t) \/ LogsOut(t)

Next ==
  \/ \E p \in Passes, a \in Addresses : Announces(p, a)
  \/ \E t \in Dispatchers : Tells(t)
  \/ \E m \in Manuals, i \in DOMAIN hooks : RunNow(m, i)
  \/ \E t \in Tasks : Notified(t) \/ Router(t)
  \/ SessionExpires
  \/ \E id \in HookIds : CreateHook(id)
  \/ \E i \in DOMAIN hooks : UpdateHook(i) \/ DeleteHook(i)

Spec == Init /\ [][Next]_vars

-----------------------------------------------------------------------------
(* Properties *)

TypeOK ==
  /\ hooks \in Seq(Hook)
  /\ proc \in [Tasks -> Locals]
  /\ pub \in Addresses \cup {None} /\ rule \in Addresses \cup {None}
  /\ owner \in Tasks \cup {None, Lost}
  /\ excused \in BOOLEAN /\ unborn \subseteq HookIds
  /\ spent \in [events : Nat, edits : Nat, fails : Nat]

(* However the list is edited under a dispatch and whichever hooks raise,  *)
(* no hook hears of an event twice, and one that matched and was left      *)
(* alone misses it only if it came next when an earlier one was deleted    *)
(* (services/dispatch.py:21-33).                                           *)
EachHookOnce ==
  \A t \in Dispatchers :
    IF Idle(t) THEN proc[t].due \subseteq proc[t].done
    ELSE proc[t].hook \notin proc[t].done

(* The administrator session of the router is never left open by a run     *)
(* that is over, unless the answer to its login or logout was lost         *)
(* (router_firewall.py:274-280, the docstring of _logout).                 *)
SessionReleased ==
  owner \in Tasks => proc[owner].pc \in {"prepare", "apply", "logout"}

(* The rule is at the public address once the runs are over, unless one of *)
(* them logged a failure, a hook was edited while the address was being  *)
(* announced, or another run was under way when it was                     *)
(* (router_firewall.py:259-280, 348-356).                                  *)
RuleFollows ==
  (\A t \in Passes \cup Manuals : Idle(t)) /\ pub # None /\ ~excused => rule = pub
=============================================================================
