------------------------------ MODULE HooksProofs ----------------------------
(***************************************************************************)
(* Proofs about Hooks: type correctness, the release of the router's       *)
(* session, that no hook hears twice of an event, and that the rule        *)
(* follows the address.                                                    *)
(***************************************************************************)
EXTENDS Hooks, TLAPS

RouterPcs == {"login", "prepare", "apply", "logout"}
Pcs == {"idle", "notify"} \cup RouterPcs

-----------------------------------------------------------------------------
(* Sequences of hooks *)

LEMMA HookType ==
  ASSUME NEW s \in Seq(Hook), NEW i \in DOMAIN s
  PROVE  /\ s[i] \in Hook /\ s[i].id \in HookIds /\ i \in Nat /\ i >= 1 /\ i <= Len(s)
<1>1. s[i] \in Hook
  OBVIOUS
<1> QED BY <1>1 DEF Hook

(* A sequence without one of its elements. *)
LEMMA Removed ==
  ASSUME NEW s \in Seq(Hook), NEW i \in DOMAIN s
  PROVE  /\ RemoveAt(s, i) \in Seq(Hook)
         /\ Len(RemoveAt(s, i)) = Len(s) - 1
         /\ \A j \in DOMAIN RemoveAt(s, i) :
              RemoveAt(s, i)[j] = IF j < i THEN s[j] ELSE s[j + 1]
<1> DEFINE a == SubSeq(s, 1, i - 1)
           b == SubSeq(s, i + 1, Len(s))
<1>0. i \in Nat /\ i >= 1 /\ i <= Len(s) /\ Len(s) \in Nat
  OBVIOUS
<1>1. a \in Seq(Hook) /\ Len(a) = i - 1 /\ \A j \in 1..Len(a) : a[j] = s[j]
  BY <1>0
<1>2. b \in Seq(Hook) /\ Len(b) = Len(s) - i /\ \A j \in 1..Len(b) : b[j] = s[i + j]
  BY <1>0
<1>3. RemoveAt(s, i) = a \o b
  BY DEF RemoveAt
<1> HIDE DEF a, b
<1>4. a \o b \in Seq(Hook) /\ Len(a \o b) = Len(s) - 1
  BY <1>0, <1>1, <1>2
<1>5. ASSUME NEW j \in 1..(Len(s) - 1)
      PROVE  (a \o b)[j] = IF j < i THEN s[j] ELSE s[j + 1]
  <2>1. CASE j < i
    <3>1. j \in 1..Len(a)
      BY <1>0, <1>1, <2>1
    <3>2. (a \o b)[j] = a[j]
      BY <1>1, <1>2, <3>1
    <3> QED BY <1>1, <2>1, <3>1, <3>2
  <2>2. CASE j >= i
    <3>1. j - Len(a) \in 1..Len(b) /\ i + (j - Len(a)) = j + 1 /\ ~(j < i)
      BY <1>0, <1>1, <1>2, <2>2
    <3>2. (a \o b)[j] = b[j - Len(a)]
      BY <1>0, <1>1, <1>2, <1>4, <2>2
    <3>3. b[j - Len(a)] = s[i + (j - Len(a))]
      BY <1>2, <3>1
    <3>4. (a \o b)[j] = s[j + 1]
      BY <3>1, <3>2, <3>3, Zenon
    <3> QED BY <3>1, <3>4, Zenon
  <2>3. j < i \/ j >= i
    BY <1>0
  <2> QED BY <2>1, <2>2, <2>3, Zenon
<1>6. DOMAIN (a \o b) = 1..(Len(s) - 1)
  BY <1>0, <1>4
<1> QED BY <1>3, <1>4, <1>5, <1>6

-----------------------------------------------------------------------------
(* What the loop of dispatch does to the locals *)

(* The loop stops, or is at the first hook that matches. *)
Stops(l, from, next) ==
  /\ \A j \in from..Len(hooks) : ~Matches(hooks[j], l.ev)
  /\ next = [l EXCEPT !.pc = "idle"]
Picks(l, from, i, next) ==
  /\ i \in from..Len(hooks) /\ Matches(hooks[i], l.ev)
  /\ \A j \in from..Len(hooks) : Matches(hooks[j], l.ev) => i <= j
  /\ next = [l EXCEPT !.pc = Opening(hooks[i].plugin), !.idx = i,
                      !.hook = hooks[i].id, !.ok = TRUE]
Moves(l, from, next) ==
  Stops(l, from, next) \/ \E i \in DOMAIN hooks : Picks(l, from, i, next)

LEMMA VisitsMoves ==
  ASSUME TypeOK, NEW t \in Tasks, NEW l \in Locals, NEW from \in Nat, from >= 1,
         Visits(t, l, from)
  PROVE  /\ proc' \in [Tasks -> Locals]
         /\ \A u \in Tasks \ {t} : proc'[u] = proc[u]
         /\ Moves(l, from, proc'[t])
<1> DEFINE matching == {i \in from..Len(hooks) : Matches(hooks[i], l.ev)}
<1>0. proc \in [Tasks -> Locals] /\ hooks \in Seq(Hook)
  BY DEF TypeOK
<1>1. CASE matching = {} /\ proc' = [proc EXCEPT ![t] = [l EXCEPT !.pc = "idle"]]
  <2>1. [l EXCEPT !.pc = "idle"] \in Locals
    BY DEF Locals
  <2>2. proc'[t] = [l EXCEPT !.pc = "idle"] /\ proc' \in [Tasks -> Locals]
        /\ \A u \in Tasks \ {t} : proc'[u] = proc[u]
    BY <1>0, <1>1, <2>1
  <2>3. Stops(l, from, proc'[t])
    BY <1>1, <2>2 DEF Stops
  <2> QED BY <2>2, <2>3 DEF Moves
<1>2. ASSUME NEW i \in matching, \A j \in matching : i <= j,
             proc' = [proc EXCEPT ![t] =
               [l EXCEPT !.pc = Opening(hooks[i].plugin), !.idx = i,
                         !.hook = hooks[i].id, !.ok = TRUE]]
      PROVE  /\ proc' \in [Tasks -> Locals]
             /\ \A u \in Tasks \ {t} : proc'[u] = proc[u]
             /\ Moves(l, from, proc'[t])
  <2> DEFINE next == [l EXCEPT !.pc = Opening(hooks[i].plugin), !.idx = i,
                               !.hook = hooks[i].id, !.ok = TRUE]
  <2>0. i \in DOMAIN hooks /\ i \in Nat
    BY <1>0
  <2>1. hooks[i].id \in HookIds
    BY <1>0, <2>0, HookType
  <2>2. next \in Locals
    BY <2>0, <2>1 DEF Locals, Opening
  <2>3. proc' = [proc EXCEPT ![t] = next]
    BY <1>2
  <2>4. Picks(l, from, i, next)
    BY <1>2 DEF Picks
  <2> HIDE DEF next
  <2>5. proc'[t] = next /\ proc' \in [Tasks -> Locals]
        /\ \A u \in Tasks \ {t} : proc'[u] = proc[u]
    BY <1>0, <2>2, <2>3
  <2> QED BY <2>0, <2>4, <2>5 DEF Moves
<1> QED BY <1>1, <1>2 DEF Visits

(* What a dispatch begins with. *)
Begun(ev, at) ==
  [Fresh EXCEPT !.ev = ev, !.at = at,
     !.due = {h.id : h \in {g \in ToSet(hooks) : Matches(g, ev)}}]

LEMMA BegunType ==
  ASSUME TypeOK, NEW ev \in Events, NEW at \in Addresses \cup {None}
  PROVE  /\ Begun(ev, at) \in Locals /\ Begun(ev, at).ev = ev /\ Begun(ev, at).at = at
         /\ Begun(ev, at).idx = 1 /\ Begun(ev, at).done = {}
         /\ \A id \in Begun(ev, at).due :
              \E j \in DOMAIN hooks : hooks[j].id = id /\ Matches(hooks[j], ev)
<1> DEFINE due == {h.id : h \in {g \in ToSet(hooks) : Matches(g, ev)}}
<1>1. \A h \in ToSet(hooks) : \E j \in DOMAIN hooks : h = hooks[j]
  BY DEF ToSet
<1>2. \A id \in due : \E j \in DOMAIN hooks : hooks[j].id = id /\ Matches(hooks[j], ev)
  BY <1>1
<1>3. due \subseteq HookIds
  BY <1>2, HookType DEF TypeOK
<1>4. Begun(ev, at) = [Fresh EXCEPT !.ev = ev, !.at = at, !.due = due]
  BY DEF Begun
<1> HIDE DEF due
<1>5. Fresh \in Locals /\ Fresh.idx = 1 /\ Fresh.done = {}
  BY DEF Fresh, Locals, Events
<1>6. /\ Begun(ev, at).ev = ev /\ Begun(ev, at).at = at /\ Begun(ev, at).due = due
      /\ Begun(ev, at).idx = 1 /\ Begun(ev, at).done = {}
  BY <1>4, <1>5 DEF Locals
<1>7. Begun(ev, at) \in Locals
  BY <1>3, <1>4, <1>5 DEF Locals
<1> QED BY <1>2, <1>6, <1>7

LEMMA DispatchMoves ==
  ASSUME TypeOK, NEW t \in Tasks, NEW ev \in Events, NEW at \in Addresses \cup {None},
         Dispatch(t, ev, at)
  PROVE  /\ proc' \in [Tasks -> Locals]
         /\ \A u \in Tasks \ {t} : proc'[u] = proc[u]
         /\ Moves(Begun(ev, at), 1, proc'[t])
<1>1. Visits(t, Begun(ev, at), 1)
  BY DEF Dispatch, Begun
<1>2. Begun(ev, at) \in Locals
  BY BegunType
<1> QED BY <1>1, <1>2, VisitsMoves

(* The locals once the current hook has been handled. *)
Handled(t) == [proc[t] EXCEPT !.done = @ \cup {proc[t].hook}]

LEMMA EndsMoves ==
  ASSUME TypeOK, NEW t \in Tasks, proc[t].hook \in HookIds, NEW ok, Ends(t, ok)
  PROVE  /\ proc' \in [Tasks -> Locals]
         /\ \A u \in Tasks \ {t} : proc'[u] = proc[u]
         /\ t \in Manuals => proc'[t] = [Handled(t) EXCEPT !.pc = "idle"]
         /\ t \notin Manuals => Moves(Handled(t), proc[t].idx + 1, proc'[t])
<1>0. proc \in [Tasks -> Locals] /\ proc[t] \in Locals
  BY DEF TypeOK
<1>1. Handled(t) \in Locals /\ Handled(t).idx = proc[t].idx
      /\ proc[t].idx + 1 \in Nat /\ proc[t].idx + 1 >= 1
  BY <1>0 DEF Handled, Locals
<1>2. CASE t \in Manuals
  <2>1. proc' = [proc EXCEPT ![t] = [Handled(t) EXCEPT !.pc = "idle"]]
    BY <1>2 DEF Ends, Handled
  <2>2. [Handled(t) EXCEPT !.pc = "idle"] \in Locals
    BY <1>1 DEF Locals
  <2> QED BY <1>0, <1>2, <2>1, <2>2
<1>3. CASE t \notin Manuals
  <2>1. Visits(t, Handled(t), proc[t].idx + 1)
    BY <1>1, <1>3 DEF Ends, Handled, After
  <2> QED BY <1>1, <1>3, <2>1, VisitsMoves
<1> QED BY <1>2, <1>3

-----------------------------------------------------------------------------
(* Types *)

(* A task that is not idle is at a hook. *)
TypeInv ==
  /\ TypeOK
  /\ \A t \in Tasks : proc[t].pc # "idle" => proc[t].hook \in HookIds

LEMMA MovesAtHook ==
  ASSUME TypeOK, NEW l, NEW from \in Nat, NEW next, Moves(l, from, next), l \in Locals
  PROVE  next.pc # "idle" => next.hook \in HookIds
<1>1. CASE Stops(l, from, next)
  BY <1>1 DEF Stops, Locals
<1>2. ASSUME NEW i \in DOMAIN hooks, Picks(l, from, i, next)
      PROVE  next.hook \in HookIds
  <2>1. next.hook = hooks[i].id
    BY <1>2 DEF Picks, Locals
  <2> QED BY <2>1, HookType DEF TypeOK
<1> QED BY <1>1, <1>2 DEF Moves

LEMMA SpentType ==
  ASSUME TypeOK
  PROVE  /\ Happens \/ Raises \/ Edits
              => spent' \in [events : Nat, edits : Nat, fails : Nat]
         /\ spent' = spent => spent' \in [events : Nat, edits : Nat, fails : Nat]
BY DEF TypeOK, Happens, Raises, Edits

(* A step of one task that moves it as the lemmas above say. *)
LEMMA GoesTypes ==
  ASSUME TypeInv, NEW t \in Tasks, NEW next \in Locals,
         next.pc # "idle" => next.hook \in HookIds,
         proc' = [proc EXCEPT ![t] = next]
  PROVE  /\ proc' \in [Tasks -> Locals]
         /\ \A u \in Tasks : proc'[u].pc # "idle" => proc'[u].hook \in HookIds
<1>1. proc' \in [Tasks -> Locals] /\ proc'[t] = next
      /\ \A u \in Tasks \ {t} : proc'[u] = proc[u]
  BY DEF TypeInv, TypeOK
<1> QED BY <1>1 DEF TypeInv

LEMMA EndsTypes ==
  ASSUME TypeInv, NEW t \in Tasks, proc[t].pc # "idle", NEW ok, Ends(t, ok)
  PROVE  /\ proc' \in [Tasks -> Locals]
         /\ \A u \in Tasks : proc'[u].pc # "idle" => proc'[u].hook \in HookIds
<1>0. proc[t] \in Locals /\ proc[t].hook \in HookIds /\ TypeOK
  BY DEF TypeInv, TypeOK
<1>1. Handled(t) \in Locals /\ proc[t].idx + 1 \in Nat
  BY <1>0 DEF Handled, Locals
<1>2. /\ proc' \in [Tasks -> Locals]
      /\ \A u \in Tasks \ {t} : proc'[u] = proc[u]
      /\ t \in Manuals => proc'[t] = [Handled(t) EXCEPT !.pc = "idle"]
      /\ t \notin Manuals => Moves(Handled(t), proc[t].idx + 1, proc'[t])
  BY <1>0, EndsMoves
<1>3. t \in Manuals => proc'[t].pc = "idle"
  BY <1>1, <1>2 DEF Locals
<1>4. t \notin Manuals => (proc'[t].pc # "idle" => proc'[t].hook \in HookIds)
  BY <1>0, <1>1, <1>2, MovesAtHook
<1> QED BY <1>2, <1>3, <1>4 DEF TypeInv

LEMMA DispatchTypes ==
  ASSUME TypeInv, NEW t \in Tasks, NEW ev \in Events, NEW at \in Addresses \cup {None},
         Dispatch(t, ev, at)
  PROVE  /\ proc' \in [Tasks -> Locals]
         /\ \A u \in Tasks : proc'[u].pc # "idle" => proc'[u].hook \in HookIds
<1>1. TypeOK
  BY DEF TypeInv
<1>2. /\ proc' \in [Tasks -> Locals]
      /\ \A u \in Tasks \ {t} : proc'[u] = proc[u]
      /\ Moves(Begun(ev, at), 1, proc'[t])
  BY <1>1, DispatchMoves
<1>3. proc'[t].pc # "idle" => proc'[t].hook \in HookIds
  BY <1>1, <1>2, BegunType, MovesAtHook
<1> QED BY <1>2, <1>3 DEF TypeInv

(* The steps of the router hook. *)
LEMMA RouterTypes ==
  ASSUME TypeInv, NEW t \in Tasks, Router(t)
  PROVE  TypeInv'
<1>0. proc \in [Tasks -> Locals] /\ proc[t] \in Locals
  BY DEF TypeInv, TypeOK
<1>1. ASSUME NEW pc \in RouterPcs, proc[t].pc # "idle", GoesTo(t, pc)
      PROVE  /\ proc' \in [Tasks -> Locals]
             /\ \A u \in Tasks : proc'[u].pc # "idle" => proc'[u].hook \in HookIds
             /\ excused' = excused
  <2>1. [proc[t] EXCEPT !.pc = pc] \in Locals
    BY <1>0 DEF Locals, RouterPcs
  <2>2. proc' = [proc EXCEPT ![t] = [proc[t] EXCEPT !.pc = pc]]
    BY <1>0, <1>1 DEF GoesTo
  <2>3. [proc[t] EXCEPT !.pc = pc].hook \in HookIds
    BY <1>0, <1>1 DEF TypeInv, Locals
  <2> HIDE DEF TypeInv
  <2> QED BY <1>1, <2>1, <2>2, <2>3, GoesTypes DEF GoesTo
<1>2. ASSUME NEW ok \in BOOLEAN, proc[t].pc # "idle",
             proc' = [proc EXCEPT ![t] = Leaves(@, ok)]
      PROVE  /\ proc' \in [Tasks -> Locals]
             /\ \A u \in Tasks : proc'[u].pc # "idle" => proc'[u].hook \in HookIds
  <2>1. Leaves(proc[t], ok) \in Locals
    BY <1>0 DEF Locals, Leaves
  <2>2. proc' = [proc EXCEPT ![t] = Leaves(proc[t], ok)]
    BY <1>0, <1>2
  <2>3. Leaves(proc[t], ok).hook \in HookIds
    BY <1>0, <1>2 DEF TypeInv, Locals, Leaves
  <2> QED BY <2>1, <2>2, <2>3, GoesTypes
<1>3. CASE LogsIn(t)
  <2>0. proc[t].pc # "idle"
    BY <1>3 DEF LogsIn
  <2>1. CASE GoesTo(t, "prepare") /\ spent' = spent /\ owner' \in {owner, t}
    BY <1>1, <1>3, <2>0, <2>1 DEF LogsIn, TypeInv, TypeOK, RouterPcs
  <2>2. CASE owner' \in {owner, Lost} /\ Ends(t, FALSE) /\ excused' = TRUE /\ Raises
    <3>1. /\ proc' \in [Tasks -> Locals]
          /\ \A u \in Tasks : proc'[u].pc # "idle" => proc'[u].hook \in HookIds
      BY <2>0, <2>2, EndsTypes
    <3>2. spent' \in [events : Nat, edits : Nat, fails : Nat]
      BY <2>2, SpentType DEF TypeInv
    <3> QED BY <1>3, <2>2, <3>1, <3>2 DEF LogsIn, TypeInv, TypeOK
  <2> QED BY <1>3, <2>1, <2>2 DEF LogsIn
<1>4. CASE Prepares(t)
  <2>0. proc[t].pc # "idle"
    BY <1>4 DEF Prepares
  <2>1. /\ proc' \in [Tasks -> Locals]
        /\ \A u \in Tasks : proc'[u].pc # "idle" => proc'[u].hook \in HookIds
        /\ excused' = excused
    BY <1>1, <1>2, <1>4, <2>0 DEF Prepares, RouterPcs
  <2>2. spent' \in [events : Nat, edits : Nat, fails : Nat]
    BY <1>4, SpentType DEF Prepares, TypeInv
  <2> QED BY <1>4, <2>1, <2>2 DEF Prepares, TypeInv, TypeOK
<1>5. CASE Applies(t)
  <2>0. proc[t].pc # "idle"
    BY <1>5 DEF Applies
  <2>1. /\ proc' \in [Tasks -> Locals]
        /\ \A u \in Tasks : proc'[u].pc # "idle" => proc'[u].hook \in HookIds
    <3>1. Accepted(t) \in BOOLEAN
      BY DEF Accepted
    <3> QED BY <1>2, <1>5, <2>0, <3>1 DEF Applies
  <2>2. spent' \in [events : Nat, edits : Nat, fails : Nat]
    BY <1>5, SpentType DEF Applies, TypeInv
  <2>3. rule' \in {rule, proc[t].at}
    BY <1>5 DEF Applies
  <2>4. rule' \in Addresses \cup {None}
    BY <1>0, <2>3 DEF TypeInv, TypeOK, Locals
  <2> QED BY <1>5, <2>1, <2>2, <2>4 DEF Applies, TypeInv, TypeOK
<1>6. CASE LogsOut(t)
  <2>0. proc[t].pc # "idle"
    BY <1>6 DEF LogsOut
  <2>1. /\ proc' \in [Tasks -> Locals]
        /\ \A u \in Tasks : proc'[u].pc # "idle" => proc'[u].hook \in HookIds
    BY <1>6, <2>0, EndsTypes DEF LogsOut
  <2>2. spent' \in [events : Nat, edits : Nat, fails : Nat]
    BY <1>6, SpentType DEF LogsOut, TypeInv
  <2>3. excused' \in BOOLEAN
    BY <1>0, <1>6 DEF LogsOut, TypeInv, TypeOK, Locals
  <2>4. owner' \in {owner, None, Lost}
    BY <1>6 DEF LogsOut, Released
  <2> QED BY <1>6, <2>1, <2>2, <2>3, <2>4 DEF LogsOut, TypeInv, TypeOK
<1> QED BY <1>3, <1>4, <1>5, <1>6 DEF Router

(* The routes. *)
LEMMA ForgivesTypes ==
  ASSUME TypeInv, NEW waived, Forgives(waived)
  PROVE  /\ proc' \in [Tasks -> Locals]
         /\ \A t \in Tasks : proc'[t] = [proc[t] EXCEPT !.due = @ \ waived[t]]
         /\ \A t \in Tasks : proc'[t].pc # "idle" => proc'[t].hook \in HookIds
         /\ excused' \in BOOLEAN
<1>0. proc \in [Tasks -> Locals] /\ excused \in BOOLEAN
  BY DEF TypeInv, TypeOK
<1>1. \A t \in Tasks : /\ [proc[t] EXCEPT !.due = @ \ waived[t]] \in Locals
                       /\ [proc[t] EXCEPT !.due = @ \ waived[t]].pc = proc[t].pc
                       /\ [proc[t] EXCEPT !.due = @ \ waived[t]].hook = proc[t].hook
  BY <1>0 DEF Locals
<1> QED BY <1>0, <1>1 DEF Forgives, TypeInv

LEMMA HookOfType ==
  ASSUME NEW id \in HookIds, NEW input \in Inputs
  PROVE  HookOf(id, input) \in Hook
BY HooksAssumption DEF HookOf, Hook, Settings

LEMMA EditTypes ==
  ASSUME TypeInv,
         \/ \E id \in HookIds : CreateHook(id)
         \/ \E i \in DOMAIN hooks : UpdateHook(i) \/ DeleteHook(i)
  PROVE  TypeInv'
<1>0. hooks \in Seq(Hook) /\ TypeOK
  BY DEF TypeInv, TypeOK
<1>1. ASSUME NEW id \in HookIds, CreateHook(id)
      PROVE  TypeInv'
  <2>1. PICK input \in Inputs : hooks' = Append(hooks, HookOf(id, input))
    BY <1>1 DEF CreateHook
  <2>2. hooks' \in Seq(Hook)
    BY <1>0, <2>1, HookOfType
  <2>3. spent' \in [events : Nat, edits : Nat, fails : Nat]
    BY <1>0, <1>1, SpentType DEF CreateHook
  <2> QED BY <1>1, <2>2, <2>3 DEF CreateHook, TypeInv, TypeOK
<1>2. ASSUME NEW i \in DOMAIN hooks, UpdateHook(i)
      PROVE  TypeInv'
  <2>1. PICK input \in Inputs : hooks' = [hooks EXCEPT ![i] = HookOf(KeptId(i), input)]
    BY <1>2 DEF UpdateHook
  <2>2. HookOf(KeptId(i), input) \in Hook
    BY <1>0, HookType, HookOfType DEF KeptId
  <2>3. hooks' \in Seq(Hook)
    BY <1>0, <2>1, <2>2
  <2>4. spent' \in [events : Nat, edits : Nat, fails : Nat]
    BY <1>0, <1>2, SpentType DEF UpdateHook
  <2> QED BY <1>2, <2>3, <2>4, ForgivesTypes DEF UpdateHook, TypeInv, TypeOK
<1>3. ASSUME NEW i \in DOMAIN hooks, DeleteHook(i)
      PROVE  TypeInv'
  <2>1. hooks' \in Seq(Hook)
    BY <1>0, <1>3, Removed DEF DeleteHook
  <2>2. spent' \in [events : Nat, edits : Nat, fails : Nat]
    BY <1>0, <1>3, SpentType DEF DeleteHook
  <2> QED BY <1>3, <2>1, <2>2, ForgivesTypes DEF DeleteHook, TypeInv, TypeOK
<1> QED BY <1>1, <1>2, <1>3

LEMMA RunTypes ==
  ASSUME TypeInv, NEW m \in Manuals, NEW i \in DOMAIN hooks, RunNow(m, i)
  PROVE  TypeInv'
<1> DEFINE next == [Fresh EXCEPT !.pc = Opening(hooks[i].plugin), !.ev = "ip",
                                 !.at = pub, !.hook = hooks[i].id]
<1>0. TypeOK /\ m \in Tasks /\ hooks[i].id \in HookIds /\ pub \in Addresses \cup {None}
  BY HookType DEF TypeInv, TypeOK, Tasks
<1>1. next \in Locals /\ next.hook \in HookIds
  BY <1>0 DEF Fresh, Locals, Events, Opening
<1>2. proc' = [proc EXCEPT ![m] = next]
  BY DEF RunNow
<1>3. spent' \in [events : Nat, edits : Nat, fails : Nat]
  BY <1>0, SpentType DEF RunNow
<1> HIDE DEF next
<1>4. /\ proc' \in [Tasks -> Locals]
      /\ \A u \in Tasks : proc'[u].pc # "idle" => proc'[u].hook \in HookIds
  BY <1>0, <1>1, <1>2, GoesTypes
<1> QED BY <1>3, <1>4 DEF RunNow, TypeInv, TypeOK

(* Every step keeps the types. *)
LEMMA StepTypes ==
  ASSUME TypeInv, [Next]_vars
  PROVE  TypeInv'
<1>0. TypeOK
  BY DEF TypeInv
<1>1. ASSUME NEW p \in Passes, NEW a \in Addresses, Announces(p, a)
      PROVE  TypeInv'
  <2>1. p \in Tasks /\ "ip" \in Events
    BY DEF Tasks, Dispatchers, Events
  <2>2. /\ proc' \in [Tasks -> Locals]
        /\ \A u \in Tasks : proc'[u].pc # "idle" => proc'[u].hook \in HookIds
    BY <1>1, <2>1, DispatchTypes DEF Announces
  <2>3. spent' \in [events : Nat, edits : Nat, fails : Nat]
    BY <1>0, <1>1, SpentType DEF Announces
  <2>4. excused' \in BOOLEAN
    BY <1>1 DEF Announces
  <2> QED BY <1>1, <2>2, <2>3, <2>4 DEF Announces, TypeInv, TypeOK
<1>2. ASSUME NEW t \in Dispatchers, Tells(t)
      PROVE  TypeInv'
  <2>1. t \in Tasks /\ "other" \in Events
    BY DEF Tasks, Events
  <2>2. /\ proc' \in [Tasks -> Locals]
        /\ \A u \in Tasks : proc'[u].pc # "idle" => proc'[u].hook \in HookIds
    BY <1>2, <2>1, DispatchTypes DEF Tells
  <2>3. spent' \in [events : Nat, edits : Nat, fails : Nat]
    BY <1>0, <1>2, SpentType DEF Tells
  <2> QED BY <1>2, <2>2, <2>3 DEF Tells, TypeInv, TypeOK
<1>3. ASSUME NEW t \in Tasks, Notified(t)
      PROVE  TypeInv'
  <2>1. /\ proc' \in [Tasks -> Locals]
        /\ \A u \in Tasks : proc'[u].pc # "idle" => proc'[u].hook \in HookIds
    BY <1>3, EndsTypes DEF Notified
  <2>2. spent' \in [events : Nat, edits : Nat, fails : Nat]
    BY <1>0, <1>3, SpentType DEF Notified
  <2> QED BY <1>3, <2>1, <2>2 DEF Notified, TypeInv, TypeOK
<1>4. CASE SessionExpires
  BY <1>4 DEF SessionExpires, TypeInv, TypeOK
<1>5. CASE UNCHANGED vars
  BY <1>5 DEF vars, TypeInv, TypeOK
<1> QED BY <1>1, <1>2, <1>3, <1>4, <1>5, RouterTypes, RunTypes, EditTypes DEF Next

LEMMA TypeInvariant == Spec => []TypeInv
<1>1. Init => TypeInv
  <2> SUFFICES ASSUME Init PROVE TypeInv
    OBVIOUS
  <2>1. Fresh \in Locals /\ Fresh.pc = "idle"
    BY DEF Fresh, Locals, Events
  <2> QED BY <2>1, HooksAssumption DEF Init, TypeInv, TypeOK
<1> QED BY <1>1, StepTypes, PTL DEF Spec

(* Every reachable state is well formed (the types of config_store.py:45   *)
(* and the locals of services/dispatch.py).                                *)
THEOREM TypeCorrect == Spec => []TypeOK
BY TypeInvariant, PTL DEF TypeInv

-----------------------------------------------------------------------------
(* The session of the router *)

(* A step of one task, and an edit, leave the stage of the others alone.   *)
Stays(u) == proc'[u] = proc[u]

LEMMA EndsOthers ==
  ASSUME TypeInv, NEW t \in Tasks, proc[t].pc # "idle", NEW ok, Ends(t, ok)
  PROVE  \A u \in Tasks \ {t} : Stays(u)
BY EndsMoves DEF TypeInv, Stays

LEMMA DispatchOthers ==
  ASSUME TypeInv, NEW t \in Tasks, NEW ev \in Events, NEW at \in Addresses \cup {None},
         Dispatch(t, ev, at)
  PROVE  \A u \in Tasks \ {t} : Stays(u)
BY DispatchMoves DEF TypeInv, Stays

LEMMA RouterOthers ==
  ASSUME TypeInv, NEW t \in Tasks, Router(t)
  PROVE  \A u \in Tasks \ {t} : Stays(u)
<1>0. proc \in [Tasks -> Locals]
  BY DEF TypeInv, TypeOK
<1>1. ASSUME NEW next, proc' = [proc EXCEPT ![t] = next]
      PROVE  \A u \in Tasks \ {t} : Stays(u)
  BY <1>0, <1>1 DEF Stays
<1>2. ASSUME NEW pc, GoesTo(t, pc) PROVE \A u \in Tasks \ {t} : Stays(u)
  <2>1. proc' = [proc EXCEPT ![t] = [proc[t] EXCEPT !.pc = pc]]
    BY <1>2 DEF GoesTo
  <2> QED BY <1>1, <2>1
<1>3. ASSUME NEW ok, proc' = [proc EXCEPT ![t] = Leaves(@, ok)]
      PROVE  \A u \in Tasks \ {t} : Stays(u)
  <2>1. proc' = [proc EXCEPT ![t] = Leaves(proc[t], ok)]
    BY <1>3
  <2> QED BY <1>1, <2>1
<1>4. CASE LogsIn(t)
  BY <1>2, <1>4, EndsOthers DEF LogsIn
<1>5. CASE Prepares(t)
  BY <1>2, <1>3, <1>5 DEF Prepares
<1>6. CASE Applies(t)
  BY <1>3, <1>6 DEF Applies
<1>7. CASE LogsOut(t)
  BY <1>7, EndsOthers DEF LogsOut
<1> QED BY <1>4, <1>5, <1>6, <1>7 DEF Router

LEMMA ForgivesKeeps ==
  ASSUME TypeInv, NEW waived, Forgives(waived), NEW u \in Tasks
  PROVE  /\ proc'[u].pc = proc[u].pc /\ proc'[u].at = proc[u].at
         /\ proc'[u].ev = proc[u].ev /\ proc'[u].ok = proc[u].ok
<1>1. proc'[u] = [proc[u] EXCEPT !.due = @ \ waived[u]] /\ proc[u] \in Locals
  BY ForgivesTypes DEF TypeInv, TypeOK
<1> QED BY <1>1 DEF Locals

Holding == {"prepare", "apply", "logout"}

LEMMA StepReleases ==
  ASSUME TypeInv, SessionReleased, [Next]_vars
  PROVE  SessionReleased'
<1>0. /\ proc \in [Tasks -> Locals] /\ None \notin Tasks /\ Lost \notin Tasks
      /\ owner \in Tasks => proc[owner].pc \in Holding
  BY HooksAssumption DEF TypeInv, TypeOK, SessionReleased, Holding
<1> SUFFICES ASSUME owner' \in Tasks PROVE proc'[owner'].pc \in Holding
  BY DEF SessionReleased, Holding
<1>1. ASSUME NEW t \in Tasks, proc[t].pc \notin Holding, owner' = owner,
             \A u \in Tasks \ {t} : Stays(u)
      PROVE  proc'[owner'].pc \in Holding
  BY <1>0, <1>1 DEF Stays
<1>2. ASSUME NEW p \in Passes, NEW a \in Addresses, Announces(p, a)
      PROVE  proc'[owner'].pc \in Holding
  <2>1. p \in Tasks /\ "ip" \in Events /\ proc[p].pc \notin Holding
    BY <1>2 DEF Tasks, Dispatchers, Events, Announces, Idle, Holding
  <2> QED BY <1>1, <1>2, <2>1, DispatchOthers DEF Announces
<1>3. ASSUME NEW t \in Dispatchers, Tells(t)
      PROVE  proc'[owner'].pc \in Holding
  <2>1. t \in Tasks /\ "other" \in Events /\ proc[t].pc \notin Holding
    BY <1>3 DEF Tasks, Events, Tells, Idle, Holding
  <2> QED BY <1>1, <1>3, <2>1, DispatchOthers DEF Tells
<1>4. ASSUME NEW m \in Manuals, NEW i \in DOMAIN hooks, RunNow(m, i)
      PROVE  proc'[owner'].pc \in Holding
  <2>1. m \in Tasks /\ proc[m].pc \notin Holding
    BY <1>4 DEF Tasks, RunNow, Idle, Holding
  <2>2. \A u \in Tasks \ {m} : Stays(u)
    BY <1>0, <1>4, <2>1 DEF RunNow, Stays
  <2> QED BY <1>1, <1>4, <2>1, <2>2 DEF RunNow
<1>5. ASSUME NEW t \in Tasks, Notified(t)
      PROVE  proc'[owner'].pc \in Holding
  <2>1. proc[t].pc \notin Holding /\ proc[t].pc # "idle"
    BY <1>5 DEF Notified, Holding
  <2>2. \A u \in Tasks \ {t} : Stays(u)
    BY <1>5, <2>1, EndsOthers DEF Notified
  <2> QED BY <1>1, <1>5, <2>1, <2>2 DEF Notified
<1>6. ASSUME NEW t \in Tasks, Router(t)
      PROVE  proc'[owner'].pc \in Holding
  <2>0. \A u \in Tasks \ {t} : Stays(u)
    BY <1>6, RouterOthers
  <2>1. CASE owner' # t
    <3>1. owner' = owner
      BY <1>0, <1>6, <2>1 DEF Router, LogsIn, Prepares, Applies, LogsOut, Released
    <3> QED BY <1>0, <2>0, <2>1, <3>1 DEF Stays
  <2>2. ASSUME owner' = t, NEW pc, GoesTo(t, pc)
        PROVE  proc'[t].pc = pc
    <3>1. proc[t] \in Locals /\ proc' = [proc EXCEPT ![t] = [proc[t] EXCEPT !.pc = pc]]
      BY <1>0, <2>2 DEF GoesTo
    <3> QED BY <1>0, <3>1 DEF Locals
  <2>3. ASSUME NEW ok, proc' = [proc EXCEPT ![t] = Leaves(@, ok)]
        PROVE  proc'[t].pc = "logout"
    <3>1. proc[t] \in Locals /\ proc' = [proc EXCEPT ![t] = Leaves(proc[t], ok)]
      BY <1>0, <2>3
    <3> QED BY <1>0, <3>1 DEF Locals, Leaves
  <2>4. CASE owner' = t /\ LogsIn(t)
    <3>1. owner # t
      BY <1>0, <2>4 DEF LogsIn, Holding
    <3> QED BY <1>0, <2>2, <2>4, <3>1 DEF LogsIn, Holding
  <2>5. CASE owner' = t /\ Prepares(t)
    BY <2>2, <2>3, <2>5 DEF Prepares, Holding
  <2>6. CASE owner' = t /\ Applies(t)
    BY <2>3, <2>6 DEF Applies, Holding
  <2>7. CASE owner' = t /\ LogsOut(t)
    BY <1>0, <2>7 DEF LogsOut, Released
  <2> QED BY <1>6, <2>1, <2>4, <2>5, <2>6, <2>7 DEF Router
<1>7. CASE SessionExpires
  BY <1>0, <1>7 DEF SessionExpires
<1>8. ASSUME NEW id \in HookIds, CreateHook(id)
      PROVE  proc'[owner'].pc \in Holding
  BY <1>0, <1>8 DEF CreateHook
<1>9. ASSUME NEW i \in DOMAIN hooks, UpdateHook(i) \/ DeleteHook(i)
      PROVE  proc'[owner'].pc \in Holding
  <2>1. owner' = owner
    BY <1>9 DEF UpdateHook, DeleteHook
  <2> QED BY <1>0, <1>9, <2>1, ForgivesKeeps DEF UpdateHook, DeleteHook
<1>10. CASE UNCHANGED vars
  BY <1>0, <1>10 DEF vars
<1> QED BY <1>2, <1>3, <1>4, <1>5, <1>6, <1>7, <1>8, <1>9, <1>10 DEF Next

(* The router's administrator session is never left open by a run that is  *)
(* over, whoever takes it over and whatever raises, as long as no answer   *)
(* of a login or logout is lost (router_firewall.py:274-280).              *)
THEOREM ReleasesSession == Spec => []SessionReleased
<1>1. Init => SessionReleased
  BY HooksAssumption DEF Init, SessionReleased
<1> QED BY <1>1, StepReleases, TypeInvariant, PTL DEF Spec

-----------------------------------------------------------------------------
(* The rule follows the address *)

(* While nothing excuses it, whoever is at the router carries the public   *)
(* address; and if the rule is behind, a pass is on its way to it, or is   *)
(* about to log that it failed.                                            *)
Carry ==
  \A t \in Tasks : proc[t].pc \in RouterPcs =>
    /\ t \notin Checks /\ proc[t].ev = "ip" /\ (~excused => proc[t].at = pub)
AboutTo(l) == l.pc \in {"login", "prepare", "apply"} \/ (l.pc = "logout" /\ ~l.ok)
Behind == ~excused /\ pub # None /\ rule # pub => \E p \in Passes : AboutTo(proc[p])
ChecksTellOthers == \A t \in Checks : proc[t].ev = "other"
NotifyOfOthers == \A t \in Tasks : proc[t].pc = "notify" => proc[t].ev # "ip"
RuleInv == Carry /\ Behind /\ ChecksTellOthers /\ NotifyOfOthers

LEMMA InvFollows == ASSUME TypeInv, RuleInv PROVE RuleFollows
<1>1. ASSUME NEW p \in Passes, Idle(p) PROVE ~AboutTo(proc[p])
  BY <1>1 DEF Idle, AboutTo
<1> QED BY <1>1 DEF RuleInv, Behind, RuleFollows

(* Only the router hook hears of "ip", and it hears of nothing else.       *)
LEMMA PicksOpening ==
  ASSUME TypeOK, NEW l \in Locals, NEW from \in Nat, NEW i \in DOMAIN hooks, NEW next,
         Picks(l, from, i, next)
  PROVE  /\ next.pc = "login" => l.ev = "ip"
         /\ l.ev = "ip" => next.pc = "login"
         /\ next.pc \in {"login", "notify"}
         /\ next.ev = l.ev /\ next.at = l.at
<1>1. hooks[i] \in Hook /\ hooks[i].plugin \in Plugins
  BY HookType DEF TypeOK, Hook
<1>2. l.ev \in Supports[hooks[i].plugin]
  BY DEF Picks, Matches
<1>3. l.ev = "ip" <=> hooks[i].plugin = "router"
  BY <1>1, <1>2 DEF Plugins, Supports, Events
<1>4. next = [l EXCEPT !.pc = Opening(hooks[i].plugin), !.idx = i,
                       !.hook = hooks[i].id, !.ok = TRUE]
  BY DEF Picks
<1>5. next.pc = Opening(hooks[i].plugin) /\ next.ev = l.ev /\ next.at = l.at
  BY <1>4 DEF Locals
<1> QED BY <1>3, <1>5 DEF Opening

LEMMA MovesOpening ==
  ASSUME TypeOK, NEW l \in Locals, NEW from \in Nat, NEW next, Moves(l, from, next)
  PROVE  /\ next.ev = l.ev /\ next.at = l.at
         /\ next.pc \in {"idle", "notify", "login"}
         /\ next.pc = "login" => l.ev = "ip"
         /\ next.pc = "notify" => l.ev # "ip"
<1>1. CASE Stops(l, from, next)
  BY <1>1 DEF Stops, Locals
<1>2. ASSUME NEW i \in DOMAIN hooks, Picks(l, from, i, next)
      PROVE  /\ next.ev = l.ev /\ next.at = l.at
             /\ next.pc \in {"idle", "notify", "login"}
             /\ next.pc = "login" => l.ev = "ip"
             /\ next.pc = "notify" => l.ev # "ip"
  BY <1>2, PicksOpening
<1> QED BY <1>1, <1>2 DEF Moves

LEMMA EndsOpening ==
  ASSUME TypeInv, NEW t \in Tasks, proc[t].pc # "idle", NEW ok, Ends(t, ok)
  PROVE  /\ proc'[t].ev = proc[t].ev /\ proc'[t].at = proc[t].at
         /\ proc'[t].pc \in {"idle", "notify", "login"}
         /\ proc'[t].pc = "login" => proc[t].ev = "ip"
         /\ proc'[t].pc = "notify" => proc[t].ev # "ip"
         /\ \A u \in Tasks \ {t} : Stays(u)
<1>0. TypeOK /\ proc[t] \in Locals /\ proc[t].hook \in HookIds
  BY DEF TypeInv, TypeOK
<1>1. /\ Handled(t) \in Locals /\ proc[t].idx + 1 \in Nat
      /\ Handled(t).ev = proc[t].ev /\ Handled(t).at = proc[t].at
  BY <1>0 DEF Handled, Locals
<1>2. /\ t \in Manuals => proc'[t] = [Handled(t) EXCEPT !.pc = "idle"]
      /\ t \notin Manuals => Moves(Handled(t), proc[t].idx + 1, proc'[t])
      /\ \A u \in Tasks \ {t} : Stays(u)
  BY <1>0, EndsMoves DEF Stays
<1>3. CASE t \in Manuals
  BY <1>1, <1>2, <1>3 DEF Locals
<1>4. CASE t \notin Manuals
  BY <1>0, <1>1, <1>2, <1>4, MovesOpening
<1> QED BY <1>2, <1>3, <1>4

(* A step of one task that leaves address, rule and excuse alone, enters   *)
(* the router with the address it carried there, and does not give up.     *)
LEMMA OneStep ==
  ASSUME TypeInv, RuleInv, NEW t \in Tasks, \A u \in Tasks \ {t} : Stays(u),
         pub' = pub, excused' = excused,
         proc'[t].ev = proc[t].ev, proc'[t].at = proc[t].at,
         proc'[t].pc \in RouterPcs => proc[t].pc \in RouterPcs,
         proc'[t].pc = "notify" => proc[t].ev # "ip",
         rule' # pub' => rule # pub,
         rule' # pub' /\ t \in Passes /\ AboutTo(proc[t]) => AboutTo(proc'[t])
  PROVE  RuleInv'
<1>1. Carry'
  BY DEF RuleInv, Carry, Stays
<1>2. Behind'
  <2> SUFFICES ASSUME ~excused', pub' # None, rule' # pub'
               PROVE  \E p \in Passes : AboutTo(proc'[p])
    BY DEF Behind, AboutTo
  <2>1. PICK p \in Passes : AboutTo(proc[p])
    BY DEF RuleInv, Behind
  <2>2. p \in Tasks
    BY DEF Tasks, Dispatchers
  <2> QED BY <2>1, <2>2 DEF Stays
<1>3. ChecksTellOthers'
  BY DEF RuleInv, ChecksTellOthers, Stays, Tasks, Dispatchers
<1>4. NotifyOfOthers'
  BY DEF RuleInv, NotifyOfOthers, Stays
<1> QED BY <1>1, <1>2, <1>3, <1>4 DEF RuleInv

(* A step after which the rule is excused. *)
LEMMA ExcusedStep ==
  ASSUME TypeInv, RuleInv, NEW t \in Tasks, \A u \in Tasks \ {t} : Stays(u),
         excused', proc'[t].ev = proc[t].ev,
         proc'[t].pc \in RouterPcs => proc[t].pc \in RouterPcs,
         proc'[t].pc = "notify" => proc[t].ev # "ip"
  PROVE  RuleInv'
<1>1. Carry'
  BY DEF RuleInv, Carry, Stays
<1>2. ChecksTellOthers'
  BY DEF RuleInv, ChecksTellOthers, Stays, Tasks, Dispatchers
<1>3. NotifyOfOthers'
  BY DEF RuleInv, NotifyOfOthers, Stays
<1> QED BY <1>1, <1>2, <1>3 DEF RuleInv, Behind

LEMMA AnnounceFollows ==
  ASSUME TypeInv, RuleInv, NEW p \in Passes, NEW a \in Addresses, Announces(p, a)
  PROVE  RuleInv'
<1>0. /\ TypeOK /\ p \in Tasks /\ p \notin Checks /\ "ip" \in Events
      /\ a \in Addresses \cup {None}
  BY HooksAssumption DEF TypeInv, Tasks, Dispatchers, Events
<1>1. /\ Begun("ip", a) \in Locals
      /\ Begun("ip", a).ev = "ip" /\ Begun("ip", a).at = a
  BY <1>0, BegunType
<1>2. /\ \A u \in Tasks \ {p} : Stays(u)
      /\ Moves(Begun("ip", a), 1, proc'[p])
  BY <1>0, DispatchMoves DEF Announces, Stays
<1>3. proc'[p].ev = "ip" /\ proc'[p].at = a /\ proc'[p].pc # "notify"
  BY <1>0, <1>1, <1>2, MovesOpening
<1>4. ~excused' => \A u \in Tasks \ {p} : proc'[u].pc \notin RouterPcs
  <2>1. ASSUME NEW u \in Tasks \ {p}, ~excused' PROVE proc'[u].pc \notin RouterPcs
    <3>1. u \in Checks => proc[u].pc \notin RouterPcs
      BY DEF RuleInv, Carry
    <3>2. u \notin Checks => Idle(u)
      BY <2>1 DEF Announces, Tasks, Dispatchers
    <3> QED BY <1>2, <3>1, <3>2 DEF Stays, Idle, RouterPcs
  <2> QED BY <2>1
<1>5. Carry'
  BY <1>0, <1>2, <1>3, <1>4 DEF RuleInv, Carry, Stays, Announces
<1>6. ~excused' => proc'[p].pc = "login"
  <2> SUFFICES ASSUME ~excused' PROVE proc'[p].pc = "login"
    OBVIOUS
  <2>1. PICK h \in ToSet(hooks) : Matches(h, "ip")
    BY DEF Announces
  <2>2. PICK j \in DOMAIN hooks : h = hooks[j]
    BY DEF ToSet
  <2>3. j \in 1..Len(hooks)
    BY <1>0, <2>2 DEF TypeOK
  <2>4. ~Stops(Begun("ip", a), 1, proc'[p])
    BY <1>1, <2>1, <2>2, <2>3 DEF Stops
  <2>5. PICK i \in DOMAIN hooks : Picks(Begun("ip", a), 1, i, proc'[p])
    BY <1>2, <2>4 DEF Moves
  <2> QED BY <1>0, <1>1, <2>5, PicksOpening
<1>7. Behind'
  BY <1>6 DEF Behind, AboutTo
<1>8. ChecksTellOthers'
  <2>1. \A t \in Checks : t \in Tasks \ {p}
    BY <1>0 DEF Tasks, Dispatchers
  <2> QED BY <1>2, <2>1 DEF RuleInv, ChecksTellOthers, Stays
<1>9. NotifyOfOthers'
  BY <1>2, <1>3 DEF RuleInv, NotifyOfOthers, Stays
<1> QED BY <1>5, <1>7, <1>8, <1>9 DEF RuleInv

LEMMA TellFollows ==
  ASSUME TypeInv, RuleInv, NEW t \in Dispatchers, Tells(t)
  PROVE  RuleInv'
<1>0. /\ TypeOK /\ t \in Tasks /\ "other" \in Events /\ None \in Addresses \cup {None}
      /\ proc[t].pc = "idle"
  BY DEF TypeInv, Tasks, Events, Tells, Idle
<1>1. /\ Begun("other", None) \in Locals /\ Begun("other", None).ev = "other"
  BY <1>0, BegunType
<1>2. /\ \A u \in Tasks \ {t} : Stays(u)
      /\ Moves(Begun("other", None), 1, proc'[t])
  BY <1>0, DispatchMoves DEF Tells, Stays
<1>3. proc'[t].ev = "other" /\ proc'[t].pc \in {"idle", "notify"}
  BY <1>0, <1>1, <1>2, MovesOpening
<1>4. Carry'
  BY <1>2, <1>3 DEF RuleInv, Carry, Stays, Tells, RouterPcs
<1>5. Behind'
  <2> SUFFICES ASSUME ~excused', pub' # None, rule' # pub'
               PROVE  \E p \in Passes : AboutTo(proc'[p])
    BY DEF Behind, AboutTo
  <2>1. PICK p \in Passes : AboutTo(proc[p])
    BY DEF RuleInv, Behind, Tells
  <2>2. p \in Tasks \ {t}
    BY <1>0, <2>1 DEF Tasks, Dispatchers, AboutTo
  <2> QED BY <1>2, <2>1, <2>2 DEF Stays
<1>6. ChecksTellOthers'
  BY <1>2, <1>3 DEF RuleInv, ChecksTellOthers, Stays, Tasks, Dispatchers
<1>7. NotifyOfOthers'
  BY <1>2, <1>3 DEF RuleInv, NotifyOfOthers, Stays
<1> QED BY <1>4, <1>5, <1>6, <1>7 DEF RuleInv

LEMMA RunFollows ==
  ASSUME TypeInv, RuleInv, NEW m \in Manuals, NEW i \in DOMAIN hooks, RunNow(m, i)
  PROVE  RuleInv'
<1> DEFINE next == [Fresh EXCEPT !.pc = Opening(hooks[i].plugin), !.ev = "ip",
                                 !.at = pub, !.hook = hooks[i].id]
<1>0. /\ m \in Tasks /\ m \notin Dispatchers /\ proc \in [Tasks -> Locals]
      /\ proc[m].pc = "idle"
  BY HooksAssumption DEF TypeInv, TypeOK, Tasks, RunNow, Idle
<1>1. next.ev = "ip" /\ next.at = pub
  BY DEF Fresh
<1>2. proc' = [proc EXCEPT ![m] = next]
  BY DEF RunNow
<1> HIDE DEF next
<1>3. proc'[m] = next /\ \A u \in Tasks \ {m} : Stays(u)
  BY <1>0, <1>2 DEF Stays
<1>4. Carry'
  BY <1>0, <1>1, <1>3 DEF RuleInv, Carry, Stays, RunNow, Dispatchers
<1>5. Behind'
  <2>1. \A p \in Passes : p \in Tasks \ {m}
    BY <1>0 DEF Tasks, Dispatchers
  <2> QED BY <1>3, <2>1 DEF RuleInv, Behind, AboutTo, Stays, RunNow
<1>6. ChecksTellOthers'
  <2>1. \A c \in Checks : c \in Tasks \ {m}
    BY <1>0 DEF Tasks, Dispatchers
  <2> QED BY <1>3, <2>1 DEF RuleInv, ChecksTellOthers, Stays
<1>7. NotifyOfOthers'
  <2>1. next.pc = "login"
    <3>1. hooks[i].plugin \in Plugins /\ "ip" \in Supports[hooks[i].plugin]
      BY HookType DEF RunNow, Hook, TypeInv, TypeOK
    <3> QED BY <3>1 DEF next, Fresh, Opening, Plugins, Supports
  <2> QED BY <1>3, <2>1 DEF RuleInv, NotifyOfOthers, Stays
<1> QED BY <1>4, <1>5, <1>6, <1>7 DEF RuleInv

LEMMA NotifiedFollows ==
  ASSUME TypeInv, RuleInv, NEW t \in Tasks, Notified(t)
  PROVE  RuleInv'
<1>1. proc[t].pc # "idle" /\ proc[t].ev # "ip" /\ ~AboutTo(proc[t])
  BY DEF Notified, RuleInv, NotifyOfOthers, AboutTo
<1>2. PICK ok \in BOOLEAN : Ends(t, ok)
  BY DEF Notified
<1>3. /\ proc'[t].ev = proc[t].ev /\ proc'[t].at = proc[t].at
      /\ proc'[t].pc \in {"idle", "notify"}
      /\ \A u \in Tasks \ {t} : Stays(u)
  BY <1>1, <1>2, EndsOpening
<1>4. pub' = pub /\ rule' = rule /\ excused' = excused
  BY DEF Notified
<1>5. proc'[t].pc \notin RouterPcs
  BY <1>3 DEF RouterPcs
<1> QED BY <1>1, <1>3, <1>4, <1>5, OneStep

LEMMA RouterFollows ==
  ASSUME TypeInv, RuleInv, NEW t \in Tasks, Router(t)
  PROVE  RuleInv'
<1>0. /\ proc \in [Tasks -> Locals] /\ proc[t] \in Locals /\ proc[t].ev = "ip"
      /\ proc[t].pc \in RouterPcs /\ proc[t].pc # "idle"
      /\ ~excused => proc[t].at = pub
  BY DEF TypeInv, TypeOK, Router, LogsIn, Prepares, Applies, LogsOut, RuleInv, Carry, RouterPcs
<1>1. \A u \in Tasks \ {t} : Stays(u)
  BY RouterOthers
<1>2. pub' = pub
  BY DEF Router, LogsIn, Prepares, Applies, LogsOut
<1>3. ASSUME NEW ok, Ends(t, ok)
      PROVE  /\ proc'[t].ev = proc[t].ev /\ proc'[t].at = proc[t].at
             /\ proc'[t].pc # "notify"
  BY <1>0, <1>3, EndsOpening
<1>4. ASSUME NEW pc \in RouterPcs, GoesTo(t, pc)
      PROVE  /\ proc'[t].ev = proc[t].ev /\ proc'[t].at = proc[t].at
             /\ proc'[t].pc = pc /\ excused' = excused
  <2>1. proc'[t] = [proc[t] EXCEPT !.pc = pc] /\ excused' = excused
    BY <1>0, <1>4 DEF GoesTo
  <2> QED BY <1>0, <2>1 DEF Locals
<1>5. ASSUME NEW ok, proc' = [proc EXCEPT ![t] = Leaves(@, ok)]
      PROVE  /\ proc'[t].ev = proc[t].ev /\ proc'[t].at = proc[t].at
             /\ proc'[t].pc = "logout" /\ proc'[t].ok = ok
  <2>1. proc'[t] = [proc[t] EXCEPT !.pc = "logout", !.ok = ok]
    BY <1>0, <1>5 DEF Leaves
  <2> QED BY <1>0, <2>1 DEF Locals
<1>6. CASE LogsIn(t)
  <2>1. CASE GoesTo(t, "prepare")
    <3>1. /\ proc'[t].ev = proc[t].ev /\ proc'[t].at = proc[t].at
          /\ proc'[t].pc = "prepare" /\ excused' = excused
      BY <1>4, <2>1 DEF RouterPcs
    <3>2. rule' = rule
      BY <1>6 DEF LogsIn
    <3> QED BY <1>0, <1>1, <1>2, <3>1, <3>2, OneStep DEF AboutTo
  <2>2. CASE Ends(t, FALSE) /\ excused' = TRUE
    BY <1>0, <1>1, <1>3, <2>2, ExcusedStep
  <2> QED BY <1>6, <2>1, <2>2 DEF LogsIn
<1>7. CASE Prepares(t)
  <2>0. rule' = rule
    BY <1>7 DEF Prepares
  <2>1. CASE GoesTo(t, "apply")
    <3>1. /\ proc'[t].ev = proc[t].ev /\ proc'[t].at = proc[t].at
          /\ proc'[t].pc = "apply" /\ excused' = excused
      BY <1>4, <2>1 DEF RouterPcs
    <3> QED BY <1>0, <1>1, <1>2, <2>0, <3>1, OneStep DEF AboutTo
  <2>2. CASE proc' = [proc EXCEPT ![t] = Leaves(@, FALSE)] /\ excused' = excused
    <3>1. /\ proc'[t].ev = proc[t].ev /\ proc'[t].at = proc[t].at
          /\ proc'[t].pc = "logout" /\ proc'[t].ok = FALSE
      BY <1>5, <2>2
    <3> QED BY <1>0, <1>1, <1>2, <2>0, <2>2, <3>1, OneStep DEF AboutTo
  <2> QED BY <1>7, <2>1, <2>2 DEF Prepares
<1>8. CASE Applies(t)
  <2>0. excused' = excused
    BY <1>8 DEF Applies
  <2>1. CASE /\ proc' = [proc EXCEPT ![t] = Leaves(@, FALSE)]
             /\ rule' \in {rule, proc[t].at}
    <3>1. /\ proc'[t].ev = proc[t].ev /\ proc'[t].at = proc[t].at
          /\ proc'[t].pc = "logout" /\ proc'[t].ok = FALSE
      BY <1>5, <2>1
    <3>2. CASE excused'
      BY <1>0, <1>1, <3>1, <3>2, ExcusedStep
    <3>3. CASE ~excused'
      <4>1. rule' # pub' => rule # pub
        BY <1>0, <1>2, <2>0, <2>1, <3>3
      <4> QED BY <1>0, <1>1, <1>2, <2>0, <3>1, <4>1, OneStep DEF AboutTo
    <3> QED BY <3>2, <3>3
  <2>2. CASE owner = t /\ rule' = proc[t].at
             /\ proc' = [proc EXCEPT ![t] = Leaves(@, Accepted(t))]
    <3>1. /\ proc'[t].ev = proc[t].ev /\ proc'[t].at = proc[t].at
          /\ proc'[t].pc = "logout"
      BY <1>5, <2>2
    <3>2. CASE excused'
      BY <1>0, <1>1, <3>1, <3>2, ExcusedStep
    <3>3. CASE ~excused'
      <4>1. rule' = pub'
        BY <1>0, <1>2, <2>0, <2>2, <3>3
      <4> QED BY <1>0, <1>1, <1>2, <2>0, <3>1, <4>1, OneStep
    <3> QED BY <3>2, <3>3
  <2>3. CASE owner # t /\ rule' = rule
             /\ proc' = [proc EXCEPT ![t] = Leaves(@, Accepted(t))]
    <3>1. Accepted(t) = FALSE
      BY <2>3 DEF Accepted
    <3>2. proc' = [proc EXCEPT ![t] = Leaves(@, FALSE)]
      BY <2>3, <3>1
    <3> QED BY <2>1, <2>3, <3>2
  <2> QED BY <1>8, <2>1, <2>2, <2>3 DEF Applies
<1>9. CASE LogsOut(t)
  <2>1. PICK ok \in BOOLEAN : Ends(t, ok)
    BY <1>0, <1>9 DEF LogsOut, Locals
  <2>2. /\ proc'[t].ev = proc[t].ev /\ proc'[t].at = proc[t].at
        /\ proc'[t].pc # "notify"
    BY <1>3, <2>1
  <2>3. CASE excused'
    BY <1>0, <1>1, <2>2, <2>3, ExcusedStep
  <2>4. CASE ~excused'
    <3>1. excused' = excused /\ ~AboutTo(proc[t]) /\ rule' = rule
      BY <1>9, <2>4 DEF LogsOut, AboutTo, TypeInv, TypeOK
    <3> QED BY <1>0, <1>1, <1>2, <2>2, <3>1, OneStep
  <2> QED BY <2>3, <2>4
<1> QED BY <1>6, <1>7, <1>8, <1>9 DEF Router

LEMMA EditFollows ==
  ASSUME TypeInv, RuleInv, NEW waived, Forgives(waived), pub' = pub, rule' = rule
  PROVE  RuleInv'
<1>0. \A t \in Tasks : /\ proc'[t].pc = proc[t].pc /\ proc'[t].at = proc[t].at
                       /\ proc'[t].ev = proc[t].ev /\ proc'[t].ok = proc[t].ok
  BY ForgivesKeeps
<1>1. Carry'
  BY <1>0 DEF RuleInv, Carry, Forgives
<1>2. Behind'
  <2>1. \A p \in Passes : p \in Tasks
    BY DEF Tasks, Dispatchers
  <2> QED BY <1>0, <2>1 DEF RuleInv, Behind, Forgives, AboutTo
<1>3. ChecksTellOthers' /\ NotifyOfOthers'
  BY <1>0 DEF RuleInv, ChecksTellOthers, NotifyOfOthers, Tasks, Dispatchers
<1> QED BY <1>1, <1>2, <1>3 DEF RuleInv

LEMMA StepFollows ==
  ASSUME TypeInv, RuleInv, [Next]_vars
  PROVE  RuleInv'
<1>1. ASSUME UNCHANGED <<proc, pub, rule, excused>> PROVE RuleInv'
  BY <1>1 DEF RuleInv, Carry, Behind, AboutTo, ChecksTellOthers, NotifyOfOthers
<1>2. CASE SessionExpires
  BY <1>1, <1>2 DEF SessionExpires
<1>3. ASSUME NEW id \in HookIds, CreateHook(id) PROVE RuleInv'
  BY <1>1, <1>3 DEF CreateHook
<1>4. ASSUME NEW i \in DOMAIN hooks, UpdateHook(i) \/ DeleteHook(i) PROVE RuleInv'
  BY <1>4, EditFollows DEF UpdateHook, DeleteHook
<1>5. CASE UNCHANGED vars
  BY <1>1, <1>5 DEF vars
<1> QED BY <1>2, <1>3, <1>4, <1>5, AnnounceFollows, TellFollows, RunFollows,
           NotifiedFollows, RouterFollows DEF Next

(* The router's rule is at the announced address once the runs are over,   *)
(* unless one of the excuses holds, for every number of passes, checks,    *)
(* manual runs and hooks (router_firewall.py:259-280, 348-356).            *)
THEOREM RuleFollowsAddress == Spec => []RuleFollows
<1>1. Init => RuleInv
  <2> SUFFICES ASSUME Init PROVE RuleInv
    OBVIOUS
  <2>1. \A t \in Tasks : proc[t] = Fresh
    BY DEF Init
  <2>2. Fresh.pc = "idle" /\ Fresh.ev = "other"
    BY DEF Fresh
  <2>3. pub = None
    BY DEF Init
  <2> QED BY <2>1, <2>2, <2>3 DEF RuleInv, Carry, Behind, ChecksTellOthers,
              NotifyOfOthers, RouterPcs, Tasks, Dispatchers
<1>2. TypeInv /\ RuleInv => RuleFollows
  BY InvFollows
<1> QED BY <1>1, <1>2, StepFollows, TypeInvariant, PTL DEF Spec

-----------------------------------------------------------------------------
(* Each hook hears of an event once *)

(* Ids are unique and never reused; a dispatch has handled no hook that is *)
(* still ahead of it, and every hook it owes its event is ahead.           *)
Unique == \A i, j \in DOMAIN hooks : hooks[i].id = hooks[j].id => i = j
Unlisted == \A i \in DOMAIN hooks : hooks[i].id \notin unborn
Seen(l) == l.done \cup {l.hook}
Ahead(l) == {j \in DOMAIN hooks : j > l.idx}
Underway(l) ==
  /\ l.idx >= 1 /\ l.hook \notin l.done
  /\ \A id \in Seen(l) : id \notin unborn
  /\ \A j \in Ahead(l) : hooks[j].id \notin Seen(l)
  /\ \A id \in l.due \ Seen(l) :
       \E j \in Ahead(l) : hooks[j].id = id /\ Matches(hooks[j], l.ev)
Told(l) == IF l.pc = "idle" THEN l.due \subseteq l.done ELSE Underway(l)
OnceInv == Unique /\ Unlisted /\ \A t \in Dispatchers : Told(proc[t])

LEMMA InvOnce == ASSUME OnceInv PROVE EachHookOnce
BY DEF OnceInv, Told, Underway, EachHookOnce, Idle

(* The loop goes on from a point that everything handled is behind, and    *)
(* everything owed ahead.                                                  *)
LEMMA MovesTold ==
  ASSUME TypeOK, Unique, Unlisted,
         NEW l \in Locals, NEW from \in Nat, from >= 1, NEW next, Moves(l, from, next),
         \A id \in l.done : id \notin unborn,
         \A j \in from..Len(hooks) : hooks[j].id \notin l.done,
         \A id \in l.due \ l.done :
           \E j \in from..Len(hooks) : hooks[j].id = id /\ Matches(hooks[j], l.ev)
  PROVE  Told(next)
<1>0. hooks \in Seq(Hook) /\ DOMAIN hooks = 1..Len(hooks) /\ Len(hooks) \in Nat
  BY DEF TypeOK
<1>1. CASE Stops(l, from, next)
  <2>1. next.pc = "idle" /\ next.due = l.due /\ next.done = l.done
    BY <1>1 DEF Stops, Locals
  <2>2. l.due \subseteq l.done
    BY <1>1 DEF Stops
  <2> QED BY <2>1, <2>2 DEF Told
<1>2. ASSUME NEW i \in DOMAIN hooks, Picks(l, from, i, next)
      PROVE  Told(next)
  <2>1. /\ next.idx = i /\ next.hook = hooks[i].id /\ next.done = l.done
        /\ next.due = l.due /\ next.ev = l.ev /\ next.pc # "idle"
    BY <1>2 DEF Picks, Locals, Opening
  <2>2. i \in from..Len(hooks) /\ i \in Nat /\ i >= 1
    BY <1>0, <1>2 DEF Picks
  <2>3. next.hook \notin next.done
    BY <2>1, <2>2
  <2>4. \A id \in Seen(next) : id \notin unborn
    BY <2>1 DEF Seen, Unlisted
  <2>5. ASSUME NEW j \in Ahead(next) PROVE hooks[j].id \notin Seen(next)
    <3>1. j \in DOMAIN hooks /\ j > i /\ j \in from..Len(hooks)
      BY <1>0, <2>1, <2>2, <2>5 DEF Ahead
    <3>2. j # i
      BY <1>0, <2>2, <3>1
    <3>3. hooks[j].id # hooks[i].id
      BY <3>1, <3>2 DEF Unique
    <3> QED BY <2>1, <3>1, <3>3 DEF Seen
  <2>6. ASSUME NEW id \in next.due \ Seen(next)
        PROVE  \E j \in Ahead(next) : hooks[j].id = id /\ Matches(hooks[j], next.ev)
    <3>1. id \in l.due \ l.done /\ id # hooks[i].id
      BY <2>1 DEF Seen
    <3>2. PICK j \in from..Len(hooks) : hooks[j].id = id /\ Matches(hooks[j], l.ev)
      BY <3>1
    <3>3. i <= j /\ i # j
      BY <1>2, <3>1, <3>2 DEF Picks
    <3>4. j \in DOMAIN hooks /\ j > i
      BY <1>0, <2>2, <3>2, <3>3
    <3> QED BY <2>1, <3>2, <3>4 DEF Ahead
  <2> QED BY <2>1, <2>2, <2>3, <2>4, <2>5, <2>6 DEF Told, Underway
<1> QED BY <1>1, <1>2 DEF Moves

LEMMA DispatchTold ==
  ASSUME TypeInv, OnceInv, NEW t \in Tasks, NEW ev \in Events,
         NEW at \in Addresses \cup {None}, Dispatch(t, ev, at)
  PROVE  Told(proc'[t])
<1> DEFINE l == Begun(ev, at)
<1>0. TypeOK /\ Unique /\ Unlisted /\ DOMAIN hooks = 1..Len(hooks)
  BY DEF TypeInv, TypeOK, OnceInv
<1>1. /\ l \in Locals /\ l.ev = ev /\ l.done = {}
      /\ \A id \in l.due : \E j \in DOMAIN hooks : hooks[j].id = id /\ Matches(hooks[j], ev)
  BY <1>0, BegunType
<1>2. Moves(l, 1, proc'[t])
  BY <1>0, DispatchMoves
<1> HIDE DEF l
<1> QED BY <1>0, <1>1, <1>2, MovesTold

LEMMA EndsTold ==
  ASSUME TypeInv, OnceInv, NEW t \in Dispatchers, proc[t].pc # "idle", NEW ok, Ends(t, ok)
  PROVE  Told(proc'[t])
<1> DEFINE l == Handled(t)
<1>0. /\ TypeOK /\ Unique /\ Unlisted /\ t \in Tasks /\ t \notin Manuals
      /\ proc[t] \in Locals /\ proc[t].hook \in HookIds
      /\ DOMAIN hooks = 1..Len(hooks) /\ Len(hooks) \in Nat
      /\ Underway(proc[t])
  BY HooksAssumption DEF TypeInv, TypeOK, OnceInv, Told, Tasks
<1>1. /\ l \in Locals /\ l.ev = proc[t].ev /\ l.done = Seen(proc[t])
      /\ l.due = proc[t].due
  BY <1>0 DEF Handled, Locals, Seen
<1>2. Moves(l, proc[t].idx + 1, proc'[t])
  BY <1>0, EndsMoves
<1>3. proc[t].idx \in Nat /\ proc[t].idx + 1 \in Nat /\ proc[t].idx + 1 >= 1
  BY <1>0 DEF Locals
<1>4. Ahead(proc[t]) = (proc[t].idx + 1)..Len(hooks)
  BY <1>0, <1>3 DEF Ahead
<1>5. /\ \A id \in l.done : id \notin unborn
      /\ \A j \in (proc[t].idx + 1)..Len(hooks) : hooks[j].id \notin l.done
      /\ \A id \in l.due \ l.done : \E j \in (proc[t].idx + 1)..Len(hooks) :
           hooks[j].id = id /\ Matches(hooks[j], l.ev)
  BY <1>0, <1>1, <1>4 DEF Underway
<1> HIDE DEF l
<1> QED BY <1>0, <1>1, <1>2, <1>3, <1>5, MovesTold

(* A step of one task, the list as it was. *)
LEMMA TaskOnce ==
  ASSUME OnceInv, NEW t \in Tasks, \A u \in Tasks \ {t} : Stays(u),
         hooks' = hooks, unborn' = unborn, t \in Dispatchers => Told(proc'[t])
  PROVE  OnceInv'
<1>1. Unique' /\ Unlisted'
  BY DEF OnceInv, Unique, Unlisted
<1>2. ASSUME NEW u \in Dispatchers PROVE Told(proc[u])'
  <2>1. Told(proc'[u])
    BY <1>2 DEF OnceInv, Stays, Tasks
  <2> QED BY <2>1 DEF Told, Underway, Seen, Ahead
<1> QED BY <1>1, <1>2 DEF OnceInv

(* The locals of a task at the router, with another stage. *)
LEMMA StageTold ==
  ASSUME NEW l \in Locals, Told(l), l.pc # "idle", NEW next,
         next.pc # "idle", next.idx = l.idx, next.hook = l.hook,
         next.done = l.done, next.due = l.due, next.ev = l.ev
  PROVE  Told(next)
BY DEF Told, Underway, Seen, Ahead

LEMMA RouterOnce ==
  ASSUME TypeInv, OnceInv, NEW t \in Tasks, Router(t)
  PROVE  OnceInv'
<1>0. /\ proc \in [Tasks -> Locals] /\ proc[t] \in Locals
      /\ proc[t].pc # "idle" /\ hooks' = hooks /\ unborn' = unborn
      /\ t \in Dispatchers => Told(proc[t])
  BY DEF TypeInv, TypeOK, OnceInv, Router, LogsIn, Prepares, Applies, LogsOut
<1>1. ASSUME NEW pc \in RouterPcs, GoesTo(t, pc), t \in Dispatchers
      PROVE  Told(proc'[t])
  <2>1. proc'[t] = [proc[t] EXCEPT !.pc = pc]
    BY <1>0, <1>1 DEF GoesTo
  <2>2. /\ proc'[t].pc # "idle" /\ proc'[t].idx = proc[t].idx
        /\ proc'[t].hook = proc[t].hook /\ proc'[t].done = proc[t].done
        /\ proc'[t].due = proc[t].due /\ proc'[t].ev = proc[t].ev
    BY <1>0, <2>1 DEF Locals, RouterPcs
  <2> QED BY <1>0, <1>1, <2>2, StageTold
<1>2. ASSUME NEW ok, proc' = [proc EXCEPT ![t] = Leaves(@, ok)], t \in Dispatchers
      PROVE  Told(proc'[t])
  <2>1. proc'[t] = [proc[t] EXCEPT !.pc = "logout", !.ok = ok]
    BY <1>0, <1>2 DEF Leaves
  <2>2. /\ proc'[t].pc # "idle" /\ proc'[t].idx = proc[t].idx
        /\ proc'[t].hook = proc[t].hook /\ proc'[t].done = proc[t].done
        /\ proc'[t].due = proc[t].due /\ proc'[t].ev = proc[t].ev
    BY <1>0, <2>1 DEF Locals
  <2> QED BY <1>0, <1>2, <2>2, StageTold
<1>3. ASSUME t \in Dispatchers PROVE Told(proc'[t])
  <2>1. CASE LogsIn(t)
    BY <1>0, <1>1, <1>3, <2>1, EndsTold DEF LogsIn, RouterPcs
  <2>2. CASE Prepares(t)
    BY <1>1, <1>2, <1>3, <2>2 DEF Prepares, RouterPcs
  <2>3. CASE Applies(t)
    BY <1>2, <1>3, <2>3 DEF Applies
  <2>4. CASE LogsOut(t)
    BY <1>0, <1>3, <2>4, EndsTold DEF LogsOut
  <2> QED BY <2>1, <2>2, <2>3, <2>4 DEF Router
<1> QED BY <1>0, <1>3, RouterOthers, TaskOnce

(* What an edit of the list must leave to a dispatch under way: its locals *)
(* but for what it owes, and a list where nothing handled lies ahead and   *)
(* everything owed does.                                                   *)
LEMMA EditTold ==
  ASSUME NEW CONSTANT l, NEW CONSTANT m, Told(l),
         m.pc = l.pc, m.idx = l.idx, m.hook = l.hook, m.done = l.done, m.ev = l.ev,
         m.due \subseteq l.due,
         l.pc # "idle" =>
           /\ \A id \in Seen(l) : id \notin unborn'
           /\ \A j \in DOMAIN hooks' : j > l.idx => hooks'[j].id \notin Seen(l)
           /\ \A id \in m.due \ Seen(l) : \E j \in DOMAIN hooks' :
                j > l.idx /\ hooks'[j].id = id /\ Matches(hooks'[j], l.ev)
  PROVE  Told(m)'
<1>1. CASE l.pc = "idle"
  BY <1>1 DEF Told
<1>2. CASE l.pc # "idle"
  <2>1. l.idx >= 1 /\ l.hook \notin l.done /\ Seen(m) = Seen(l)
    BY <1>2 DEF Told, Underway, Seen
  <2>2. Underway(m)'
    BY <1>2, <2>1 DEF Underway, Ahead, Seen
  <2> QED BY <1>2, <2>2 DEF Told
<1> QED BY <1>1, <1>2

(* A new hook comes last, with an id that nobody has met. *)
LEMMA CreateOnce ==
  ASSUME TypeInv, OnceInv, NEW new \in HookIds, CreateHook(new)
  PROVE  OnceInv'
<1>1. PICK input \in Inputs : hooks' = Append(hooks, HookOf(new, input))
  BY DEF CreateHook
<1>2. /\ hooks \in Seq(Hook) /\ DOMAIN hooks = 1..Len(hooks) /\ Len(hooks) \in Nat
      /\ new \in unborn /\ unborn' = unborn \ {new} /\ proc' = proc
  BY DEF TypeInv, TypeOK, CreateHook
<1> DEFINE n == Len(hooks) + 1
<1>3. /\ DOMAIN hooks' = 1..n /\ hooks'[n].id = new
      /\ \A j \in DOMAIN hooks : j \in DOMAIN hooks' /\ hooks'[j] = hooks[j]
      /\ \A j \in DOMAIN hooks' : j # n => j \in DOMAIN hooks
  <2>1. HookOf(new, input) \in Hook /\ HookOf(new, input).id = new
    BY HookOfType DEF HookOf
  <2> QED BY <1>1, <1>2, <2>1
<1> HIDE DEF n
<1>4. \A j \in DOMAIN hooks : hooks[j].id # new
  BY <1>2 DEF OnceInv, Unlisted
<1>5. Unique'
  <2> SUFFICES ASSUME NEW i \in DOMAIN hooks', NEW j \in DOMAIN hooks',
                      hooks'[i].id = hooks'[j].id
               PROVE  i = j
    BY DEF Unique
  <2>1. CASE i = n \/ j = n
    BY <1>3, <1>4, <2>1
  <2>2. CASE i # n /\ j # n
    BY <1>3, <2>2 DEF OnceInv, Unique
  <2> QED BY <2>1, <2>2
<1>6. Unlisted'
  <2> SUFFICES ASSUME NEW i \in DOMAIN hooks' PROVE hooks'[i].id \notin unborn'
    BY DEF Unlisted
  <2>1. CASE i = n
    BY <1>2, <1>3, <2>1
  <2>2. CASE i # n
    BY <1>2, <1>3, <2>2 DEF OnceInv, Unlisted
  <2> QED BY <2>1, <2>2
<1>7. ASSUME NEW t \in Dispatchers PROVE Told(proc[t])'
  <2>0. PICK l : l = proc[t]
    OBVIOUS
  <2>1. Told(l) /\ proc'[t] = l
    BY <1>2, <2>0 DEF OnceInv
  <2>2. ASSUME l.pc # "idle"
        PROVE  /\ \A id \in Seen(l) : id \notin unborn'
               /\ \A j \in DOMAIN hooks' : j > l.idx => hooks'[j].id \notin Seen(l)
               /\ \A id \in l.due \ Seen(l) : \E j \in DOMAIN hooks' :
                    j > l.idx /\ hooks'[j].id = id /\ Matches(hooks'[j], l.ev)
    <3>1. Underway(l)
      BY <2>1, <2>2 DEF Told
    <3>2. \A id \in Seen(l) : id \notin unborn' /\ id # new
      BY <1>2, <3>1 DEF Underway
    <3>3. ASSUME NEW j \in DOMAIN hooks', j > l.idx PROVE hooks'[j].id \notin Seen(l)
      <4>1. CASE j = n
        BY <1>3, <3>2, <4>1
      <4>2. CASE j # n
        BY <1>3, <3>1, <3>3, <4>2 DEF Underway, Ahead
      <4> QED BY <4>1, <4>2
    <3>4. ASSUME NEW id \in l.due \ Seen(l)
          PROVE  \E j \in DOMAIN hooks' :
                   j > l.idx /\ hooks'[j].id = id /\ Matches(hooks'[j], l.ev)
      <4>1. PICK j \in Ahead(l) : hooks[j].id = id /\ Matches(hooks[j], l.ev)
        BY <3>1 DEF Underway
      <4> QED BY <1>3, <4>1 DEF Ahead
    <3> QED BY <3>2, <3>3, <3>4
  <2>3. Told(l)'
    BY <2>1, <2>2, EditTold
  <2> QED BY <2>1, <2>3 DEF Told, Underway, Seen, Ahead
<1> QED BY <1>5, <1>6, <1>7 DEF OnceInv

(* What the routes leave of the locals. *)
LEMMA ForgivesLocals ==
  ASSUME TypeInv, NEW waived, Forgives(waived), NEW t \in Tasks,
         NEW l, l = proc[t], NEW m, m = proc'[t]
  PROVE  /\ m.pc = l.pc /\ m.idx = l.idx /\ m.hook = l.hook /\ m.done = l.done
         /\ m.ev = l.ev /\ m.due = l.due \ waived[t]
<1>1. l \in Locals /\ m = [l EXCEPT !.due = @ \ waived[t]]
  BY ForgivesTypes DEF TypeInv, TypeOK
<1> QED BY <1>1 DEF Locals

(* A replacement keeps id and place; whatever it changes, its hook is owed *)
(* nothing any more.                                                       *)
LEMMA UpdateOnce ==
  ASSUME TypeInv, OnceInv, NEW i \in DOMAIN hooks, UpdateHook(i)
  PROVE  OnceInv'
<1>1. PICK input \in Inputs : hooks' = [hooks EXCEPT ![i] = HookOf(hooks[i].id, input)]
  BY DEF UpdateHook, KeptId
<1>2. hooks \in Seq(Hook) /\ unborn' = unborn
  BY DEF TypeInv, TypeOK, UpdateHook
<1>3. /\ DOMAIN hooks' = DOMAIN hooks
      /\ \A j \in DOMAIN hooks : hooks'[j].id = hooks[j].id
      /\ \A j \in DOMAIN hooks : j # i => hooks'[j] = hooks[j]
  BY <1>1, <1>2 DEF HookOf
<1>4. Unique'
  BY <1>3 DEF OnceInv, Unique
<1>5. Unlisted'
  BY <1>2, <1>3 DEF OnceInv, Unlisted
<1>6. ASSUME NEW t \in Dispatchers PROVE Told(proc[t])'
  <2>0. PICK l, m : l = proc[t] /\ m = proc'[t]
    OBVIOUS
  <2>1. t \in Tasks /\ Told(l)
    BY <2>0 DEF OnceInv, Tasks
  <2>2. /\ m.pc = l.pc /\ m.idx = l.idx /\ m.hook = l.hook /\ m.done = l.done
        /\ m.ev = l.ev /\ m.due = l.due \ {hooks[i].id}
    BY <2>0, <2>1, ForgivesLocals DEF UpdateHook
  <2>3. ASSUME l.pc # "idle"
        PROVE  /\ \A id \in Seen(l) : id \notin unborn'
               /\ \A j \in DOMAIN hooks' : j > l.idx => hooks'[j].id \notin Seen(l)
               /\ \A id \in m.due \ Seen(l) : \E j \in DOMAIN hooks' :
                    j > l.idx /\ hooks'[j].id = id /\ Matches(hooks'[j], l.ev)
    <3>1. Underway(l)
      BY <2>1, <2>3 DEF Told
    <3>2. ASSUME NEW id \in m.due \ Seen(l)
          PROVE  \E j \in DOMAIN hooks' :
                   j > l.idx /\ hooks'[j].id = id /\ Matches(hooks'[j], l.ev)
      <4>1. PICK j \in Ahead(l) : hooks[j].id = id /\ Matches(hooks[j], l.ev)
        BY <2>2, <3>1 DEF Underway
      <4>2. j # i
        BY <2>2, <4>1
      <4> QED BY <1>3, <4>1, <4>2 DEF Ahead
    <3> QED BY <1>2, <1>3, <3>1, <3>2 DEF Underway, Ahead
  <2>4. Told(m)'
    BY <2>1, <2>2, <2>3, EditTold
  <2> QED BY <2>0, <2>4 DEF Told, Underway, Seen, Ahead
<1> QED BY <1>4, <1>5, <1>6 DEF OnceInv

(* A deletion moves what follows one place down: a dispatch that is past   *)
(* the deleted hook skips the next one, and nothing else.                  *)
LEMMA DeleteOnce ==
  ASSUME TypeInv, OnceInv, NEW i \in DOMAIN hooks, DeleteHook(i)
  PROVE  OnceInv'
<1>1. hooks' = RemoveAt(hooks, i) /\ unborn' = unborn /\ hooks \in Seq(Hook)
  BY DEF DeleteHook, TypeInv, TypeOK
<1> DEFINE n == Len(hooks)
           Was(j) == IF j < i THEN j ELSE j + 1
<1>2. DOMAIN hooks = 1..n /\ n \in Nat /\ i \in 1..n
  BY <1>1
<1>3. /\ DOMAIN hooks' = 1..(n - 1)
      /\ \A j \in DOMAIN hooks' : hooks'[j] = IF j < i THEN hooks[j] ELSE hooks[j + 1]
  <2>1. /\ hooks' \in Seq(Hook) /\ Len(hooks') = n - 1
        /\ \A j \in DOMAIN hooks' : hooks'[j] = IF j < i THEN hooks[j] ELSE hooks[j + 1]
    BY <1>1, Removed, Zenon
  <2>2. DOMAIN hooks' = 1..(n - 1)
    BY <2>1
  <2> QED BY <2>1, <2>2
<1> HIDE DEF n
<1>4. \A j \in DOMAIN hooks' :
        Was(j) \in DOMAIN hooks /\ Was(j) # i /\ Was(j) >= j /\ hooks'[j] = hooks[Was(j)]
  BY <1>2, <1>3
<1>5. \A j, k \in DOMAIN hooks' : Was(j) = Was(k) => j = k
  BY <1>2, <1>3
<1>6. \A k \in DOMAIN hooks : k # i =>
        \E j \in DOMAIN hooks' : Was(j) = k /\ j >= k - 1 /\ (k < i => j = k)
  <2> SUFFICES ASSUME NEW k \in DOMAIN hooks, k # i
               PROVE  \E j \in DOMAIN hooks' : Was(j) = k /\ j >= k - 1 /\ (k < i => j = k)
    OBVIOUS
  <2>1. CASE k < i
    <3>1. k \in DOMAIN hooks' /\ Was(k) = k /\ k >= k - 1
      BY <1>2, <1>3, <2>1
    <3> QED BY <3>1
  <2>2. CASE k > i
    <3>1. k - 1 \in DOMAIN hooks' /\ Was(k - 1) = k /\ k - 1 >= k - 1 /\ ~(k < i)
      BY <1>2, <1>3, <2>2
    <3> QED BY <3>1
  <2> QED BY <1>2, <2>1, <2>2
<1>7. Unique'
  BY <1>4, <1>5 DEF OnceInv, Unique
<1>8. Unlisted'
  BY <1>1, <1>4 DEF OnceInv, Unlisted
<1>9. ASSUME NEW t \in Dispatchers PROVE Told(proc[t])'
  <2>0. PICK l, m : l = proc[t] /\ m = proc'[t]
    OBVIOUS
  <2>1. t \in Tasks /\ Told(l) /\ l.idx \in Nat
    BY <2>0 DEF OnceInv, Tasks, TypeInv, TypeOK, Locals
  <2>2. /\ m.pc = l.pc /\ m.idx = l.idx /\ m.hook = l.hook /\ m.done = l.done
        /\ m.ev = l.ev /\ m.due = l.due \ ({hooks[i].id} \cup Skipped(t, i))
    BY <2>0, <2>1, ForgivesLocals DEF DeleteHook
  <2>3. ASSUME l.pc # "idle"
        PROVE  /\ \A id \in Seen(l) : id \notin unborn'
               /\ \A j \in DOMAIN hooks' : j > l.idx => hooks'[j].id \notin Seen(l)
               /\ \A id \in m.due \ Seen(l) : \E j \in DOMAIN hooks' :
                    j > l.idx /\ hooks'[j].id = id /\ Matches(hooks'[j], l.ev)
    <3>1. Underway(l)
      BY <2>1, <2>3 DEF Told
    <3>2. ASSUME NEW j \in DOMAIN hooks', j > l.idx PROVE hooks'[j].id \notin Seen(l)
      <4>1. Was(j) \in Ahead(l)
        BY <1>2, <1>3, <1>4, <2>1, <3>2 DEF Ahead
      <4> QED BY <1>4, <3>1, <4>1 DEF Underway
    <3>3. ASSUME NEW id \in m.due \ Seen(l)
          PROVE  \E j \in DOMAIN hooks' :
                   j > l.idx /\ hooks'[j].id = id /\ Matches(hooks'[j], l.ev)
      <4>1. PICK k \in Ahead(l) : hooks[k].id = id /\ Matches(hooks[k], l.ev)
        BY <2>2, <3>1, <3>3 DEF Underway
      <4>2. k \in DOMAIN hooks /\ k > l.idx /\ k # i
        BY <2>2, <4>1 DEF Ahead
      <4>3. i <= l.idx => k # l.idx + 1
        BY <2>0, <2>2, <4>1, <4>2 DEF Skipped
      <4>4. PICK j \in DOMAIN hooks' : Was(j) = k /\ j >= k - 1 /\ (k < i => j = k)
        BY <1>6, <4>2
      <4>5. j > l.idx
        BY <1>2, <1>3, <2>1, <4>2, <4>3, <4>4
      <4>6. hooks'[j] = hooks[k]
        BY <1>4, <4>4
      <4> QED BY <4>1, <4>5, <4>6
    <3> QED BY <1>1, <3>1, <3>2, <3>3 DEF Underway
  <2>4. Told(m)'
    BY <2>1, <2>2, <2>3, EditTold
  <2> QED BY <2>0, <2>4 DEF Told, Underway, Seen, Ahead
<1> QED BY <1>7, <1>8, <1>9 DEF OnceInv

LEMMA StepOnce ==
  ASSUME TypeInv, OnceInv, [Next]_vars
  PROVE  OnceInv'
<1>1. ASSUME UNCHANGED <<proc, hooks, unborn>> PROVE OnceInv'
  BY <1>1 DEF OnceInv, Unique, Unlisted, Told, Underway, Ahead, Seen
<1>2. CASE SessionExpires \/ UNCHANGED vars
  BY <1>1, <1>2 DEF SessionExpires, vars
<1>3. ASSUME NEW p \in Passes, NEW a \in Addresses, Announces(p, a) PROVE OnceInv'
  <2>1. p \in Tasks /\ "ip" \in Events
    BY DEF Tasks, Dispatchers, Events
  <2> QED BY <1>3, <2>1, DispatchOthers, DispatchTold, TaskOnce DEF Announces
<1>4. ASSUME NEW t \in Dispatchers, Tells(t) PROVE OnceInv'
  <2>1. t \in Tasks /\ "other" \in Events
    BY DEF Tasks, Events
  <2> QED BY <1>4, <2>1, DispatchOthers, DispatchTold, TaskOnce DEF Tells
<1>5. ASSUME NEW m \in Manuals, NEW i \in DOMAIN hooks, RunNow(m, i) PROVE OnceInv'
  <2>1. m \in Tasks /\ m \notin Dispatchers /\ proc \in [Tasks -> Locals]
    BY HooksAssumption DEF Tasks, TypeInv, TypeOK
  <2>2. \A u \in Tasks \ {m} : Stays(u)
    BY <1>5, <2>1 DEF RunNow, Stays
  <2> QED BY <1>5, <2>1, <2>2, TaskOnce DEF RunNow
<1>6. ASSUME NEW t \in Tasks, Notified(t) PROVE OnceInv'
  <2>1. PICK ok \in BOOLEAN : Ends(t, ok)
    BY <1>6 DEF Notified
  <2>2. proc[t].pc # "idle"
    BY <1>6 DEF Notified
  <2> QED BY <1>6, <2>1, <2>2, EndsOthers, EndsTold, TaskOnce DEF Notified
<1> QED BY <1>2, <1>3, <1>4, <1>5, <1>6, RouterOnce, CreateOnce, UpdateOnce, DeleteOnce
        DEF Next

(* However the list is edited under a dispatch and whichever hooks raise,  *)
(* no hook hears of an event twice, and only the one that comes next when  *)
(* an earlier one is deleted can miss it (services/dispatch.py:21-33).     *)
THEOREM HooksHearOnce == Spec => []EachHookOnce
<1>1. Init => OnceInv
  <2> SUFFICES ASSUME Init PROVE OnceInv
    OBVIOUS
  <2>1. Unique
    BY HooksAssumption DEF Init, Unique
  <2>2. \A i \in DOMAIN hooks : hooks[i] \in ToSet(InitialHooks)
    BY DEF Init, ToSet
  <2>3. Unlisted
    BY <2>2 DEF Init, Unlisted
  <2>4. \A t \in Dispatchers : Told(proc[t])
    BY DEF Init, Told, Fresh, Tasks
  <2> QED BY <2>1, <2>3, <2>4 DEF OnceInv
<1>2. OnceInv => EachHookOnce
  BY InvOnce
<1> QED BY <1>1, <1>2, StepOnce, TypeInvariant, PTL DEF Spec
=============================================================================
