------------------------------- MODULE MCHooks -------------------------------
(* An instance of Hooks for TLC: the router hook between two that notify,  *)
(* room for one more, and one task of each kind.  Hooks are switched on or *)
(* off, and turned into one another.                                       *)
EXTENDS Hooks

CONSTANTS h1, h2, h3, h4, a1, a2, sync, reach, now

Pushover == [plugin |-> "pushover", enabled |-> TRUE, events |-> {"other"}]
RouterOn == [plugin |-> "router", enabled |-> TRUE, events |-> {"ip"}]
RouterOff == [plugin |-> "router", enabled |-> FALSE, events |-> {"ip"}]

MCHooksAtStart ==
  <<HookOf(h1, Pushover), HookOf(h2, RouterOn), HookOf(h3, Pushover)>>

MCInputs == {Pushover, RouterOn, RouterOff}

Symmetry == Permutations(Addresses)
=============================================================================
