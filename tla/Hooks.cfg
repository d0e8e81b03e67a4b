\* Three hooks, a fourth that may come, a sync pass, a check and a manual run.
CONSTANTS
  h1 = h1
  h2 = h2
  h3 = h3
  h4 = h4
  a1 = a1
  a2 = a2
  sync = sync
  reach = reach
  now = now
  None = None
  Lost = Lost
  HookIds = {h1, h2, h3, h4}
  Addresses = {a1, a2}
  InitialHooks <- MCHooksAtStart
  Inputs <- MCInputs
  Passes = {sync}
  Checks = {reach}
  Manuals = {now}
  MaxEvents = 3
  MaxEdits = 2
  MaxFails = 1

\* Once the events of the instance have come nothing is left to do.
CHECK_DEADLOCK FALSE
SYMMETRY Symmetry
SPECIFICATION Spec
INVARIANT TypeOK
INVARIANT EachHookOnce
INVARIANT SessionReleased
INVARIANT RuleFollows
