--------------------------------- MODULE Policy ---------------------------------
(***************************************************************************)
(* dar/model.py and dar/policy.py: the authority state and the transition a  *)
(* capability may carry.  Permissions missing from the code's dictionaries   *)
(* are empty sets here, as SystemState.perms reads them; a domain without a   *)
(* governance rule has None.  The closure of a principal is left out: it only *)
(* decides which of two errors a governance change raises (policy.py:27-29).  *)
(***************************************************************************)
EXTENDS Naturals

CONSTANTS
  Principals,        \* who may hold permissions
  Domains,           \* where
  Actions,           \* READ, WRITE, ...
  Governances,       \* the governance tables that occur: [Domains -> Rule or None]
  None               \* "no entry"

Pairs == Principals \X Domains
Permissions == [Pairs -> SUBSET Actions]

ChangedPairs(a, b) == {x \in Pairs : a.perms[x] # b.perms[x]}

\* has_cycle: some governed domains each have a subordinate among themselves.
HasCycle(gov) ==
  \E S \in (SUBSET {d \in Domains : gov[d] # None}) \ {{}} :
    \A d \in S : gov[d].subordinates \cap S # {}

\* No permission is added.
Anything(current, proposed) == TRUE
Attenuates(current, proposed) ==
  \A x \in Pairs : proposed.perms[x] \subseteq current.perms[x]

\* A principal gives up permissions of its own only.
Anyone(current, proposed, principal) == TRUE
OwnOnly(current, proposed, principal) ==
  \A x \in ChangedPairs(current, proposed) : x[1] = principal

\* validate_transition: the transitions it lets pass.  Without any change (mutation
\* class NONE) it returns before it looks for cycles.
ValidTransition(current, proposed, principal) ==
  /\ proposed.epoch = current.epoch + 1
  /\ proposed.gov = current.gov
  /\ \/ proposed.perms = current.perms
     \/ /\ Attenuates(current, proposed)
        /\ ~HasCycle(proposed.gov)
        /\ OwnOnly(current, proposed, principal)
=============================================================================
