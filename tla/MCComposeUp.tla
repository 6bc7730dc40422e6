---------------------------- MODULE MCComposeUp ----------------------------
(* Instances of ComposeUp: every kind of deployment a command can find. *)
EXTENDS ComposeUp, TLC

CONSTANTS c1, c2, c3

\* The same commands under other names behave alike.
CommandSymmetry == Permutations(Commands)

\* Nothing, a deployment of this version, or one that has a mode only.
AnyDeployed ==
  {none} \cup {[recipe |-> r, mode |-> ModeOf(r)] : r \in Recipes}
         \cup {[recipe |-> "unspecified", mode |-> m] : m \in Modes}
=============================================================================
