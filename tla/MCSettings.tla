----------------------------- MODULE MCSettings -----------------------------
(* Instances of Settings for TLC.                                          *)
EXTENDS Settings, TLC

CONSTANTS c1, c2, s1, s2

MCKeys == {"targets", "curve"}
MCAmounts == {1, 2}
MCDefault == [targets |-> {}, curve |-> {1}]
MCStartStore == [targets |-> [value |-> {1}, display |-> FALSE]]

ReadRequest == [op |-> "read"]
Add(k, a) == [op |-> "add", key |-> k, amounts |-> a]
Remove(k, a) == [op |-> "remove", key |-> k, amount |-> a]
Post(k, row) == [op |-> "post", key |-> k, row |-> row]
Patch(k, set) == [op |-> "patch", key |-> k, set |-> set]
Del(k) == [op |-> "delete", key |-> k]

AllRequests ==
  {ReadRequest,
   Add("targets", {2}), Remove("targets", 1),
   Post("targets", [value |-> {2}, display |-> FALSE]),
   Post("curve", [value |-> {2}, display |-> TRUE]),
   Patch("targets", [value |-> {2}]),
   Patch("targets", [value |-> {}, display |-> FALSE]),
   Patch("targets", [display |-> TRUE]),
   Patch("curve", [value |-> {1, 2}, display |-> TRUE]),
   Del("targets"), Del("curve")}

\* Neither a client nor a server has a role of its own.
Symmetry == Permutations(Clients) \cup Permutations(Servers)
=============================================================================
