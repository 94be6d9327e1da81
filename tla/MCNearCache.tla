---------------------------- MODULE MCNearCache ----------------------------
(* Instances of NearCache for TLC: which strategies with which operations *)
(* and which perturbations a run looks at.                                 *)
EXTENDS NearCache, TLC

Mode(K, t, o, u) == [keys |-> K, target |-> t, ops |-> o, usage |-> u]

(* Each strategy with what it is sound for, and all that may happen at once, *)
(* on one key.                                                               *)
Single == UNION {{
    Mode({k}, "present", {"get", "containsKey", "put", "remove", "clear"},
                         {"load", "expire", "fail"}),
    Mode({k}, "auto",    {"get", "put", "remove", "clear"}, {"load", "fail"}),
    Mode({k}, "all",     {"get", "put", "remove", "getAll"}, {"load", "expire"}),
    Mode({k}, "auto",    {"getAll", "clear"}, {"refresh", "reset", "expire"})} : k \in Keys}

(* Two keys for a front map of one entry. *)
Bulk  == {Mode(Keys, "present", {"get", "putAll"}, {"expire"})}

Every == Single \cup Bulk

(* Where the code falls short. *)
GetAlls == {Mode(Keys, "present", {"get", "getAll"}, {})}
Expires == {Mode(Keys, "auto", {"get", "put"}, {"expire"})}

Symmetry == Permutations(Clients) \cup Permutations(Keys)
=============================================================================
