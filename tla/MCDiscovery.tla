----------------------------- MODULE MCDiscovery -----------------------------
(***************************************************************************)
(* Discovery for TLC, in four worlds: one cluster that changes once, from  *)
(* and to every description that differs from a plain one in at most two   *)
(* of its four respects; two clusters that come and go with a fault on the *)
(* way; two clusters that share a user, s, and of which one has a user     *)
(* that is called as the replica pool of a user of the other; and a        *)
(* cluster whose handler is retired.                                       *)
(***************************************************************************)
EXTENDS Discovery

Nodes == {"n", "m"}
Maps(names, S) == UNION {[N -> S] : N \in SUBSET names}

Plain(primary, user, password) ==
  [primary |-> primary, replicas |-> [x \in {} |-> Absent], databases |-> {"d"},
   users |-> user :> password]

Sharing(node, names, password) ==
  [primary |-> node, replicas |-> "r" :> node, databases |-> {"d"},
   users |-> [u \in names |-> password]]

Varied ==
  LET all == [primary : Nodes, replicas : Maps({"r"}, Nodes) \cup [{"q", "r"} -> Nodes],
              databases : SUBSET {"d", "e"} \ {{}},
              users : Maps({"u"}, {"pw", "pv"}) \cup [{"u", "w"} -> {"pw"}]]
      base == Plain("n", "u", "pw")
  IN  {c \in all : Cardinality({f \in DOMAIN c : c[f] # base[f]}) <= 2}

MCWorlds ==
  [one |-> [changes |-> 1, faults |-> 0, retires |-> FALSE,
            described |-> [i \in Ids |-> IF i = "a" THEN Varied ELSE {}]],
   more |-> [changes |-> 3, faults |-> 1, retires |-> FALSE,
             described |-> [i \in Ids |->
                              IF i = "a" THEN {Plain("n", "u", "pw"), Plain("n", "u", "pv")}
                              ELSE {Plain("m", "v", "pw")}]],
   shared |-> [changes |-> 2, faults |-> 0, retires |-> FALSE,
               described |-> [i \in Ids |->
                                IF i = "a" THEN {Sharing("n", {"u", "s"}, "pw"), Sharing("n", {"u"}, "pw")}
                                ELSE {Sharing("m", {"u_ro", "s", "v"}, "pv"),
                                      Sharing("k", {"s", "v"}, "pv")}]],
   last |-> [changes |-> 1, faults |-> 0, retires |-> TRUE,
             described |-> [i \in Ids |->
                              IF i = "a" THEN {Plain("n", "u", "pw")} ELSE {}]]]
=============================================================================
