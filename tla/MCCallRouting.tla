--------------------------- MODULE MCCallRouting ----------------------------
(* A small instance of CallRouting. *)
EXTENDS CallRouting, TLC

CONSTANTS n, h, k, u, v, s, t, d, e, link, c1, c2, g

MCNode    == {n}
MCHub     == {h, k}
MCUser    == {u, v}
MCShare   == {s, t}
MCPath    == {d, e, link}
MCReal    == [p \in MCPath |-> IF p = link THEN e ELSE p]
MCCall    == {c1, c2}
MCGroups  == [x \in MCUser |-> IF x = u THEN {g} ELSE {}]
MCOwner   == [x \in MCNode |-> u]

NoRules   == [default |-> "none", sub |-> <<>>, group |-> <<>>]
On(path)  == [path |-> path, permissions |-> NoRules]
NodeConfigs == {s :> On(d) @@ t :> On(link), t :> On(d)}

Blob(default, sub, group) == [default |-> default, sub |-> sub, group |-> group]
HubConfigs ==
  LET open   == [path |-> link, permissions |-> Blob("read-only", <<>>, g :> "read-write")]
      closed == [path |-> d, permissions |-> Blob("none", <<>>, g :> "read-write")]
      other  == [path |-> d, permissions |-> Blob("read-write", u :> "read-only", <<>>)]
  IN {s :> open @@ t :> other, s :> open @@ t :> closed}

\* A second hub that offers s to everybody.
Second == {s :> [path |-> d, permissions |-> Blob("read-write", <<>>, <<>>)]}

MCConfigs == [x \in MCNode \cup MCHub |-> CASE x = n -> NodeConfigs [] x = h -> HubConfigs
                                              [] x = k -> Second]

MCFilters == {[user |-> u, scope |-> AnyHost, path |-> e], [user |-> u, scope |-> n, path |-> d]}

Asks(user, tool, share, dst, host) ==
  [user |-> user, tool |-> tool, share |-> share, dst |-> dst, host |-> host]
MCRequests == [c \in MCCall |->
  IF c = c1
  THEN {Asks(u, "copy", s, t, AnyHost), Asks(u, "copy", s, t, h)}
  ELSE {Asks(v, "read_file", s, NoShare, AnyHost), Asks(v, "write_file", t, NoShare, AnyHost)}]

=============================================================================
