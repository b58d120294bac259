--------------------------- MODULE MCSyncEventLog ---------------------------
(***************************************************************************)
(* One device pushes one order and events about it: o creates it, u        *)
(* updates it, i and j create the same item (two event ids, one domain     *)
(* row), k creates an item that names the order by its server id, s is a   *)
(* stock deduction, b is malformed and r of an entity the policy refuses.  *)
(***************************************************************************)
EXTENDS SyncEventLog, TLC

CONSTANTS o, u, i, j, k, s, b, r,
          order, item, linked, stock, other, d, h1, h2

MCDeviceOf == [e \in Events |-> d]
MCKindOf == [e \in Events |-> CASE e = o -> "order"
                               [] e = u -> "update"
                               [] e \in {i, j} -> "item"
                               [] e = k -> "linkedItem"
                               [] OTHER -> "other"]
MCEntityOf == [e \in Events |-> CASE e \in {o, u} -> order
                                 [] e \in {i, j} -> item
                                 [] e = k -> linked
                                 [] e = s -> stock
                                 [] OTHER -> other]
MCOrderOf == [e \in Events |-> order]

\* A run is about the order with its update and an item, or with two events for
\* one item, or about the other events and the item that names an order by its
\* server id.
Touched == {e \in Events : log[e].status # "absent" \/ conflict[e] # NoConflict}
           \cup ({tx[p].event : p \in Handlers} \ {None})
OneScenario == \E scenario \in {{o, u, i}, {o, i, j}, {k, s, b, r}} : Touched \subseteq scenario
MCNext == Next /\ OneScenario'
MCSpec == Init /\ [][MCNext]_serverVars

HandlerSymmetry == Permutations(Handlers)
=============================================================================
