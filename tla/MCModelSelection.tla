--------------------------- MODULE MCModelSelection ---------------------------
(***************************************************************************)
(* Two models that share one of their efforts, and the listings Codex may  *)
(* answer with: complete in two pages, or without the second model and     *)
(* with the first one's efforts changed, with a cursor that comes back at  *)
(* once or later, with a model named twice, and with a default its model   *)
(* does not support.  The configured pair is one no catalogue offers.      *)
(***************************************************************************)
EXTENDS ModelSelection

CONSTANTS m1, m2, low, mid, high, k1, k2

First == [model |-> m1, efforts |-> {low, mid}, default |-> low]
Changed == [model |-> m1, efforts |-> {mid, high}, default |-> mid]
Second == [model |-> m2, efforts |-> {mid, high}, default |-> high]
Wrong == [model |-> m2, efforts |-> {mid, high}, default |-> low]

NewPair == {[model |-> m2, effort |-> low]}

To(entry, cursor) == [data |-> entry, next |-> cursor]
Pages(p, q, r) == [k \in {None, k1, k2} |->
                      CASE k = None -> p [] k = k1 -> q [] k = k2 -> r]
SomeListings == {
    Pages(To(First, k1), To(Second, None), To(Second, None)),
    Pages(To(Changed, None), To(Second, None), To(Second, None)),
    Pages(To(First, k1), To(Second, k1), To(Second, None)),
    Pages(To(First, k1), To(Second, k2), To(Second, k1)),
    Pages(To(First, k1), To(First, None), To(Second, None)),
    Pages(To(First, k1), To(Wrong, None), To(Second, None))}
=============================================================================
