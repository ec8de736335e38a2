--------------------------- MODULE SelectionCheck ---------------------------
(* best_for and best_by_priority against the iterator loop they are written  *)
(* as, on every pool the callers of Pool bring about.                        *)
EXTENDS PoolRefines

(* Iterator::min_by: the running minimum gives way only to a smaller one;    *)
(* best[n] is its index after the first n entries, 0 before there is one.    *)
MinBy(pool, eligible) ==
  LET best[n \in 0..Len(pool)] ==
        IF n = 0 THEN 0
        ELSE IF n \in eligible /\ (best[n - 1] = 0 \/ Before(pool[n], pool[best[n - 1]]))
             THEN n ELSE best[n - 1]
  IN  best[Len(pool)]

(* However callers reorder and bench the vector, and however old the pin,    *)
(* the cursor and the clock a caller chooses by, best_by_priority finds what *)
(* the min_by loop finds (the first index on a full tie), a cursor picks one *)
(* index, and a proxy that is benched now is chosen only if none was ready   *)
(* when the caller looked at the clock.                                      *)
SelectsBest ==
  \A c \in Callers : Here(c, "select") \/ Here(c, "last") =>
    LET eligible == Eligible(state, req[c].scheme)
        tier     == Tier(state, req[c].scheme, ctx[c].now)
    IN  eligible # {} =>
          /\ BestByPriority(state, tier) = {MinBy(state, tier)}
          /\ \A cursor \in 0..Len(state) :
               Cardinality(Nth(ConnectBiased(state, tier), cursor)) = 1
          /\ \A i \in BestFor(state, req[c].scheme, ctx[c]) :
               Ready(state[i], clock) \/ \A j \in eligible : ~Ready(state[j], ctx[c].now)

=============================================================================
