---------------------------- MODULE RateLimiter ----------------------------
(***************************************************************************)
(* The fixed-window limiter of the daemon (ratelimit.rs): a map from keys  *)
(* to [start, count], of a bounded number of keys.  It throttles mDNS      *)
(* resolves, accepted connections and PrepareUpload.                       *)
(***************************************************************************)
EXTENDS Integers, FiniteSets, HashMaps

\* RateLimiter::new.
Limiter(maxEvents, window, maxKeys) ==
  [events |-> maxEvents, window |-> window, keys |-> maxKeys]

Live(lim, w, now) == now - w.start < lim.window

\* prune_elapsed: if every window is still running they all go.
Pruned(lim, map, now) ==
  LET live == {k \in DOMAIN map : Live(lim, map[k], now)}
  IN IF live = DOMAIN map THEN EmptyMap ELSE Restrict(map, live)

Exhausted(lim, map, k, now) ==
  k \in DOMAIN map /\ Live(lim, map[k], now) /\ map[k].count >= lim.events

\* The map after an event of k: counted in its window, or the first of a new one.
CountedOnMut(lim, map, k, now) ==
  IF k \in DOMAIN map
  THEN Put(map, k, [start |-> IF Live(lim, map[k], now) THEN map[k].start ELSE now,
                    count |-> map[k].count + 1])
  ELSE Put(IF Cardinality(DOMAIN map) >= lim.keys THEN Pruned(lim, map, now) ELSE map,
           k, [start |-> now, count |-> 1])
Counted(lim, map, k, now) ==
  IF k \in DOMAIN map /\ Live(lim, map[k], now)
  THEN Put(map, k, [map[k] EXCEPT !.count = @ + 1])
  ELSE LET room == IF k \notin DOMAIN map /\ Cardinality(DOMAIN map) >= lim.keys
                   THEN Pruned(lim, map, now) ELSE map
       IN Put(room, k, [start |-> now, count |-> 1])
=============================================================================
