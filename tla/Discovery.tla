----------------------------- MODULE Discovery -----------------------------
(***************************************************************************)
(* The daemon's table of devices nearby (discovery/mod.rs): one thread     *)
(* handles the events of the mDNS library in order, throttles resolves and *)
(* keeps at most MaxDiscovered devices.                                    *)
(***************************************************************************)
EXTENDS RateLimiter, Sequences

CONSTANTS
  Adverts,       \* device ids advertised on the network
  Self,          \* this daemon's own device id
  Addrs,
  NoAddr,        \* not advertised, or not in the table
  Unnamed,       \* a record without a device id
  MaxDiscovered, \* 256, of devices and of the limiter's keys
  Resolves,      \* RESOLVES_PER_DEVICE (10)
  ResolveWindow, \* RESOLVE_WINDOW (10 s), in ticks
  MaxMdns,       \* bound of the model: events that wait at once
  NearbyBudgets  \* bounds of the model: a record of budgets

ASSUME DiscoveryAssumption ==
  /\ Self \in Adverts /\ Addrs # {} /\ NoAddr \notin Addrs /\ Unnamed \notin Adverts
  /\ MaxMdns \in Nat /\ MaxDiscovered \in Nat \ {0} /\ Resolves \in Nat \ {0} /\ ResolveWindow \in Nat \ {0}

VARIABLES
  world,      \* [Adverts -> the address advertised, or NoAddr]
  mdns,       \* events of the library that wait for the browser thread
  table,      \* DiscoveryTable: device id -> address
  resolves,   \* the limiter's windows
  clock,      \* ticks
  nearbyLeft, \* budgets
  recent,     \* ghost: [Adverts -> when its resolves were handled]
  skipped     \* ghost: ids whose last event the cap or a flood excuses

nearbyVars == <<world, mdns, table, resolves, clock, nearbyLeft, recent, skipped>>

ResolveLimiter == Limiter(Resolves, ResolveWindow, MaxDiscovered)

\* A daemon registers itself before it browses.
NearbyInit ==
  /\ world = [d \in Adverts |-> IF d = Self THEN CHOOSE a \in Addrs : TRUE ELSE NoAddr]
  /\ mdns = <<[id |-> Self, addr |-> world[Self]]>>
  /\ table = EmptyMap /\ resolves = EmptyMap
  /\ clock = 0
  /\ nearbyLeft \in NearbyBudgets
  /\ recent = [d \in Adverts |-> <<>>]
  /\ skipped = {}

NearbySpend(what) ==
  /\ nearbyLeft[what] > 0
  /\ nearbyLeft' = [nearbyLeft EXCEPT ![what] = @ - 1]

-----------------------------------------------------------------------------
(* The network, through the library. *)

\* A device appears, moves to another address or is resolved once more.
Advertise(d, a) ==
  /\ d # Self /\ Len(mdns) < MaxMdns
  /\ NearbySpend("resolves")
  /\ world' = [world EXCEPT ![d] = a]
  /\ mdns' = Append(mdns, [id |-> d, addr |-> a])
  /\ UNCHANGED <<table, resolves, clock, recent, skipped>>

\* It says goodbye, or its records expire.
Withdraw(d) ==
  /\ world[d] # NoAddr /\ d # Self /\ Len(mdns) < MaxMdns
  /\ NearbySpend("removals")
  /\ world' = [world EXCEPT ![d] = NoAddr]
  /\ mdns' = Append(mdns, [id |-> d, addr |-> NoAddr])
  /\ UNCHANGED <<table, resolves, clock, recent, skipped>>

AdvertiseUnnamed ==
  /\ NearbySpend("unnamed")
  /\ \E a \in Addrs : mdns' = Append(mdns, [id |-> Unnamed, addr |-> a])
  /\ UNCHANGED <<world, table, resolves, clock, recent, skipped>>

Pass ==
  /\ NearbySpend("ticks")
  /\ clock' = clock + 1
  /\ UNCHANGED <<world, mdns, table, resolves, recent, skipped>>

-----------------------------------------------------------------------------
(* The browser thread. *)

\* DiscoveryTable::insert: the cap turns away newcomers only.
CrowdedOut(d) == d \notin DOMAIN table /\ Cardinality(DOMAIN table) >= MaxDiscovered

\* More resolves than allowed, within any window that ends now.
Flooding(d) ==
  Cardinality({n \in DOMAIN recent[d] : clock - recent[d][n] < ResolveWindow}) >= Resolves

Next1 == Head(mdns)

\* A record without an id, or of this daemon itself.
Ignore ==
  /\ mdns # <<>> /\ mdns' = Tail(mdns)
  /\ Next1.addr # NoAddr /\ Next1.id \in {Unnamed, Self}
  /\ UNCHANGED <<world, table, resolves, clock, nearbyLeft, recent, skipped>>

Resolved ==
  /\ mdns # <<>> /\ mdns' = Tail(mdns)
  /\ Next1.addr # NoAddr /\ Next1.id \notin {Unnamed, Self}
  /\ LET d == Next1.id
     IN /\ IF Exhausted(ResolveLimiter, resolves, d, clock)
           THEN UNCHANGED <<table, resolves>>
           ELSE /\ resolves' = Counted(ResolveLimiter, resolves, d, clock)
                /\ table' = IF CrowdedOut(d) THEN table ELSE Put(table, d, Next1.addr)
        /\ recent' = [recent EXCEPT ![d] = Append(@, clock)]
        /\ skipped' = IF Flooding(d) \/ CrowdedOut(d) THEN skipped \cup {d} ELSE skipped \ {d}
  /\ UNCHANGED <<world, clock, nearbyLeft>>

\* remove_by_fullname_prefix: the first label of the name is the id.
Removed ==
  /\ mdns # <<>> /\ mdns' = Tail(mdns)
  /\ Next1.addr = NoAddr
  /\ table' = Drop(table, Next1.id)
  /\ skipped' = skipped \ {Next1.id}
  /\ UNCHANGED <<world, resolves, clock, nearbyLeft, recent>>

NearbyNext ==
  \/ \E d \in Adverts : (\E a \in Addrs : Advertise(d, a)) \/ Withdraw(d)
  \/ AdvertiseUnnamed \/ Pass \/ Ignore \/ Resolved \/ Removed

NearbySpec == NearbyInit /\ [][NearbyNext]_nearbyVars

-----------------------------------------------------------------------------
(* Properties. *)

Nearby(d) == IF d \in DOMAIN table THEN table[d] ELSE NoAddr

\* Once its events are handled, every device that did not exceed the rate, and
\* was not turned away by a full table, is listed at its current address, or
\* not at all when it has gone; this daemon never lists itself.  In particular
\* no other device's flood, and no pruning of the limiter, can hide it.
NearbyAgrees ==
  /\ Self \notin DOMAIN table
  /\ \A d \in Adverts \ (skipped \cup {Self}) :
       ~(\E n \in DOMAIN mdns : mdns[n].id = d) => Nearby(d) = world[d]
=============================================================================
