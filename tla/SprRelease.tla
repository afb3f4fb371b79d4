----------------------------- MODULE SprRelease -----------------------------
(***************************************************************************)
(* services/procurement/spr_engine.py: what run_optimization decides to    *)
(* draw from the strategic reserve, and the loop of _optimize_release_plan *)
(* that spreads it over the facilities.                                    *)
(*                                                                         *)
(* Volumes are whole numbers of a unit small enough that every percentage  *)
(* of a stock is whole; a share of a percentage is compared by cross       *)
(* multiplication.  The facilities come in the order of the sort, which    *)
(* may be any; priorities, costs and the texts of the plan are left out.   *)
(***************************************************************************)
EXTENDS Naturals, Sequences, FiniteSetsExt, Functions

CONSTANTS
  Facility,     \* rows of spr_facilities: [capacity, inventory, drawdown]
  Gaps,         \* supply_gap_bpd: the twin's, or the default
  Horizons,     \* disruption_days
  Thresholds,   \* min_reserve_threshold_pct of the policy
  MaxSites      \* bound: operational Indian facilities

ASSUME ReleaseAssumption ==
  /\ Facility \subseteq [capacity : Nat, inventory : Nat, drawdown : Nat]
  /\ Gaps \cup Horizons \cup Thresholds \subseteq Nat /\ MaxSites \in Nat

VARIABLES
  sites,        \* the facilities, sorted
  gap,          \* supply_gap_bpd
  factor,       \* reserve_factor of the strategy, in percent
  releasable,   \* releasable_inventory
  days,         \* max_drawdown_days
  drawn,        \* total_drawdown_volume, which the run records
  at,           \* the facility the loop has come to, 0 outside
  demand,       \* remaining_demand
  released,     \* total_released
  plan          \* entries [site, rate, duration, volume]

loopVars == <<at, demand, released, plan>>
releaseVars == <<sites, gap, factor, releasable, days, drawn, loopVars>>

ReleaseInit ==
  /\ sites = <<>> /\ gap = 0 /\ factor = 0
  /\ releasable = 0 /\ days = 0 /\ drawn = 0
  /\ at = 0 /\ demand = 0 /\ released = 0 /\ plan = <<>>

Lesser(a, b) == Min({a, b})
Total(s, f(_)) == SumFunction([i \in DOMAIN s |-> f(i)])

\* Conservative, aggressive, economic, strategic_preservation, any other.
Factors == {50, 10, 15, 60, 30}
NoDraw == 999

Releasable(s, threshold) ==
  LET stock == Total(s, LAMBDA i : s[i].inventory)
      kept == (Total(s, LAMBDA i : s[i].capacity) * threshold) \div 100
  IN  IF stock > kept THEN stock - kept ELSE 0

\* How long the reserve lasts at the rate the whole reserve is drawn.  Faulty
\* variant: at the rate of the gap that stays uncovered.
DaysOfGap(s, inventory, g) ==
  LET rest == IF g > Total(s, LAMBDA i : s[i].drawdown) THEN g - Total(s, LAMBDA i : s[i].drawdown) ELSE 0
  IN  IF rest > 0 THEN inventory \div rest ELSE NoDraw
DaysOfReserve(s, inventory, g) ==
  LET rate == Lesser(Total(s, LAMBDA i : s[i].drawdown), g)
  IN  IF rate > 0 THEN inventory \div rate ELSE NoDraw

\* run_optimization, up to the plan.
Optimize ==
  /\ at = 0
  /\ \E n \in 1..MaxSites : sites' \in [1..n -> Facility]
  /\ gap' \in Gaps /\ factor' \in Factors
  /\ \E threshold \in Thresholds : releasable' = Releasable(sites', threshold)
  /\ \E horizon \in Horizons : days' = Lesser(horizon, DaysOfReserve(sites', releasable', gap'))
  /\ drawn' = Lesser(releasable', Lesser(Total(sites', LAMBDA i : sites'[i].drawdown), gap') * days')
  /\ at' = 1 /\ demand' = gap' /\ released' = 0 /\ plan' = <<>>

\* Enough is released before the next facility, the gap is covered, or no
\* facility is left.
Stops ==
  \/ at > Len(sites) \/ demand = 0
  \/ released * 100 >= releasable * (100 - factor)

\* What a facility gives each day.
Rate(site) == Lesser(site.drawdown, demand)

Available(site) == (site.inventory * (100 - factor)) \div 100
Duration(site) ==
  IF Rate(site) > 0 THEN Lesser(days, Available(site) \div Rate(site)) ELSE 0

\* A facility with nothing to give is passed over.
Draw ==
  /\ at > 0 /\ ~Stops
  /\ LET site == sites[at]
         volume == Lesser(Available(site), Rate(site) * Duration(site))
     IN  IF volume = 0
         THEN UNCHANGED <<demand, released, plan>>
         ELSE /\ plan' = Append(plan,
                   [site |-> at, rate |-> Rate(site), duration |-> Duration(site), volume |-> volume])
              /\ released' = released + volume
              /\ demand' = demand - Rate(site)
  /\ at' = at + 1
  /\ UNCHANGED <<sites, gap, factor, releasable, days, drawn>>

ReleaseNext == Optimize \/ Draw

ReleaseSpec == ReleaseInit /\ [][ReleaseNext]_releaseVars
-----------------------------------------------------------------------------
\* The plan keeps the strategic reserve, although it looks at what was
\* released only before each facility and may release more than the strategy
\* allows: together its facilities never deliver more a day than the gap, nor
\* more in all than the run records as drawn, hence than may be released; and
\* each keeps its own reserve and delivers its rate on every day of its plan.
ReserveKept ==
  at > 0 =>
    /\ Total(plan, LAMBDA n : plan[n].rate) <= gap
    /\ Total(plan, LAMBDA n : plan[n].volume) <= drawn
    /\ drawn <= releasable
    /\ \A n \in DOMAIN plan :
         LET entry == plan[n]
         IN  /\ entry.volume = entry.rate * entry.duration
             /\ entry.volume * 100 <= sites[entry.site].inventory * (100 - factor)
             /\ entry.rate <= sites[entry.site].drawdown
=============================================================================
