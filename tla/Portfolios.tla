------------------------------ MODULE Portfolios -----------------------------
(***************************************************************************)
(* Portfolios of strategies (libs/strategy_management/portfolio.py). The   *)
(* repository is a dictionary in memory, and what it gives out is the      *)
(* portfolio itself: two request threads change one object, and save only  *)
(* enters it in the dictionary again. Weights are whole numbers of some    *)
(* unit. Bodies that are refused whatever the portfolio holds are left out *)
(* (strategies of other users, constraints that contradict each other). Of *)
(* a name it only counts whether a request changes it, and the status is   *)
(* left out, since no route moves a portfolio to another one.              *)
(***************************************************************************)
EXTENDS FiniteSetsExt, Integers, Sequences

CONSTANTS
  PortfolioIds,
  Strategies,    \* the strategies of the user, in the order of their ids
  Weights,       \* what requests set weights to
  Limits,        \* the constraints they set, [total, single]
  Targets,       \* the targets a request names for a rebalance, if any
  Scores,        \* the scores the metrics of a strategy can give
  Threads,
  MaxVersion,    \* bound: a portfolio of this version is not changed
  NoPortfolio, NoPlan

\* A portfolio as to_dict shows it. A member is an object that lists share: nth
\* tells it from the others there are of its strategy.
Member    == [strategy: Strategies, weight: Nat, nth: Nat]
Portfolio == [limits: Limits, members: Seq(Member), version: Nat]

\* What the constants must be; for the limits, what _normalize_constraints lets
\* through.
Parameters ==
  /\ Strategies \subseteq Nat /\ IsFiniteSet(Strategies)
  /\ Weights \cup Scores \subseteq Nat \ {0}
  /\ Targets \subseteq UNION {[S -> Weights] : S \in (SUBSET Strategies) \ {{}}}
  /\ Limits \subseteq [total: Nat \ {0}, single: Nat \ {0}]
  /\ \A l \in Limits : l.single <= l.total
  /\ NoPortfolio \notin PortfolioIds \cup Portfolio

VARIABLES
  object, \* id -> the portfolio in memory, or NoPortfolio
  listed, \* the ids in the dictionary
  plan,   \* the result of the last rebalance job, or NoPlan: its targets are
          \* in units of 1/scale, auto if the request named none
  worker  \* what each request thread is doing

vars == <<object, listed, plan, worker>>

Places == {"idle", "check", "place", "append", "pick", "replace", "weigh",
           "constrain", "touch", "save", "delete", "plan"}

\* A request: its portfolio, the member or the update it brings, the list of
\* members it has computed.
Request == [at: Places, of: PortfolioIds \cup {NoPortfolio}, member: Member,
            limits: Limits, members: Seq(Member), changed: BOOLEAN]

Idle == [at |-> "idle", of |-> NoPortfolio, member |-> [strategy |-> Min(Strategies), weight |-> 0, nth |-> 0],
         limits |-> CHOOSE l \in Limits : TRUE,
         members |-> <<>>, changed |-> FALSE]

At(t, p)   == worker[t].at = p
Goto(t, r) == worker' = [worker EXCEPT ![t] = r]
Step(t, p) == Goto(t, [worker[t] EXCEPT !.at = p])
Mine(t)    == object[worker[t].of]

-----------------------------------------------------------------------------
(* Weights                                                                 *)

Ids(ms) == {ms[i].strategy : i \in DOMAIN ms}

\* {member.strategy_id: member.weight ...}: the last of a strategy counts.
WeightMap(ms) ==
  [s \in Ids(ms) |-> ms[Max({i \in DOMAIN ms : ms[i].strategy = s})].weight]

\* The list without the members of strategy s, the others in their order.
Without(ms, s) ==
  LET kept[n \in 0..Len(ms)] ==
        IF n = 0 THEN <<>>
        ELSE IF ms[n].strategy = s THEN kept[n - 1] ELSE Append(kept[n - 1], ms[n])
  IN  kept[Len(ms)]

\* The list once the weight of the object member, should it be in it, is set to w.
Reweighed(ms, member, w) ==
  [i \in DOMAIN ms |-> IF ms[i].strategy = member.strategy /\ ms[i].nth = member.nth
                         THEN [ms[i] EXCEPT !.weight = w] ELSE ms[i]]

SumOver(g, S) == MapThenSumSet(LAMBDA s : g[s], S)

Total(w) == SumOver(w, DOMAIN w)

\* Mutant: the sum is not looked at.
SingleValid(w, limits) == \A s \in DOMAIN w : w[s] > 0 /\ w[s] <= limits.single

\* _validate_weights.
Valid(w, limits) ==
  /\ \A s \in DOMAIN w : w[s] > 0 /\ w[s] <= limits.single
  /\ Total(w) <= limits.total

\* Mutant: what is left is not given out.
AutoCapped(S, limits, score) ==
  LET T == SumOver(score, S)
  IN  [scale |-> T, target |-> [s \in S |-> Min({limits.single * T, limits.total * score[s]})]]

\* _build_auto_target_weights: in proportion to the scores, up to the limit of
\* a single strategy; what is left goes to the strategies in turn.
AutoTargets(S, limits, score) ==
  LET T    == SumOver(score, S)
      base == [s \in S |-> Min({limits.single * T, limits.total * score[s]})]
      left == limits.total * T - Total(base)
      room == [s \in S |-> limits.single * T - base[s]]
      before(s) == SumOver(room, {r \in S : r < s})
  IN  [scale |-> T, target |-> [s \in S |->
         base[s] + Min({room[s], Max({0, left - before(s)})})]]

-----------------------------------------------------------------------------
(* Requests                                                                *)

\* Mutant: the versions start one lower.
CreateUnversioned(p, limits) ==
  /\ object[p] = NoPortfolio
  /\ object' = [object EXCEPT ![p] = [limits |-> limits, members |-> <<>>, version |-> 0]]
  /\ listed' = listed \cup {p}
  /\ UNCHANGED <<plan, worker>>

CreatePortfolio(p, limits) ==
  /\ object[p] = NoPortfolio
  /\ object' = [object EXCEPT ![p] = [limits |-> limits, members |-> <<>>, version |-> 1]]
  /\ listed' = listed \cup {p}
  /\ UNCHANGED <<plan, worker>>

\* _require_owned_portfolio, and what the request goes on to do. A body that
\* changes the name does so here, whatever becomes of its constraints.
Load(t, p, request) ==
  /\ At(t, "idle") /\ p \in listed
  /\ request.at \notin {"delete", "plan"} => object[p].version < MaxVersion
  /\ Goto(t, [request EXCEPT !.of = p])
  /\ UNCHANGED <<object, listed, plan>>

\* add_member checks the weights there will be ...
CheckMember(t) ==
  /\ At(t, "check")
  /\ LET m == worker[t].member
         w == [s \in Ids(Mine(t).members) \cup {m.strategy} |->
                 IF s = m.strategy THEN m.weight ELSE WeightMap(Mine(t).members)[s]] IN
     Goto(t, IF Valid(w, Mine(t).limits) THEN [worker[t] EXCEPT !.at = "place"] ELSE Idle)
  /\ UNCHANGED <<object, listed, plan>>

\* The least nth that no object of strategy s has, in the list of portfolio p or
\* in one that a request has picked from it.
Fresh(p, s) ==
  LET lists == {object[p].members} \cup {worker[t].members : t \in {u \in Threads : worker[u].of = p}}
      used  == UNION {{ms[i].nth : i \in {k \in DOMAIN ms : ms[k].strategy = s}} : ms \in lists}
      free  == (0..Cardinality(used)) \ used
  IN  {n \in free : \A k \in free : n <= k}

\* ... looks for the member, whose weight it sets, in the list of whoever has
\* picked this object as well, ...
PlaceMember(t) ==
  /\ At(t, "place")
  /\ LET m     == worker[t].member
         ms    == Mine(t).members
         found == {i \in DOMAIN ms : ms[i].strategy = m.strategy}
         its   == ms[Min(found)] IN
     IF found = {} THEN Step(t, "append") /\ UNCHANGED object
     ELSE IF its.weight = m.weight THEN Step(t, "save") /\ UNCHANGED object
     ELSE /\ object' = [object EXCEPT ![worker[t].of].members = Reweighed(ms, its, m.weight)]
          /\ worker' = [u \in Threads |->
               IF u = t THEN [worker[t] EXCEPT !.at = "touch"]
               ELSE IF At(u, "replace") /\ worker[u].of = worker[t].of
                 THEN [worker[u] EXCEPT !.members = Reweighed(@, its, m.weight)]
               ELSE worker[u]]
  /\ UNCHANGED <<listed, plan>>

\* ... and appends one it did not find.
AppendMember(t) ==
  /\ At(t, "append")
  /\ \E n \in Fresh(worker[t].of, worker[t].member.strategy) :
       object' = [object EXCEPT ![worker[t].of].members = Append(@, [worker[t].member EXCEPT !.nth = n])]
  /\ Step(t, "touch")
  /\ UNCHANGED <<listed, plan>>

\* remove_member: the list of the other objects, or 404 ...
PickOthers(t) ==
  /\ At(t, "pick")
  /\ LET others == Without(Mine(t).members, worker[t].member.strategy) IN
     Goto(t, IF others = Mine(t).members THEN Idle
             ELSE [worker[t] EXCEPT !.at = "replace", !.members = others])
  /\ UNCHANGED <<object, listed, plan>>

\* Mutant: the version stays.
ReplaceQuietly(t) ==
  /\ At(t, "replace")
  /\ object' = [object EXCEPT ![worker[t].of].members = worker[t].members]
  /\ Step(t, "save")
  /\ UNCHANGED <<listed, plan>>

\* ... replaces whatever the list is by then.
ReplaceMembers(t) ==
  /\ At(t, "replace")
  /\ object' = [object EXCEPT ![worker[t].of].members = worker[t].members]
  /\ Step(t, "touch")
  /\ UNCHANGED <<listed, plan>>

\* update: the constraints must hold of the members there are. If not the
\* request ends, its name stays and the version with it.
WeighMembers(t) ==
  /\ At(t, "weigh")
  /\ Goto(t, IF Valid(WeightMap(Mine(t).members), worker[t].limits)
             THEN [worker[t] EXCEPT !.at = "constrain"] ELSE Idle)
  /\ UNCHANGED <<object, listed, plan>>

Constrain(t) ==
  /\ At(t, "constrain")
  /\ object' = [object EXCEPT ![worker[t].of].limits = worker[t].limits]
  /\ Step(t, IF worker[t].changed \/ worker[t].limits # Mine(t).limits THEN "touch" ELSE "save")
  /\ UNCHANGED <<listed, plan>>

\* _touch.
Touch(t) ==
  /\ At(t, "touch")
  /\ object' = [object EXCEPT ![worker[t].of].version = @ + 1]
  /\ Step(t, "save")
  /\ UNCHANGED <<listed, plan>>

\* save: a portfolio deleted meanwhile is back.
Save(t) ==
  /\ At(t, "save")
  /\ listed' = listed \cup {worker[t].of}
  /\ Goto(t, Idle)
  /\ UNCHANGED <<object, plan>>

\* delete, after the portfolio was found: if another request deleted it in
\* between the dictionary has no such key and the request fails.
DeletePortfolio(t) ==
  /\ At(t, "delete")
  /\ listed' = listed \ {worker[t].of}
  /\ Goto(t, Idle)
  /\ UNCHANGED <<object, plan>>

\* build_portfolio_rebalance_result, once its portfolio is found again, and the
\* job that keeps it unless its key is taken. The targets a request names need
\* not be all members', and only their own sum is looked at.
Rebalance(t, named, score) ==
  /\ At(t, "plan")
  /\ LET p    == worker[t].of
         auto == AutoTargets(Ids(Mine(t).members), Mine(t).limits, score)
         made == IF DOMAIN named = {} THEN auto ELSE [scale |-> 1, target |-> named] IN
     \/ /\ p \in listed /\ DOMAIN made.target \subseteq Ids(Mine(t).members)
        /\ Valid(made.target, [total  |-> Mine(t).limits.total * made.scale,
                               single |-> Mine(t).limits.single * made.scale])
        /\ plan' = [of |-> p, version |-> Mine(t).version, auto |-> DOMAIN named = {},
                    scale |-> made.scale, target |-> made.target]
     \/ UNCHANGED plan
  /\ Goto(t, Idle)
  /\ UNCHANGED <<object, listed>>

\* The process dies: portfolios are in its memory only. Ids are not used again.
Crash ==
  /\ listed' = {}
  /\ worker' = [t \in Threads |-> Idle]
  /\ UNCHANGED <<object, plan>>

-----------------------------------------------------------------------------
Init ==
  /\ object = [p \in PortfolioIds |-> NoPortfolio]
  /\ listed = {} /\ plan = NoPlan
  /\ worker = [t \in Threads |-> Idle]

Bodies ==
  {[Idle EXCEPT !.at = "check", !.member = m] : m \in [strategy: Strategies, weight: Weights, nth: {0}]}
  \cup {[Idle EXCEPT !.at = "pick", !.member.strategy = s] : s \in Strategies}
  \cup {[Idle EXCEPT !.at = "weigh", !.limits = u.limits, !.changed = u.changed] :
          u \in [limits: Limits, changed: BOOLEAN]}
  \cup {[Idle EXCEPT !.at = place] : place \in {"touch", "save", "delete", "plan"}}

Steps(t) ==
  \/ CheckMember(t) \/ PlaceMember(t) \/ AppendMember(t) \/ PickOthers(t) \/ ReplaceMembers(t)
  \/ WeighMembers(t) \/ Constrain(t) \/ Touch(t) \/ Save(t) \/ DeletePortfolio(t)
  \/ \E score \in [Strategies -> Scores] : Rebalance(t, [s \in {} |-> 0], score)
  \/ \E named \in Targets : Rebalance(t, named, [s \in Strategies |-> Min(Scores)])

Next ==
  \/ \E p \in PortfolioIds, limits \in Limits : CreatePortfolio(p, limits)
  \/ \E t \in Threads : Steps(t) \/ \E p \in PortfolioIds, request \in Bodies : Load(t, p, request)
  \/ Crash

Spec == Init /\ [][Next]_vars

-----------------------------------------------------------------------------
(* Properties                                                              *)

TypeOK ==
  /\ object \in [PortfolioIds -> Portfolio \cup {NoPortfolio}]
  /\ \A p \in PortfolioIds : object[p] # NoPortfolio =>
       object[p].version \in 1..(MaxVersion + Cardinality(Threads))
  /\ listed \subseteq {p \in PortfolioIds : object[p] # NoPortfolio}
  /\ plan # NoPlan => /\ plan.of \in PortfolioIds /\ plan.version \in Nat /\ plan.scale \in Nat
                      /\ DOMAIN plan.target \subseteq Strategies
  /\ worker \in [Threads -> Request]
=============================================================================
