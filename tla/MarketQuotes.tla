---------------------------- MODULE MarketQuotes ----------------------------
(***************************************************************************)
(* Quotes (libs/market_data: service, cache, rate_limit, the Alpaca        *)
(* provider and its transport). Requests of a process share, without a     *)
(* lock, a cache of quotes and per user the times of the requests granted; *)
(* a switch of threads may come between any two uses of them. Prices are   *)
(* left out: a quote is its symbol and the time the provider gave it.      *)
(***************************************************************************)
EXTENDS Naturals, Sequences, FiniteSets

CONSTANTS
  Users, Symbols, Threads,
  MaxRequests, Window, \* so many requests are granted in a window of so long
  Ttl,                 \* how long a quote is cached
  MaxClock,            \* bound on time
  Failure,             \* the codes of the errors of the provider
  NoUser, NoEntry      \* of no request, of no quote

ASSUME LimitAssumption == /\ MaxRequests \in Nat \ {0} /\ Window \in Nat \ {0}
                          /\ Ttl \in Nat /\ MaxClock \in Nat

VARIABLES
  clock,   \* time.monotonic
  events,  \* user -> the deque of the limiter
  cache,   \* symbol -> what is cached
  health,  \* what the transport recorded last
  thread,  \* what each request thread is doing
  granted  \* history: user -> the times of the requests granted

vars == <<clock, events, cache, health, thread, granted>>

Times   == 0..MaxClock
Entry   == [expires: 0..(MaxClock + Ttl), of: Symbols, taken: Times]

\* An item of the answer: the quote, when it was looked up, and whether it came
\* from the cache, with the time it had been put there.
Item == [of: Symbols, taken: Times, seen: Times, hit: BOOLEAN, stored: Times]

Stages == {"idle", "prune", "pop", "count", "append", "look", "evict", "fetch", "store",
           "answered", "refused", "failed"}

\* now is read once, by consume. todo is what remains to be looked up, then to
\* be fetched, then to be stored; missed and items are what was found so far.
Request == [at: Stages, user: Users \cup {NoUser}, now: Times, asked: SUBSET Symbols,
            todo: SUBSET Symbols, missed: SUBSET Symbols, items: SUBSET Item]

Idle == [at |-> "idle", user |-> NoUser, now |-> 0, asked |-> {}, todo |-> {},
         missed |-> {}, items |-> {}]

At(t, p)    == thread[t].at = p
Goto(t, r)  == thread' = [thread EXCEPT ![t] = r]
Step(t, p)  == thread' = [thread EXCEPT ![t].at = p]
Deque(t)    == events[thread[t].user]

-----------------------------------------------------------------------------
(* get_latest_quote (of one symbol) and get_quotes (of some)               *)

\* A batch is normalized, and answered at once if nothing remains of it.
StartQuotes(t, u, S) ==
  /\ At(t, "idle")
  /\ S # {}
  /\ Goto(t, [Idle EXCEPT !.at = "prune", !.user = u, !.now = clock, !.asked = S, !.todo = S])
  /\ UNCHANGED <<clock, events, cache, health, granted>>

\* Mutant: a request that is just as old as the window still counts.
PruneYounger(t) ==
  /\ At(t, "prune")
  /\ Step(t, IF Deque(t) # <<>> /\ Head(Deque(t)) + Window < thread[t].now
             THEN "pop" ELSE "count")
  /\ UNCHANGED <<clock, events, cache, health, granted>>

\* consume: the oldest request is looked at ...
Prune(t) ==
  /\ At(t, "prune")
  /\ Step(t, IF Deque(t) # <<>> /\ Head(Deque(t)) + Window <= thread[t].now
             THEN "pop" ELSE "count")
  /\ UNCHANGED <<clock, events, cache, health, granted>>

\* ... and the one that is the oldest by then dropped; none raises.
Pop(t) ==
  /\ At(t, "pop")
  /\ IF Deque(t) = <<>> THEN Step(t, "failed") /\ UNCHANGED events
     ELSE Step(t, "prune") /\ events' = [events EXCEPT ![thread[t].user] = Tail(@)]
  /\ UNCHANGED <<clock, cache, health, granted>>

\* Mutant: one more than the limit.
CountLoosely(t) ==
  /\ At(t, "count")
  /\ Step(t, IF Len(Deque(t)) > MaxRequests THEN "refused" ELSE "append")
  /\ UNCHANGED <<clock, events, cache, health, granted>>

Count(t) ==
  /\ At(t, "count")
  /\ Step(t, IF Len(Deque(t)) >= MaxRequests THEN "refused" ELSE "append")
  /\ UNCHANGED <<clock, events, cache, health, granted>>

Grant(t) ==
  /\ At(t, "append")
  /\ LET u == thread[t].user IN
     /\ events' = [events EXCEPT ![u] = Append(@, thread[t].now)]
     /\ granted' = [granted EXCEPT ![u] = Append(@, thread[t].now)]
  /\ Step(t, "look")
  /\ UNCHANGED <<clock, cache, health>>

\* The symbols looked up so far are done with when none remains: what was
\* missed is fetched.
Looked(r, s) ==
  LET left == r.todo \ {s} IN
  IF left # {} THEN [r EXCEPT !.at = "look", !.todo = left]
  ELSE [r EXCEPT !.at = IF r.missed = {} THEN "answered" ELSE "fetch", !.todo = r.missed]

Missing(r, s) == Looked([r EXCEPT !.missed = @ \cup {s}], s)

Hit(r, s) ==
  Looked([r EXCEPT !.items = @ \cup {[of |-> cache[s].of, taken |-> cache[s].taken, hit |-> TRUE,
                                      seen |-> clock, stored |-> cache[s].expires - Ttl]}], s)

\* get of the cache: an entry that has expired is removed next.
Look(t, s) ==
  /\ At(t, "look") /\ s \in thread[t].todo
  /\ Goto(t, CASE cache[s] = NoEntry -> Missing(thread[t], s)
               [] cache[s] # NoEntry /\ clock < cache[s].expires -> Hit(thread[t], s)
               [] OTHER -> [thread[t] EXCEPT !.at = "evict", !.missed = @ \cup {s}])
  /\ UNCHANGED <<clock, events, cache, health, granted>>

\* pop, also of an entry another request has put there meanwhile.
Evict(t) ==
  /\ At(t, "evict")
  /\ LET s == CHOOSE x \in thread[t].todo \cap thread[t].missed : TRUE IN
     /\ cache' = [cache EXCEPT ![s] = NoEntry]
     /\ Goto(t, Looked(thread[t], s))
  /\ UNCHANGED <<clock, events, health, granted>>

Fetched(r, s) ==
  LET left == r.todo \ {s} IN
  [r EXCEPT !.at = IF left = {} THEN "store" ELSE "fetch",
            !.todo = IF left = {} THEN r.missed ELSE left,
            !.items = @ \cup {[of |-> s, taken |-> clock, hit |-> FALSE,
                               seen |-> clock, stored |-> clock]}]

\* batch_quote of the provider, one quote of the transport after the other.
Fetch(t, s) ==
  /\ At(t, "fetch") /\ s \in thread[t].todo
  /\ health' = "ok"
  /\ Goto(t, Fetched(thread[t], s))
  /\ UNCHANGED <<clock, events, cache, granted>>

\* Mutant: the transport records that it is degraded instead of the code.
FetchDegrades(t, code) ==
  /\ At(t, "fetch")
  /\ health' = "degraded"
  /\ Step(t, "failed")
  /\ UNCHANGED <<clock, events, cache, granted>>

\* The transport turns a timeout into an error that _call_with_retry does not
\* repeat, and one failure is the whole batch's.
FetchFails(t, code) ==
  /\ At(t, "fetch")
  /\ health' = code
  /\ Step(t, "failed")
  /\ UNCHANGED <<clock, events, cache, granted>>

\* Mutant: a batch caches the first quote under every symbol.
StoreFirst(t, s) ==
  /\ At(t, "store") /\ s \in thread[t].todo
  /\ LET q == CHOOSE i \in thread[t].items : ~i.hit IN
     cache' = [cache EXCEPT ![s] = [expires |-> clock + Ttl, of |-> q.of, taken |-> q.taken]]
  /\ LET left == thread[t].todo \ {s} IN
     Goto(t, [thread[t] EXCEPT !.todo = left, !.at = IF left = {} THEN "answered" ELSE "store"])
  /\ UNCHANGED <<clock, events, health, granted>>

\* set of the cache: the quote lives from now, not from when it was taken.
Store(t, s) ==
  /\ At(t, "store") /\ s \in thread[t].todo
  /\ LET q == CHOOSE i \in thread[t].items : i.of = s /\ ~i.hit IN
     cache' = [cache EXCEPT ![s] = [expires |-> clock + Ttl, of |-> q.of, taken |-> q.taken]]
  /\ LET left == thread[t].todo \ {s} IN
     Goto(t, [thread[t] EXCEPT !.todo = left, !.at = IF left = {} THEN "answered" ELSE "store"])
  /\ UNCHANGED <<clock, events, health, granted>>

\* The response is sent.
Respond(t) ==
  /\ thread[t].at \in {"answered", "refused", "failed"}
  /\ Goto(t, Idle)
  /\ UNCHANGED <<clock, events, cache, health, granted>>

Tick ==
  /\ clock < MaxClock
  /\ clock' = clock + 1
  /\ UNCHANGED <<events, cache, health, thread, granted>>

-----------------------------------------------------------------------------
Init ==
  /\ clock = 0
  /\ events = [u \in Users |-> <<>>]
  /\ cache = [s \in Symbols |-> NoEntry]
  /\ health = "ok"
  /\ thread = [t \in Threads |-> Idle]
  /\ granted = [u \in Users |-> <<>>]

Consume(t) == Prune(t) \/ Pop(t) \/ Count(t) \/ Grant(t)

QuoteRoutes(t) ==
  \/ \E u \in Users, S \in SUBSET Symbols : StartQuotes(t, u, S)
  \/ Consume(t)
  \/ \E s \in Symbols : Look(t, s) \/ Fetch(t, s) \/ Store(t, s)
  \/ Evict(t)
  \/ \E code \in Failure : FetchFails(t, code)
  \/ Respond(t)

Next == Tick \/ \E t \in Threads : QuoteRoutes(t)

Spec == Init /\ [][Next]_vars

-----------------------------------------------------------------------------
(* Properties                                                              *)

TypeOK ==
  /\ clock \in Times
  /\ events \in [Users -> Seq(Times)] /\ granted \in [Users -> Seq(Times)]
  /\ cache \in [Symbols -> Entry \cup {NoEntry}]
  /\ health \in Failure \cup {"ok"}
  /\ thread \in [Threads -> Request]

\* Whatever runs in between, an answer has one quote of each symbol asked for
\* and of no other, and one from the cache had been there for less than its
\* lifetime (get, set, get_quotes). An item without a quote,
\* QUOTE_NOT_AVAILABLE, is of a symbol a provider leaves out of its answer; the
\* two that are wired return every symbol or raise.
AnswersFit ==
  \A t \in Threads : At(t, "answered") =>
    /\ \A s \in thread[t].asked : Cardinality({i \in thread[t].items : i.of = s}) = 1
    /\ \A i \in thread[t].items : /\ i.of \in thread[t].asked
                                  /\ i.hit => i.seen < i.stored + Ttl
                                  /\ i.taken <= i.stored

=============================================================================
