---------------------------- MODULE MCOrderAhead ----------------------------
(***************************************************************************)
(* A steam wand, a pre-order and a few walk-ups for TLC.  The wand takes two *)
(* units of milk, so a large drink goes alone and two small ones of one milk *)
(* together; till is the register, whose costs are per order.                *)
(* The day is configured by one file or two.                                 *)
(***************************************************************************)
EXTENDS OrderAhead, TLC

CONSTANTS c1

Wand == [cost |-> [setup_s |-> 1, per_6oz_s |-> 1], batch_key |-> TRUE, batch_size |-> 0,
         max_batch |-> 2, changeover_s |-> 1]
Till == [cost |-> [base_s |-> 4, per_item_s |-> 1, food_s |-> 1], batch_key |-> FALSE,
         batch_size |-> 0, max_batch |-> 0, changeover_s |-> 0]

Drink(milk, oz) == [key |-> milk, food |-> FALSE, tasks |-> <<[units |-> oz, shots |-> 0]>>]
MCItem == {Drink("oat", 1), Drink("whole", 1), Drink("whole", 2)}
MCBasket == [c \in Customers |-> Drink("oat", 1)]
MCWaits == <<2, 6, 6, 2, 6>>
MCBlocks == <<[from |-> 0, to |-> 4, baristas |-> 1], [from |-> 4, to |-> 9, baristas |-> 2]>>
MCPerPerson == <<3, 1>>
MCWantedTimes == {3, 7}

MCPriced == {Wand, Till}

\* What a metric came to on the days that have it, one day or two, of the
\* candidates that are compared.
MCShowings ==
  LET showing == {Summary(days) : days \in {<<a>> : a \in 0..2} \cup {<<0, 1>>}}
  IN UNION {[compared -> showing] : compared \in SUBSET PolicyName}

MCWords ==
  {Block, Null, "source", "source_of", "meta", "scenario", "policy", "name", "guard",
   "customers", "rate", "patience", "budget", "dist", "median", "sigma", "value"}
  \cup SOURCES \cup PolicyName
  \cup {"day", "g", "r", "s", "p", "lognormal", "constant", "m", "n", "v", "w", "new"}

\* A file by its values; the blocks they are in come with them.
File(values) ==
  [path \in UNION {{Upto(path, n) : n \in 1..Len(path)} : path \in DOMAIN values} |->
     IF path \in DOMAIN values THEN values[path] ELSE Block]
Given(path, source) == IF source = Null THEN Empty ELSE path :> source

\* A base file and what was observed since, either of them partly guesswork; and
\* files with two blocks, one with a distribution, with and without a source at each
\* level.
Base(name) == <<"policy", "name">> :> name @@ <<"meta", "scenario">> :> "day"
Observed ==
  {<<File(Base(name) @@ <<"policy", "guard">> :> "g" @@ <<"policy", "source">> :> "assumed"
          @@ <<"meta", "source">> :> m
          @@ <<"customers", "rate">> :> "r" @@ <<"customers", "patience">> :> "p"),
     File(<<"customers", "rate">> :> "s" @@ <<"customers", "source">> :> c)>>
   : name \in PolicyName, m \in {"assumed", "observed"}, c \in {"assumed", "observed"}}
Budget(dist) == <<"customers", "budget", "dist">> :> dist
Sourced ==
  {<<File(Base(name) @@ <<"meta", "source">> :> "assumed"
          @@ <<"customers", "rate">> :> "r" @@ Given(<<"customers", "source">>, c)
          @@ <<"customers", "source_of", key>> :> "published"
          @@ Budget("lognormal") @@ <<"customers", "budget", "median">> :> "m"
          @@ Given(<<"customers", "budget", "source">>, b))>>
   : name \in PolicyName, key \in {"rate", "budget"},
     c \in {Null, "observed"}, b \in {Null, "assumed"}}
MCStacks == Observed \cup Sourced
MCAmendments ==
  {File(Budget("constant") @@ <<"customers", "budget", "value">> :> "v"),
   File(Budget("lognormal") @@ <<"customers", "budget", "sigma">> :> "w"),
   File(<<"customers", "budget", "median">> :> "n"), File(<<"customers", "rate">> :> Null)}
MCSweptOver == {"r", "new"}
=============================================================================
