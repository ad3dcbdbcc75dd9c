-------------------------- MODULE PolicySelection --------------------------
(***************************************************************************)
(* A selection from end to end: select_policy of sim/select.py runs one arm *)
(* per scheduler on a stack of parameter files, decides, and writes its     *)
(* answer as one more file of that stack.  What a day measures under a       *)
(* configuration is an input.                                               *)
(***************************************************************************)
EXTENDS PolicyChoice, ParamFiles, Integers, FiniteSets

\* OBJECTIVES: whether more of the metric is better.
OBJECTIVES == [margin |-> TRUE, wait |-> FALSE, lost |-> FALSE, throughput |-> TRUE]

MAX_ASSUMED == 60   \* percent

\* ArmResult.summary over the days that have the metric, one or two of them, in
\* hundredths: the mean, and 1.96 standard errors, which are 0.98 times the
\* difference of two; a single day has no interval.
Summary(days) ==
  IF Len(days) = 1 THEN [value |-> 100 * days[1], half |-> 0]
  ELSE LET apart == IF days[1] > days[2] THEN days[1] - days[2] ELSE days[2] - days[1]
       IN [value |-> 50 * (days[1] + days[2]), half |-> 98 * apart]

PolicyIn(config) == config[<<"policy", "name">>]

\* The overlay of one arm.
Running(policy) ==
  [path \in {<<"policy">>, <<"policy", "name">>} |-> IF path = <<"policy">> THEN Block ELSE policy]

\* The configuration one scheduler is measured under: every file, then its name.
Arm(files, policy) == LoadParams(files, Running(policy))

\* assumed_fraction <= MAX_ASSUMED, with provenance_report counting parameters.
Trustworthy(config) ==
  LET params == ParamsOf(config)
  IN 100 * Cardinality({p \in params : p.source = "assumed"}) <= MAX_ASSUMED * Cardinality(params)

\* Selection.overlay.
SelectionFile(policy) ==
  [path \in {<<"policy">>, <<"policy", "name">>, <<"policy", "source">>,
             <<"meta">>, <<"meta", "scenario">>, <<"meta", "source">>} |->
     CASE path \in {<<"policy">>, <<"meta">>} -> Block
       [] path = <<"policy", "source">> -> "fitted"
       [] path = <<"meta", "source">> -> "assumed"
       [] OTHER -> policy]

\* The stack after --apply: written if the model is trusted or somebody owns it.
Applied(files, policy, force) ==
  IF Trustworthy(LoadParams(files, Empty)) \/ force
  THEN Append(files, SelectionFile(policy)) ELSE files

\* select_policy: shown is what run_arm measures of a day under each scheduler.
Selected(files, shown, objective) ==
  Decide([policy \in Range(Simplest) |-> shown[PolicyIn(Arm(files, policy))]],
         PolicyIn(LoadParams(files, Empty)), OBJECTIVES[objective])

---------------------------------------------------------------------------
(* Properties.                                                               *)

\* What two configurations give everything but the parameters at these paths.
AgreeBut(paths, config, other) ==
  LET given(c) == {<<p.path, p.value>> : p \in {q \in ParamsOf(c) : q.path \notin paths}}
  IN given(config) = given(other)

\* Schedulers are compared on the configuration that was asked about and differ
\* in nothing else; the file a selection writes changes the scheduler and the
\* name of the scenario only, so that the arms of the next selection are the ones
\* of this one.
SelectionsAreFair(stacks) ==
  \A files \in stacks, policy \in Range(Simplest), force \in BOOLEAN :
    LET config == LoadParams(files, Empty)
        stack  == Applied(files, policy, force)
        after  == LoadParams(stack, Empty)
        name   == <<"policy", "name">>
        label  == <<"meta", "scenario">>
    IN Accepted(config) =>
         /\ AgreeBut({name}, Arm(files, policy), config)
         /\ PolicyIn(Arm(files, policy)) = policy
         /\ stack # files =>
              /\ Accepted(after) /\ PolicyIn(after) = policy
              /\ AgreeBut({name, label}, after, config)
              /\ \A other \in Range(Simplest) :
                   AgreeBut({label}, Arm(stack, other), Arm(files, other))

\* Selecting again with the answer in force leaves it alone.
SelectionsAreStable(stacks, showings) ==
  \A files \in stacks, shown \in showings, objective \in DOMAIN OBJECTIVES :
    Accepted(LoadParams(files, Empty)) =>
      LET chosen == Selected(files, shown, objective)
      IN Selected(Applied(files, chosen, TRUE), shown, objective) = chosen
=============================================================================
