------------------------------- MODULE Rules -------------------------------
(***************************************************************************)
(* The IF/THEN rules of src/lib/sync/rules.ts.  A rule set is a sequence   *)
(* in position order; a rule is [enabled, match, conditions, action,       *)
(* column, value, set] and a condition [field, operator, value].  column is *)
(* the text of a header as the user spelled it.                            *)
(***************************************************************************)
EXTENDS Filters

ConditionMatches(c, resolve) == compareValues(resolve[c.field], c.operator, c.value)

\* An unfinished rule, without conditions, is inert.
RuleMatches(rule, resolve) ==
    /\ rule.conditions # {}
    /\ IF rule.match = "ANY"
       THEN \E c \in rule.conditions : ConditionMatches(c, resolve)
       ELSE \A c \in rule.conditions : ConditionMatches(c, resolve)

\* What the loop knows after some of the rules: whether it returned early,
\* a whitelist rule matched, the overrides so far as a sequence of
\* [column, value] in the order of their first appearance, column being the
\* key of the Map (trimmed, its case kept), the mapping set, and the rules
\* that matched.
NothingYet == [excluded |-> FALSE, listed |-> FALSE, overrides |-> <<>>,
               set |-> None, matched |-> {}]

\* Mutant: the first rule that sets a column keeps it.
OverrideFirst(overrides, column, value) ==
    IF \E i \in DOMAIN overrides : overrides[i].column = column THEN overrides
    ELSE Append(overrides, [column |-> column, value |-> value])

\* Map.set: a later value for a column replaces the earlier one.
Override(overrides, column, value) ==
    IF \E i \in DOMAIN overrides : overrides[i].column = column
    THEN [i \in DOMAIN overrides |->
            IF overrides[i].column = column THEN [overrides[i] EXCEPT !.value = value]
                                            ELSE overrides[i]]
    ELSE Append(overrides, [column |-> column, value |-> value])

\* One turn of the loop, for an active rule that matches.
ApplyRule(acc, rule, i) ==
    LET seen == [acc EXCEPT !.matched = @ \cup {i}]
    IN  CASE rule.action = "EXCLUDE"      -> [seen EXCEPT !.excluded = TRUE]
          [] rule.action = "INCLUDE_ONLY" -> [seen EXCEPT !.listed = TRUE]
          [] rule.action = "SET_VALUE" /\ rule.column # Empty ->
                [seen EXCEPT !.overrides = Override(@, Trim(rule.column), rule.value)]
          [] rule.action = "USE_MAPPING_SET" /\ rule.set # None ->
                [seen EXCEPT !.set = rule.set]
          [] OTHER -> seen

RuleTurn(acc, rule, i, resolve) ==
    IF acc.excluded \/ ~rule.enabled \/ ~RuleMatches(rule, resolve) THEN acc
    ELSE ApplyRule(acc, rule, i)

Whitelist(rules) == \E i \in DOMAIN rules : rules[i].enabled /\ rules[i].action = "INCLUDE_ONLY"

RuleOutcome(acc, rules) ==
    [include   |-> ~acc.excluded /\ (Whitelist(rules) => acc.listed),
     overrides |-> acc.overrides,
     set       |-> acc.set,
     matched   |-> acc.matched]

\* The loop, as a function of the rules that have had their turn.
AfterRules(rules, resolve) ==
    LET after[n \in 0 .. Len(rules)] ==
          IF n = 0 THEN NothingYet ELSE RuleTurn(after[n - 1], rules[n], n, resolve)
    IN  after[Len(rules)]
EvaluateRules(rules, resolve) == RuleOutcome(AfterRules(rules, resolve), rules)

\* validateRule: the rules that PUT /api/rules stores.
ValidRule(rule) ==
    /\ rule.match \in {"ALL", "ANY"}
    /\ rule.conditions # {}
    /\ \A c \in rule.conditions :
          \/ c.operator \in {"is_empty", "is_not_empty"}
          \/ /\ c.operator \in {"equals", "not_equals", "contains", "not_contains",
                               "starts_with", "ends_with", "greater_than", "less_than"}
             /\ Trim(c.value) # Empty
    /\ \/ rule.action \in {"EXCLUDE", "INCLUDE_ONLY"}
       \/ rule.action = "SET_VALUE" /\ Trim(rule.column) # Empty
       \/ rule.action = "USE_MAPPING_SET" /\ rule.set # None

-----------------------------------------------------------------------------
(* The "resolution order" that the comment on evaluateRules promises.      *)

Fires(rules, resolve, action) ==
    {i \in DOMAIN rules : /\ rules[i].enabled /\ rules[i].action = action
                          /\ RuleMatches(rules[i], resolve)}
LastOf(S) == CHOOSE i \in S : \A j \in S : j <= i

PromisedInclude(rules, resolve) ==
    /\ Fires(rules, resolve, "EXCLUDE") = {}
    /\ Whitelist(rules) => Fires(rules, resolve, "INCLUDE_ONLY") # {}

\* Of the rules in S, the last one of each spelling of a column.
LastSpelled(rules, S) ==
    {i \in S : \A j \in S : Trim(rules[j].column) = Trim(rules[i].column) => j <= i}

PromisedSet(rules, resolve) ==
    LET sets == {i \in Fires(rules, resolve, "USE_MAPPING_SET") : rules[i].set # None}
    IN  IF sets = {} THEN None ELSE rules[LastOf(sets)].set
=============================================================================
