------------------------------ MODULE FlagEval ------------------------------
(***************************************************************************)
(* Feature flag evaluation: src/src/flags/eval.rs and validate.rs.         *)
(*                                                                         *)
(* A person is what evaluation reads of it: the hash of its bucketing id   *)
(* with salt "" and with salt "variant", and one stored property.  The     *)
(* owner of the flag edits a validated definition step by step.            *)
(*                                                                         *)
(* Percentages and fractions are f64.  Both are points of one scale, with  *)
(* 100% and 1.0 at Scale, fine enough that every f64 concerned is a point; *)
(* Percent and Fraction are the roundings to the f64 of each kind.         *)
(***************************************************************************)
EXTENDS Integers, Sequences, FiniteSets

CONSTANTS
    Scale,          \* 100 percent, and 1.0
    Percent,        \* the f64 that a sum of percentages rounds to
    Fraction,       \* the f64 that a quotient or a sum of fractions rounds to
    Rounding,       \* the most that either rounds off
    Epsilon,        \* VARIANT_SUM_EPSILON
    Variants,       \* variant keys
    MaxVariants,    \* MAX_VARIANTS
    MaxGroups,      \* MAX_GROUPS
    Hashes,         \* bound: the hashes people have
    Rollouts,       \* bound: the rollout percentages condition sets are given
    VariantLists,   \* bound: the variant lists a flag is given
    Filters,        \* bound: the property filters a condition set is given
    NoValue         \* an absent option

\* The numbers that MaxVariants percentages, or their fractions, may add up to.
Sums == 0..(MaxVariants * (Scale + 2 * Rounding))

\* What IEEE 754 says of a rounding: it errs by a bounded amount, keeps the order,
\* and leaves 0 and what is rounded already as they are.
Rounds(F) ==
    /\ F \in [Sums -> Nat] /\ F[0] = 0
    /\ \A x \in Sums : x - Rounding <= F[x] /\ F[x] <= x + Rounding
    /\ \A x, y \in Sums : x <= y => F[x] <= F[y]
    /\ \A x \in Sums : F[x] \in Sums => F[F[x]] = F[x]

\* The hashes a person may have: fractions, from 0.0 to 1.0.
Places == {x \in 0..Scale : Fraction[x] = x}

\* "on" and "off" stand for the two JSON Booleans, which are no variant's key.
ASSUME EvalAssumption ==
    /\ {Scale, Rounding, Epsilon} \subseteq Nat /\ MaxVariants \in Nat \ {0}
    /\ Rounds(Percent) /\ Rounds(Fraction)
    /\ Hashes \subseteq Places /\ Rollouts \subseteq 0..Scale
    /\ VariantLists \subseteq Seq([key : Variants, rollout : 0..Scale])
    /\ {"on", "off", NoValue} \cap Variants = {}

VARIABLE fdef    \* the flag definition

evalVars == <<fdef>>

People == [roll : Hashes, pick : Hashes, prop : {"missing", "null", "x", "y"}]
Operators == {"is_set", "is_not_set", "exact", "is_not", "icontains", "not_icontains"}

-----------------------------------------------------------------------------
(* Evaluation.                                                              *)

\* match_property with the filter value "x": a missing property matches
\* is_not_set alone, null takes part in exact and is_not only.  The regex, order and
\* date operators are like icontains: a yes or no of a value, and no for null.
match_property(operator, prop) ==
    CASE prop = "missing" -> operator = "is_not_set"
      [] prop = "null" -> operator \in {"is_set", "is_not"}
      [] prop = "x" -> operator \in {"is_set", "exact", "icontains"}
      [] prop = "y" -> operator \in {"is_set", "is_not", "not_icontains"}

match_group(group, p) ==
    IF \E f \in group.properties : ~match_property(f, p.prop) THEN "NoMatch"
    ELSE IF group.rollout # NoValue /\ p.roll > Fraction[group.rollout] THEN "OutOfRollout" ELSE "Match"

\* Where the range of the n-th variant begins, rounded at every division and sum.
RangeStart(variants) ==
    LET start[n \in 1..(Len(variants) + 1)] ==
            IF n = 1 THEN 0 ELSE Fraction[start[n - 1] + Fraction[variants[n - 1].rollout]]
    IN start

\* The running sum that validation compares with 100%, rounded at every step.
PercentSum(variants) ==
    LET sum[n \in 1..(Len(variants) + 1)] ==
            IF n = 1 THEN 0 ELSE Percent[sum[n - 1] + variants[n - 1].rollout]
    IN sum

\* (InclusiveRanges: value <= value_max.)
InclusiveRanges(def, p) ==
    LET start == RangeStart(def.variants)
        hit == {n \in 1..Len(def.variants) : start[n] <= p.pick /\ p.pick <= start[n + 1]}
    IN IF hit = {} THEN NoValue ELSE def.variants[CHOOSE n \in hit : \A m \in hit : m <= n].key

\* Cumulative ranges [min, max), the first that holds the value.
matching_variant(def, p) ==
    LET start == RangeStart(def.variants)
        hit == {n \in 1..Len(def.variants) : start[n] <= p.pick /\ p.pick < start[n + 1]}
    IN IF hit = {} THEN NoValue ELSE def.variants[CHOOSE n \in hit : \A m \in hit : n <= m].key

has_variant(def, key) == \E n \in 1..Len(def.variants) : def.variants[n].key = key

Matching(def, p) == {n \in 1..Len(def.groups) : match_group(def.groups[n], p) = "Match"}

\* (LastGroup: a later group overrules an earlier one.)
LastGroup(def, p) == CHOOSE n \in Matching(def, p) : \A m \in Matching(def, p) : n >= m
FirstGroup(def, p) == CHOOSE n \in Matching(def, p) : \A m \in Matching(def, p) : n <= m

FlagOff(reason) == [enabled |-> FALSE, variant |-> NoValue, payload |-> NoValue, reason |-> reason]

\* The payload of a flag is that of its variant, or of "true".
On(def, variant) ==
    LET key == IF variant = NoValue THEN "true" ELSE variant
    IN [enabled |-> TRUE, variant |-> variant, reason |-> "condition_match",
        payload |-> IF key \in def.payloads THEN key ELSE NoValue]

evaluate(def, p) ==
    IF ~def.active THEN FlagOff("disabled")
    ELSE IF Matching(def, p) # {}
    THEN LET group == def.groups[FirstGroup(def, p)]
         IN On(def, IF group.variant # NoValue /\ has_variant(def, group.variant)
                    THEN group.variant ELSE matching_variant(def, p))
    ELSE FlagOff(IF \E n \in 1..Len(def.groups) : match_group(def.groups[n], p) = "OutOfRollout"
             THEN "out_of_rollout_bound" ELSE "no_condition_match")

\* (FirstGroupReads: only the first condition set is looked at.)
FirstGroupReads(def) == def.groups # <<>> /\ def.groups[1].properties # {}
reads_properties(def) == \E n \in 1..Len(def.groups) : def.groups[n].properties # {}

\* The stored person is looked up only if a selected flag needs it.
needs_person(def) == def.active /\ reads_properties(def)

\* validate_filters, of what a definition of this model can violate.
validate_filters(def) ==
    /\ Len(def.groups) <= MaxGroups
    /\ \A n \in 1..Len(def.groups) :
          def.groups[n].variant # NoValue => has_variant(def, def.groups[n].variant)
    /\ \A key \in def.payloads : IF def.variants = <<>> THEN key = "true" ELSE has_variant(def, key)
    /\ def.variants # <<>> =>
          /\ Len(def.variants) <= MaxVariants
          /\ PercentSum(def.variants)[Len(def.variants) + 1] \in (Scale - Epsilon)..(Scale + Epsilon)
          /\ \A n, m \in 1..Len(def.variants) :
                def.variants[n].key = def.variants[m].key => n = m

-----------------------------------------------------------------------------
(* /flags and /decide: one flag, selected or not, in the shape a version gets. *)

\* Shape::select: an unreadable or missing v is 0.
select(endpoint, v) ==
    IF endpoint = "flags" THEN IF v >= 2 THEN "Detailed" ELSE "Legacy"
    ELSE CASE v <= 1 -> "DecideList" [] v = 2 -> "DecideMap" [] v = 3 -> "Legacy" [] v >= 4 -> "Detailed"

\* The string of the variant, or a Boolean ("on" and "off").
flag_value(e) == IF e.enabled /\ e.variant # NoValue THEN e.variant
                 ELSE IF e.enabled THEN "on" ELSE "off"

\* What an SDK reads: is the flag listed, its value, its payload.  (ListAll: /decide
\* v1 lists every evaluated flag.)
ListAll(shape, e) ==
    [listed |-> TRUE, value |-> IF shape = "DecideList" THEN "on" ELSE flag_value(e),
     payload |-> IF shape \in {"Detailed", "Legacy"} /\ e.enabled THEN e.payload ELSE NoValue]

render(shape, e) ==
    [listed |-> shape = "DecideList" => e.enabled,
     value |-> IF shape = "DecideList" THEN "on" ELSE flag_value(e),
     payload |-> IF shape \in {"Detailed", "Legacy"} /\ e.enabled THEN e.payload ELSE NoValue]

Absent == [listed |-> FALSE, value |-> "on", payload |-> NoValue]

\* An inactive flag, or one the request does not name, is not in the answer.  The
\* properties of the person are those stored, if needed, under those of the request.
evaluate_wire(def, p, stored, shape, named) ==
    IF def.active /\ named
    THEN render(shape,
                evaluate(def, [p EXCEPT !.prop = IF p.prop = "missing" /\ needs_person(def) THEN stored ELSE @]))
    ELSE Absent

-----------------------------------------------------------------------------
(* The operator edits the flag; what does not validate is refused.          *)

Edit(def) == validate_filters(def) /\ fdef' = def

RaiseRollout(n, r) ==
    /\ n \in 1..Len(fdef.groups) /\ fdef.groups[n].rollout # NoValue /\ r > fdef.groups[n].rollout
    /\ Edit([fdef EXCEPT !.groups[n].rollout = r])

AppendGroup(f, r, v) ==
    /\ Edit([fdef EXCEPT !.groups = Append(@, [properties |-> f, rollout |-> r, variant |-> v])])

SetVariants(vs) == fdef.variants # vs /\ Edit([fdef EXCEPT !.variants = vs])
SetPayloads(ks) == fdef.payloads # ks /\ Edit([fdef EXCEPT !.payloads = ks])
SetActive == Edit([fdef EXCEPT !.active = ~@])

-----------------------------------------------------------------------------
EvalInit ==
    fdef = [active |-> TRUE, groups |-> <<>>, variants |-> <<>>, payloads |-> {}]

EvalNext ==
    \/ SetActive
    \/ \E n \in 1..MaxGroups, r \in Rollouts : RaiseRollout(n, r)
    \/ \E f \in Filters, r \in Rollouts \cup {NoValue}, v \in Variants \cup {NoValue} : AppendGroup(f, r, v)
    \/ \E vs \in VariantLists : SetVariants(vs)
    \/ \E key \in Variants \cup {"true"} : SetPayloads({key}) \/ SetPayloads({})

-----------------------------------------------------------------------------
(* Properties.                                                              *)

\* Where the range of the n-th variant begins if nothing is rounded.
ExactStart(variants) ==
    LET start[n \in 1..(Len(variants) + 1)] ==
            IF n = 1 THEN 0 ELSE start[n - 1] + variants[n - 1].rollout
    IN start

\* The variant of a person with this hash.
Given(x) == matching_variant(fdef, [roll |-> 0, pick |-> x, prop |-> "missing"])

\* The variants of a validated flag share out the scale from 0 without a hole, up to
\* an end that lies below 100% by no more than the slack of validation and the
\* roundings; nobody at or above the end has a variant; and a person whose hash is
\* farther from the borders of a variant's exact range than the roundings add up to
\* gets that variant.
VariantsPartition ==
    LET vs == fdef.variants
        end == RangeStart(vs)[Len(vs) + 1]
        exact == ExactStart(vs)
    IN /\ vs # <<>> => Scale <= end + Epsilon + 3 * Len(vs) * Rounding
       /\ \A x \in Places : Given(x) = NoValue <=> x >= end
       /\ \A n \in 1..Len(vs), x \in Places :
             exact[n] + 2 * (n - 1) * Rounding <= x /\ x < exact[n + 1] - 2 * n * Rounding
                => Given(x) = vs[n].key

\* Everybody below 100% has a variant (feature-flags.md, "A person who matches a
\* condition gets one variant").  The percentages may add up to less than 100, and
\* rounded fractions to less than 1.0 even where the percentages are exact.
EverybodyGetsVariant ==
    fdef.variants # <<>> => \A x \in Places \ {Scale} : Given(x) # NoValue

\* Raising a rollout or adding a condition set turns the flag off for nobody, and
\* an added condition set leaves everybody who had a value with the same variant
\* (bucketing is the hash, and the first matching group decides).
AddStep ==
    (\/ \E n \in 1..MaxGroups, r \in Rollouts : RaiseRollout(n, r)
     \/ Len(fdef'.groups) > Len(fdef.groups)) =>
        \A p \in People : evaluate(fdef, p).enabled =>
            /\ evaluate(fdef', p).enabled
            /\ Len(fdef'.groups) > Len(fdef.groups) =>
                   evaluate(fdef', p).variant = evaluate(fdef, p).variant
RolloutOnlyAdds == [][AddStep]_evalVars

\* An answer a says of the flag what the evaluation e does.
Agrees(e, a) ==
    /\ e.enabled = (a.listed /\ a.value # "off")
    /\ a.payload # NoValue => a.payload = (IF a.value = "on" THEN "true" ELSE a.value)

\* The person with the stored property where the request brings none.
Completed(p, stored) == [p EXCEPT !.prop = IF @ = "missing" THEN stored ELSE @]

\* The answer to an SDK that asks for the flag.
WireAnswer(p, stored, shape) == evaluate_wire(fdef, p, stored, shape, TRUE)

\* Whatever endpoint and version an SDK speaks, the flag is on for the same people,
\* with the payload of the value they got; and skipping the person store when no
\* filter reads a property changes no answer.
WireAnswersAgree ==
    \A p \in {q \in People : q.prop \in {"missing", "x"}}, stored \in {"missing", "y"} :
        \A shape \in {select(endpoint, v) : endpoint \in {"flags", "decide"}, v \in 0..4} :
            Agrees(evaluate(fdef, Completed(p, stored)), WireAnswer(p, stored, shape))

=============================================================================
