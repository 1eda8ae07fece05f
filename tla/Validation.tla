------------------------------ MODULE Validation ------------------------------
(***************************************************************************)
(* app/validation: the predicates that every check of the service is built  *)
(* from.  A value is one of a few classes: "zero" is what Go's zero value   *)
(* of the field's type is (the empty string, 0, a nil pointer), which is    *)
(* also what a getter of generated code returns for a field of a nil        *)
(* message.                                                                 *)
(***************************************************************************)
EXTENDS Integers

TextValue   == {"good", "zero", "blank"}     \* "blank": spaces only
NumberValue == {"good", "zero", "negative"}
PartValue   == {"good", "zero"}              \* a nested message, or nil

(* The instants the checks tell apart, in this order.  A nil timestamp reads *)
(* as the epoch, and the year 1 is the zero value of time.Time.              *)
Instant   == {"year1", "epoch", "now", "due"}
TimeValue == Instant \cup {"zero"}

Rank      == [year1 |-> 1, epoch |-> 2, now |-> 3, due |-> 4]
AsTime(t) == IF t = "zero" THEN "epoch" ELSE t

(* Slip: a string is compared without TrimSpace. *)
NotEmpty(v) == v # "zero"

NotBlank(v)      == v \notin {"zero", "blank"}
NotNil(v)        == v # "zero"
NotZeroValue(v)  == v # "zero"
PositiveValue(v) == v = "good"

(* reflect.Value.IsZero of a time.Time in UTC. *)
NotZeroTime(t)      == t # "year1"
ValidPrecedence(s, e) == Rank[s] < Rank[e]

(* Validate runs every step and joins what they find: the fields at fault.   *)
Violations(value, notBlank, notNil, positive) ==
    {f \in notBlank : ~NotBlank(value[f])}
        \cup {f \in notNil : ~NotNil(value[f])}
        \cup {f \in positive : ~PositiveValue(value[f])}
==============================================================================
