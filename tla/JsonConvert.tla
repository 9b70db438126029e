----------------------------- MODULE JsonConvert ------------------------------
(***************************************************************************)
(* The conversions and the type questions of Json::Value: asX, isX and      *)
(* isConvertibleTo (json_value.cpp).  Integers have two widths, Int and     *)
(* Int64, and a double a mantissa between them, so that the largest Int64   *)
(* is not a double.  A double is given in halves: n stands for n / 2.       *)
(***************************************************************************)
EXTENDS Integers, FiniteSets

CONSTANTS
    IntBits, Int64Bits,     \* widths of Int and Int64
    MantissaBits,           \* of a double
    MaxHalves               \* bound: doubles up to MaxHalves / 2

Lowest(t) == CASE t = "Int" -> -2^(IntBits - 1) [] t = "Int64" -> -2^(Int64Bits - 1) [] OTHER -> 0
Highest(t) == CASE t = "Int" -> 2^(IntBits - 1) - 1 [] t = "UInt" -> 2^IntBits - 1
                [] t = "Int64" -> 2^(Int64Bits - 1) - 1 [] t = "UInt64" -> 2^Int64Bits - 1
Integers == {"Int", "UInt", "Int64", "UInt64"}

------------------------------------------------------------------------------
(* Doubles *)

Abs(k) == IF k < 0 THEN -k ELSE k

\* Rounding to the nearest double, ties to even.
Rounded(k) ==
    LET e == CHOOSE e \in 0..Int64Bits :
                /\ Abs(k) < 2^(MantissaBits + e)
                /\ e > 0 => Abs(k) >= 2^(MantissaBits + e - 1)
        q == Abs(k) \div 2^e
        r == 2 * (Abs(k) % 2^e)
        up == r > 2^e \/ (r = 2^e /\ q % 2 = 1)
    IN  (IF k < 0 THEN -1 ELSE 1) * (IF up THEN q + 1 ELSE q) * 2^e

\* static_cast<double>(n), in halves
Double(n) == Rounded(2 * n)

Doubles == {k \in -MaxHalves..MaxHalves : Rounded(k) = k}

Truncated(d) == IF d < 0 THEN -((-d) \div 2) ELSE d \div 2

IsIntegral(d) == d % 2 = 0

\* InRange(d, min, max): "we are looking only for an approximate range"
InRange_Strict(d, t) == Double(Lowest(t)) < d /\ d < Double(Highest(t))

InRange(d, t) == Double(Lowest(t)) <= d /\ d <= Double(Highest(t))

------------------------------------------------------------------------------
(* Values: a type and a number, which for strings and containers is 0 if empty *)

Of(type, numbers) == {[type |-> type, n |-> n] : n \in numbers}

AllValues ==
    UNION {Of("null", {0}), Of("bool", {0, 1}), Of("int", Lowest("Int64")..Highest("Int64")),
           Of("uint", 0..Highest("UInt64")), Of("real", Doubles),
           Of("string", {0, 1}), Of("array", {0, 1}), Of("object", {0, 1})}

IsNumeric(v) == v.type \in {"int", "uint", "real"}

\* isInt, isUInt, isInt64 and isUInt64: for the wide types a double must be strictly
\* less than the limit, which is rounded up.
Is(t, v) ==
    \/ v.type \in {"int", "uint"} /\ Lowest(t) <= v.n /\ v.n <= Highest(t)
    \/ /\ v.type = "real" /\ IsIntegral(v.n) /\ Double(Lowest(t)) <= v.n
       /\ IF t \in {"Int64", "UInt64"} THEN v.n < Double(Highest(t)) ELSE v.n <= Double(Highest(t))

\* isIntegral
IsAnyIntegral(v) ==
    \/ v.type \in {"int", "uint"}
    \/ /\ v.type = "real" /\ IsIntegral(v.n)
       /\ Double(Lowest("Int64")) <= v.n /\ v.n < Double(Highest("UInt64"))

Returns(n) == [ok |-> TRUE, n |-> n]
Aborts == [ok |-> FALSE, n |-> 0]

\* asInt, asUInt, asInt64 and asUInt64
AsInteger(t, v) ==
    CASE v.type \in {"null", "bool"} -> Returns(v.n)
      [] v.type \in {"int", "uint"} -> IF Is(t, v) THEN Returns(v.n) ELSE Aborts
      [] v.type = "real" -> IF InRange(v.n, t) THEN Returns(Truncated(v.n)) ELSE Aborts
      [] OTHER -> Aborts

AsDouble(v) ==
    CASE v.type \in {"null", "bool", "int", "uint"} -> Returns(Double(v.n))
      [] v.type = "real" -> Returns(v.n)
      [] OTHER -> Aborts

AsBool(v) ==
    IF v.type = "null" \/ v.type = "bool" \/ IsNumeric(v)
    THEN Returns(IF v.n # 0 THEN 1 ELSE 0) ELSE Aborts

\* Does asString return?  What it returns is not modelled.
AsString(v) == IF v.type \in {"array", "object"} THEN Aborts ELSE Returns(0)

As(t, v) ==
    CASE t \in Integers -> AsInteger(t, v)
      [] t = "double" -> AsDouble(v)
      [] t = "bool" -> AsBool(v)
      [] t = "string" -> AsString(v)

\* isConvertibleTo, for the types that have an asX
IsConvertibleTo(t, v) ==
    \/ v.type \in {"null", "bool"}
    \/ t \in {"Int", "UInt"} /\ (Is(t, v) \/ (v.type = "real" /\ InRange(v.n, t)))
    \/ t \in {"double", "bool", "string"} /\ IsNumeric(v)
    \/ t = "string" /\ v.type = "string"

------------------------------------------------------------------------------

VARIABLES value, target, outcome

vars == <<value, target, outcome>>

Init == value \in AllValues /\ target = "none" /\ outcome = Aborts

Convert ==
    /\ target = "none"
    /\ \E t \in Integers \cup {"double", "bool", "string"} :
          target' = t /\ outcome' = As(t, value)
    /\ UNCHANGED value

Next == Convert

Spec == Init /\ [][Next]_vars

------------------------------------------------------------------------------
(* Properties *)

\* A Value that is an X by isX converts to X without an abort, and to the same number:
\* isInt64 and isUInt64 exclude the limit that rounding has moved out of the range.
IsThenAs ==
    target \in Integers /\ Is(target, value) =>
        /\ outcome.ok
        /\ IF value.type = "real" THEN 2 * outcome.n = value.n ELSE outcome.n = value.n

\* isConvertibleTo answers what asX does, for Int, UInt, double, bool and string.
ConvertibleAgrees ==
    target \notin {"none", "Int64", "UInt64"} => (IsConvertibleTo(target, value) <=> outcome.ok)

\* A conversion from double that passes its assertion stays in the range of the type,
\* the one limit of asInt64 and asUInt64 aside.
CastInRange ==
    target \in Integers /\ outcome.ok /\ value.n # Double(Highest(target)) =>
        outcome.n \in Lowest(target)..Highest(target)

\* isIntegral holds exactly of the numbers that are an Int64 or a UInt64.
IntegralIsOne == IsAnyIntegral(value) <=> Is("Int64", value) \/ Is("UInt64", value)
==============================================================================
