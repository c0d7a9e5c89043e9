------------------------------ MODULE MCValues ------------------------------
EXTENDS Values

Tuple(ts) == [k |-> "tuple", ts |-> ts]
Record(ts) == [k |-> "record", ts |-> ts]
Option(t) == [k |-> "option", t |-> t]
Result(a, b) == [k |-> "result", ok |-> a, err |-> b]
Variant(cs) == [k |-> "variant", cs |-> cs]
List(t) == [k |-> "list", t |-> t]
Fixed(t, n) == [k |-> "fixed", t |-> t, n |-> n]
Map(a, b) == [k |-> "map", key |-> a, val |-> b]
Enum(n) == [k |-> "enum", n |-> n]
Flags(n) == [k |-> "flags", n |-> n]
u8 == Scalar("u8")
s8 == Scalar("s8")
u16 == Scalar("u16")
u32 == Scalar("u32")
s32 == Scalar("s32")
u64 == Scalar("u64")
f32 == Scalar("f32")
f64 == Scalar("f64")
bool == Scalar("bool")
char == Scalar("char")
own == [k |-> "own", instance |-> GuestA]
string == Scalar("string")

(* The largest value and an asymmetric one; a u32 or u64 parameter with its *)
(* highest bit set is lifted as a negative number. *)
Patterns(k) ==
    {[i \in 1 .. Width[k] |-> i],
     [i \in 1 .. Width[k] |-> IF k \in {"u32", "u64", "own"} /\ i = Width[k] THEN 127 ELSE 255]}

(* The values tried of each type: the extremes, an asymmetric pattern, short *)
(* and empty lists, every case. *)
RECURSIVE MCSamples(_)
MCSamples(t) ==
    LET fields(ts) == FoldLeft(LAMBDA acc, u : {Append(s, x) : s \in acc, x \in MCSamples(u)}, {<<>>}, ts)
        some(u) == CHOOSE x \in MCSamples(u) : TRUE
        other(u, a) == CHOOSE x \in MCSamples(u) : x # a
    IN  CASE t = Unit -> {Null}
          [] t.k = "bool" -> {<<"bool", TRUE>>, <<"bool", FALSE>>}
          [] t.k \in DOMAIN Width -> {LoadScalar(t.k, bs) : bs \in Patterns(t.k)}
          [] t.k = "string" -> {<<"string", <<>>>>, <<"string", <<104, 105, 33>>>>}
          [] IsFields(t) -> {<<t.k, vs>> : vs \in fields(t.ts)}
          [] t.k = "list" -> {<<"list", <<>>>>} \cup {<<"list", <<x, some(t.t)>>>> : x \in MCSamples(t.t)}
          [] t.k = "fixed" -> {<<"list", [i \in 1 .. t.n |-> IF i = 1 THEN x ELSE some(t.t)]>> : x \in MCSamples(t.t)}
          [] t.k = "map" -> {<<"map", <<>>>>} \cup
                {<<"map", <<<<a, b>>, <<other(t.key, a), some(t.val)>>>>>> :
                     a \in MCSamples(t.key), b \in MCSamples(t.val)}
          [] t.k = "flags" -> {<<"flags", [i \in 1 .. t.n |-> i % m = 0]>> : m \in {1, 3}}
          [] t.k = "enum" -> {<<"enum", 1>>, <<"enum", t.n>>}
          [] IsVariant(t) ->
                UNION {LET c == Cases(t)[i]
                       IN  IF c[2] = Unit THEN {<<"variant", c[1]>>}
                           ELSE {<<"variant", c[1], x>> : x \in MCSamples(c[2])} : i \in DOMAIN Cases(t)}

(* What task.return does not give to the caller.                             *)
(* The first parameter of a case is made a number if it is a bigint, which   *)
(* the lift of a u64 then refuses, or refused itself above 2^53 - 1.         *)
BigPayloads == <<Option(u64), Result(Scalar("s64"), Unit), Variant(<<<<"a", u32>>, <<"b", u64>>>>)>>
(* A float that was not joined to an integer is taken for its bits.          *)
FloatPayloads == <<Option(f32), Option(f64)>>
(* Joined to an i64, a negative s32 becomes a positive number, and what      *)
(* follows the first parameter remains a bigint.                             *)
JoinedPayloads ==
    <<Variant(<<<<"a", s32>>, <<"b", f64>>>>),
      Variant(<<<<"a", Tuple(<<string, string>>)>>, <<"b", Tuple(<<u64, u64>>)>>>>)>>
(* The elements of a fixed list are the parameters, not lifted.              *)
RawElements == <<Fixed(bool, 2), Fixed(string, 2), Fixed(own, 2), Fixed(Tuple(<<u8, u16>>), 2)>>
(* Sixteen flat values are taken for too many, and more for none, so that    *)
(* the address of the value is lifted as the value.                          *)
ManyValues == <<Fixed(u8, 16), Tuple(<<Fixed(u8, 15), u8>>), Fixed(u8, 17)>>
(* The metadata of an enum has a payload offset in place of a flat count.    *)
LargeEnums == <<Enum(256)>>

NotReturned ==
    BigPayloads \o FloatPayloads \o JoinedPayloads \o RawElements \o ManyValues \o LargeEnums
MCReturned(t) == t # Unit /\ t \notin Range(NotReturned)

Always(t) == TRUE
Never(t) == FALSE

(* What a second guest does not get.  The lift of none, and that of an error *)
(* without a payload, has no val: the lower takes it for a payload.          *)
LosesTag(t) == t.k = "option" \/ (t.k = "result" /\ t.err = Unit)
(* The metadata of a stream names the table of resources of the first guest. *)
NamesTable(t) == t.k = "own"

RECURSIVE MCCopied(_)
MCCopied(t) ==
    /\ ~LosesTag(t) /\ ~NamesTable(t)
    /\ t.k \in {"list", "fixed"} => MCCopied(t.t)
    /\ t.k = "map" => MCCopied(t.val)
    /\ IsFields(t) => \A i \in DOMAIN t.ts : MCCopied(t.ts[i])
    /\ IsVariant(t) => \A i \in DOMAIN Cases(t) : MCCopied(Cases(t)[i][2])

NotCopied == <<Option(u32), Option(string), Result(u8, Unit), own>>

Shapes == <<
    bool, u8, s8, u16, Scalar("s16"), u32, s32, u64, Scalar("s64"), f32, f64, own, string, char, Unit,
    Tuple(<<u8, string, u8>>),
    Record(<<List(u8), u16, List(u16)>>),
    Tuple(<<u8, Tuple(<<u16, u8>>), u32>>),
    Tuple(<<bool, u64, f32>>),
    Option(u32), Option(string), Option(Option(u8)), Tuple(<<Option(u16), u8>>),
    Result(u8, u16), Result(u32, Tuple(<<u8, u8>>)),
    Variant(<<<<"a", Unit>>, <<"b", u32>>, <<"c", Tuple(<<u8, u16>>)>>>>),
    Enum(3), Tuple(<<Enum(3), u32>>),
    List(u32), List(string), List(Tuple(<<u8, u16>>)), List(Option(u8)), List(List(u8)),
    List(Tuple(<<string, u16>>)), List(Result(u8, u16)),
    List(Result(u8, string)), Tuple(<<Result(u8, string), u8>>), Fixed(u8, 15),
    Fixed(u16, 2), Tuple(<<u8, Fixed(u16, 2), u8>>), List(Fixed(u8, 3)),
    Fixed(s8, 2), Fixed(u64, 2), Fixed(f32, 2),
    Result(u8, Unit), Result(Unit, u8), Result(Unit, Unit), List(Result(Unit, u16)),
    Variant(<<<<"a", u32>>, <<"b", f64>>>>), Variant(<<<<"a", f32>>, <<"b", f64>>>>),
    Variant(<<<<"a", f32>>, <<"b", u32>>>>), Variant(<<<<"a", string>>, <<"b", f64>>>>),
    Result(Option(u32), f64), Option(Tuple(<<u8, u64>>)), Tuple(<<Option(u8), f32, f64>>),
    Option(own), Variant(<<<<"a", own>>, <<"b", Unit>>>>), List(own), Tuple(<<u8, own>>),
    Map(u8, u32), Map(string, Option(u16)),
    Flags(3), Flags(12), Flags(20), Tuple(<<u8, Flags(12)>>),
    Record(<<u8, char>>)
>> \o NotReturned

(* A case whose payload ends far before the end of the variant. *)
UnevenShapes == <<Result(u8, string), Variant(<<<<"a", u8>>, <<"b", Tuple(<<u32, u32>>)>>>>)>>
=============================================================================
