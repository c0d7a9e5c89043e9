---------------------------- MODULE CanonicalABI ----------------------------
(***************************************************************************)
(* The layout of values in a guest's memory and as core wasm parameters:   *)
(* what wasmtime-environ computes as CanonicalAbiInfo and what the code of *)
(* a guest does, the reference against which the lifts and lowers of       *)
(* Values are checked.  Nothing here is code of the repository.            *)
(*                                                                         *)
(* A type is a record with its kind k.  A value is what a lift gives to    *)
(* JavaScript, a tuple that begins with its sort: <<"number", n>>,         *)
(* <<"variant", tag, payload>>, <<"list", elements>> and so on.  An        *)
(* integer is its two's complement in nine bytes, the lowest first, which  *)
(* has room for every s64 and every u64; a float is its bits.              *)
(***************************************************************************)
EXTENDS Integers, Sequences, FiniteSetsExt, SequencesExt

Unit == [k |-> "unit"]
Scalar(k) == [k |-> k]

Width == [bool |-> 1, u8 |-> 1, s8 |-> 1, u16 |-> 2, s16 |-> 2, u32 |-> 4, s32 |-> 4,
          u64 |-> 8, s64 |-> 8, f32 |-> 4, f64 |-> 8, char |-> 4, own |-> 4]
Signed == {"s8", "s16", "s32", "s64"}
Big == {"u64", "s64"}

ZeroExt(bs) == [i \in 1 .. 9 |-> IF i <= Len(bs) THEN bs[i] ELSE 0]
SignExt(bs) ==
    [i \in 1 .. 9 |-> IF i <= Len(bs) THEN bs[i] ELSE IF Last(bs) > 127 THEN 255 ELSE 0]
Nat9(n) == ZeroExt(<<n % 256, (n \div 256) % 256, (n \div 65536) % 256>>)
IntOf(bs) == bs[1] + 256 * bs[2]

AlignTo(p, a) == ((p + a - 1) \div a) * a
(* Nothing is read from outside of the memory. *)
Bytes(mem, p, w) == [i \in 1 .. w |-> IF p + i - 1 \in DOMAIN mem THEN mem[p + i - 1] ELSE 0]

(* The cases of a variant, an enum, an option or a result. *)
Cases(t) ==
    CASE t.k = "variant" -> t.cs
      [] t.k = "enum" -> [i \in 1 .. t.n |-> <<i, Unit>>]
      [] t.k = "option" -> <<<<"none", Unit>>, <<"some", t.t>>>>
      [] t.k = "result" -> <<<<"ok", t.ok>>, <<"err", t.err>>>>

IsVariant(t) == t.k \in {"variant", "enum", "option", "result"}
IsFields(t) == t.k \in {"record", "tuple"}

DiscSize(n) == IF n <= 255 THEN 1 ELSE IF n <= 65535 THEN 2 ELSE 4
FlagSize(n) == IF n <= 8 THEN 1 ELSE IF n <= 16 THEN 2 ELSE 4

MaxOver(Op(_), s, least) == Max({least} \cup {Op(s[i]) : i \in DOMAIN s})

RECURSIVE Align(_)
Align(t) ==
    CASE t.k = "unit" -> 1
      [] t.k \in DOMAIN Width -> Width[t.k]
      [] t.k \in {"string", "list", "map"} -> 4
      [] t.k = "flags" -> FlagSize(t.n)
      [] t.k = "fixed" -> Align(t.t)
      [] IsFields(t) -> MaxOver(Align, t.ts, 1)
      [] IsVariant(t) -> MaxOver(LAMBDA c : Align(c[2]), Cases(t), DiscSize(Len(Cases(t))))

RECURSIVE Size(_)
FieldsEnd(ts) == FoldLeft(LAMBDA p, f : AlignTo(p, Align(f)) + Size(f), 0, ts)
PayloadOffset(t) ==
    AlignTo(DiscSize(Len(Cases(t))), MaxOver(LAMBDA c : Align(c[2]), Cases(t), 1))
Size(t) ==
    CASE t.k = "unit" -> 0
      [] t.k \in DOMAIN Width -> Width[t.k]
      [] t.k \in {"string", "list", "map"} -> 8
      [] t.k = "flags" -> FlagSize(t.n)
      [] t.k = "fixed" -> t.n * Size(t.t)
      [] IsFields(t) -> AlignTo(FieldsEnd(t.ts), Align(t))
      [] IsVariant(t) ->
            AlignTo(PayloadOffset(t) + MaxOver(LAMBDA c : Size(c[2]), Cases(t), 0), Align(t))

(* Where the i-th field is. *)
Offset(ts, i) == AlignTo(FieldsEnd(SubSeq(ts, 1, i - 1)), Align(ts[i]))
Entry(t) == [k |-> "tuple", ts |-> <<t.key, t.val>>]

-----------------------------------------------------------------------------
(* What a guest finds at address p. *)
RECURSIVE Load(_, _, _)

LoadElems(t, n, mem, p) == [i \in 1 .. n |-> Load(t, mem, p + (i - 1) * Size(t))]

LoadScalar(k, bs) ==
    CASE k \in Big -> <<"bigint", IF k \in Signed THEN SignExt(bs) ELSE ZeroExt(bs)>>
      [] k \in {"f32", "f64"} -> <<"float", bs>>
      [] k = "bool" -> <<"bool", bs # <<0>>>>
      [] k = "own" -> <<"resource", ZeroExt(bs)>>
      [] OTHER -> <<"number", IF k \in Signed THEN SignExt(bs) ELSE ZeroExt(bs)>>

Bit(n, i) == (n \div (2 ^ i)) % 2 = 1

Load(t, mem, p) ==
    LET ptr == IntOf(Bytes(mem, p, 4))
        len == IntOf(Bytes(mem, p + 4, 4))
        disc == IntOf(ZeroExt(Bytes(mem, p, DiscSize(Len(Cases(t))))))
        case == Cases(t)[disc + 1]
        elems(ts) == [i \in DOMAIN ts |-> Load(ts[i], mem, p + Offset(ts, i))]
    IN  CASE t = Unit -> <<"null">>
          [] t.k \in DOMAIN Width -> LoadScalar(t.k, Bytes(mem, p, Width[t.k]))
          [] t.k = "string" -> <<"string", Bytes(mem, ptr, len)>>
          [] IsFields(t) -> <<t.k, elems(t.ts)>>
          [] t.k = "list" -> <<"list", LoadElems(t.t, len, mem, ptr)>>
          [] t.k = "fixed" -> <<"list", LoadElems(t.t, t.n, mem, p)>>
          [] t.k = "map" -> <<"map", [i \in 1 .. len |->
                                 Load(Entry(t), mem, ptr + (i - 1) * Size(Entry(t)))[2]]>>
          [] t.k = "flags" ->
                <<"flags", [i \in 1 .. t.n |->
                      Bit(Bytes(mem, p, 4)[(i - 1) \div 8 + 1], (i - 1) % 8)]>>
          [] IsVariant(t) ->
                IF disc >= Len(Cases(t)) THEN <<"trap">>
                ELSE IF t.k = "enum" THEN <<"enum", case[1]>>
                ELSE IF case[2] = Unit THEN <<"variant", case[1]>>
                ELSE <<"variant", case[1], Load(case[2], mem, p + PayloadOffset(t))>>

-----------------------------------------------------------------------------
(* The core parameters of the value at address p, and their types. *)
MaxFlatParams == 16

Join(S) ==
    IF \E a \in S : S = {a} THEN CHOOSE a \in S : TRUE
    ELSE IF S = {"i32", "f32"} THEN "i32" ELSE "i64"
JoinAll(F) ==
    [i \in 1 .. Max({Len(f) : f \in F}) |-> Join({f[i] : f \in {g \in F : i <= Len(g)}})]

RECURSIVE FlatTypes(_)
FlatTypes(t) ==
    CASE t.k = "unit" -> <<>>
      [] t.k \in Big -> <<"i64">>
      [] t.k \in {"f32", "f64"} -> <<t.k>>
      [] t.k \in {"string", "list", "map"} -> <<"i32", "i32">>
      [] t.k = "fixed" -> FlattenSeq([i \in 1 .. t.n |-> FlatTypes(t.t)])
      [] IsFields(t) -> FlattenSeq([i \in DOMAIN t.ts |-> FlatTypes(t.ts[i])])
      [] IsVariant(t) ->
            <<"i32">> \o JoinAll({FlatTypes(Cases(t)[i][2]) : i \in DOMAIN Cases(t)})
      [] OTHER -> <<"i32">>

(* A core value as JavaScript sees it, an integer parameter being signed, in *)
(* the position of a variant where its type has been joined to want.         *)
CoreInt(want, bs) ==
    IF want = "i64" THEN <<"bigint", SignExt(SubSeq(ZeroExt(bs), 1, 8))>>
    ELSE <<"number", SignExt(SubSeq(ZeroExt(bs), 1, 4))>>
Core(want, ty, bs) == IF want = ty /\ ty \in {"f32", "f64"} THEN <<"float", bs>> ELSE CoreInt(want, bs)

(* The flat values, as pairs of a core type and its bytes. *)
RECURSIVE Flat(_, _, _)
Flat(t, mem, p) ==
    LET fields(ts) == FlattenSeq([i \in DOMAIN ts |-> Flat(ts[i], mem, p + Offset(ts, i))])
        disc == Bytes(mem, p, DiscSize(Len(Cases(t))))
        case == Cases(t)[IntOf(ZeroExt(disc)) + 1]
        pay == Flat(case[2], mem, p + PayloadOffset(t))
        joined == Tail(FlatTypes(t))
        ext(k) == IF k \in Signed THEN SubSeq(SignExt(Bytes(mem, p, Width[k])), 1, 4)
                  ELSE SubSeq(ZeroExt(Bytes(mem, p, Width[k])), 1, 4)
    IN  CASE t.k = "unit" -> <<>>
          [] t.k \in Big -> <<<<"i64", Bytes(mem, p, 8)>>>>
          [] t.k \in {"f32", "f64"} -> <<<<t.k, Bytes(mem, p, Width[t.k])>>>>
          [] t.k \in DOMAIN Width -> <<<<"i32", ext(t.k)>>>>
          [] t.k \in {"string", "list", "map"} ->
                <<<<"i32", Bytes(mem, p, 4)>>, <<"i32", Bytes(mem, p + 4, 4)>>>>
          [] t.k = "flags" -> <<<<"i32", Bytes(mem, p, FlagSize(t.n))>>>>
          [] t.k = "fixed" -> fields([i \in 1 .. t.n |-> t.t])
          [] IsFields(t) -> fields(t.ts)
          [] IsVariant(t) ->
                <<<<"i32", disc>>>> \o
                [i \in 1 .. Len(joined) |->
                    IF i > Len(pay) THEN <<joined[i], <<0>>>>
                    ELSE IF pay[i][1] = joined[i] THEN pay[i]
                    ELSE <<joined[i], pay[i][2]>>]

(* What the guest passes for it: its flat values, or its address when there  *)
(* are more than the canonical ABI passes.                                   *)
Params(t, mem, p) ==
    IF Len(FlatTypes(t)) > MaxFlatParams THEN <<CoreInt("i32", Nat9(p))>>
    ELSE [i \in DOMAIN FlatTypes(t) |->
             LET f == Flat(t, mem, p)[i] IN Core(FlatTypes(t)[i], f[1], f[2])]
=============================================================================
