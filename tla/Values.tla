------------------------------- MODULE Values -------------------------------
(***************************************************************************)
(* How values cross between JavaScript and a guest: the lowers and lifts   *)
(* of lower.rs and lift.rs, with the metadata transpile_bindgen.rs passes  *)
(* to them.  A run takes values of one type along the ways they go: the    *)
(* host writes them into the buffer of a guest, the buffer is read back,   *)
(* as the write of a guest is, what was read is written into the buffer of *)
(* another guest, or the guest returns the value as the parameters of      *)
(* task.return.  CanonicalABI says what a guest finds in its memory.       *)
(*                                                                         *)
(*   ty, vals  the type and the values                                     *)
(*   stage     how far they are                                            *)
(*   memA      the memory of the first guest, topA the end of what realloc *)
(*             has given out in it                                         *)
(*   js        what was lifted; rest, the parameters left after task.return*)
(*   memB      the memory of the second guest                              *)
(***************************************************************************)
EXTENDS CanonicalABI

CONSTANTS
    Types,      \* a sequence of types
    Samples(_), \* the values of a type that are tried
    Returned(_), \* the types a guest may return
    Copied(_),   \* the types whose values may go to a second guest
    MaxVals,    \* bound: values in a buffer
    Start,      \* where the buffers are
    Heap,       \* where realloc begins
    MemSize     \* bound: bytes of memory

ASSUME ValuesAssumption ==
    /\ {MaxVals, Start, Heap, MemSize} \subseteq Nat
    /\ Start % 8 = 0 /\ Start < Heap /\ Heap < MemSize

VARIABLES ty, vals, stage, memA, topA, js, rest, memB

vars == <<ty, vals, stage, memA, topA, js, rest, memB>>

(* Memory is never zeroed: padding holds whatever was there. *)
Stale == 170
Fresh == [a \in 0 .. MemSize - 1 |-> Stale]

(* The types are those that guest A has for the values. *)
GuestA == "A"
GuestB == "B"

Null == <<"null">>
Max2(a, b) == IF a > b THEN a ELSE b

-----------------------------------------------------------------------------
(* Metadata, for the lifts and for the lowers. *)

Field(t) == [t |-> t, size |-> Size(t), align |-> Align(t)]
FieldMetas(ts) == [i \in DOMAIN ts |-> Field(ts[i])]

(* flat_count_js_expr: null when there are more flat values than parameters. *)
NoCount == -1
FlatCount(t) == IF Len(FlatTypes(t)) <= MaxFlatParams THEN Len(FlatTypes(t)) ELSE NoCount

(* The component whose table of resources an own type names. *)
OwnMeta(t) == [component |-> t.instance]

CaseMeta(tag, t, count) == [tag |-> tag, t |-> t, count |-> count]
CasesMeta(t, cases, isEnum) ==
    [cases |-> cases, size |-> Size(t), align |-> Align(t), offset |-> PayloadOffset(t),
     count |-> FlatCount(t), isEnum |-> isEnum]

LiftRecordMeta(t) == [fields |-> FieldMetas(t.ts), size |-> Size(t), align |-> Align(t)]
LiftTupleMeta(t) == [fields |-> FieldMetas(t.ts), size |-> Size(t), align |-> Align(t)]
LiftVariantMeta(t) ==
    CasesMeta(t, [i \in DOMAIN t.cs |-> CaseMeta(t.cs[i][1], t.cs[i][2], FlatCount(t.cs[i][2]))], FALSE)
(* An enum's cases have its payload offset for a flat count. *)
LiftEnumMeta(t) ==
    CasesMeta(t, [i \in 1 .. t.n |-> CaseMeta(i, Unit, PayloadOffset(t))], TRUE)
LiftOptionMeta(t) ==
    CasesMeta(t, <<CaseMeta("none", Unit, 0), CaseMeta("some", t.t, FlatCount(t.t))>>, FALSE)
LiftResultMeta(t) ==
    CasesMeta(t, <<CaseMeta("ok", t.ok, FlatCount(t.ok)), CaseMeta("err", t.err, FlatCount(t.err))>>, FALSE)
LiftListMeta(t) == [elem |-> Field(t.t), known |-> NoCount]
LiftFixedMeta(t) == [elem |-> Field(t.t), known |-> t.n]
IntSizeBytes(n) == IF n <= 8 THEN 1 ELSE IF n <= 16 THEN 2 ELSE 4
LiftFlagsMeta(t) == [n |-> t.n, align |-> Align(t), int |-> IntSizeBytes(t.n)]
MapMeta(t) == [key |-> t.key, val |-> t.val, size |-> Size(Entry(t)), align |-> Align(Entry(t)),
               offset |-> Offset(Entry(t).ts, 2)]
LiftMapMeta(t) == MapMeta(t)

LowerRecordMeta(t) == [fields |-> FieldMetas(t.ts), size |-> Size(t), align |-> Align(t)]
LowerTupleMeta(t) == [fields |-> FieldMetas(t.ts), size |-> Size(t), align |-> Align(t)]
LowerVariantMeta(t) ==
    CasesMeta(t, [i \in DOMAIN t.cs |-> CaseMeta(t.cs[i][1], t.cs[i][2], FlatCount(t.cs[i][2]))], FALSE)
LowerEnumMeta(t) == CasesMeta(t, [i \in 1 .. t.n |-> CaseMeta(i, Unit, PayloadOffset(t))], FALSE)
LowerOptionMeta(t) ==
    CasesMeta(t, <<CaseMeta("none", Unit, 0), CaseMeta("some", t.t, FlatCount(t.t))>>, FALSE)
(* A result's cases have its payload offset for a flat count, which no lower reads. *)
LowerResultMeta(t) ==
    CasesMeta(t, <<CaseMeta("ok", t.ok, PayloadOffset(t)), CaseMeta("err", t.err, PayloadOffset(t))>>, FALSE)
LowerListMeta(t) == [elem |-> Field(t.t), known |-> NoCount]
LowerFixedMeta(t) == [elem |-> Field(t.t), known |-> t.n]
LowerFlagsMeta(t) == [n |-> t.n, align |-> Align(t), int |-> IntSizeBytes(t.n)]
LowerMapMeta(t) == MapMeta(t)

(* The elements of a stream or the value of a future: of a new one of a      *)
(* guest, and of one that the host lowers.  Unit elements have no bytes, and *)
(* payloadTypeName decides about u8.                                         *)
ElemMeta(t) == [t |-> t, isNone |-> t = Unit, isU8 |-> t.k = "u8"]
StreamNewMeta(t) == ElemMeta(t)
FutureNewMeta(t) == ElemMeta(t)
LowerStreamMeta(t) == ElemMeta(t)
LowerFutureMeta(t) == ElemMeta(t)

-----------------------------------------------------------------------------
(* Lowering.  A context has the component of the buffer, its memory, the     *)
(* pointer, the end of what realloc has given out, and whether something was *)
(* thrown; after that it stays.                                              *)
RECURSIVE LowerFlat(_, _, _)

LowerCtx(component, mem) ==
    [component |-> component, mem |-> mem, ptr |-> Start, top |-> Heap, err |-> FALSE]

Throw(c) == [c EXCEPT !.err = TRUE]
AlignPtr(c, a) == [c EXCEPT !.ptr = AlignTo(@, a)]

(* DataView.set*: the lowest bytes; a write outside of the memory throws. *)
SetBytes(c, bs) ==
    IF c.err \/ c.ptr + Len(bs) > MemSize THEN Throw(c)
    ELSE [c EXCEPT !.mem = [a \in DOMAIN @ |->
                              IF a \in c.ptr .. c.ptr + Len(bs) - 1 THEN bs[a - c.ptr + 1] ELSE @[a]],
                   !.ptr = @ + Len(bs)]

(* What is not a number is stored as NaN, which is zero in an integer. *)
NumberBytes(v, w) == SubSeq(IF v[1] = "number" THEN v[2] ELSE Nat9(0), 1, w)

LowerFlatBool(v, c) == SetBytes(c, <<IF v[1] = "bool" /\ ~v[2] THEN 0 ELSE 1>>)
LowerFlatU8(v, c) == SetBytes(c, NumberBytes(v, 1))
LowerFlatU16(v, c) == SetBytes(AlignPtr(c, 2), NumberBytes(v, 2))
LowerFlatU32(v, c) == SetBytes(AlignPtr(c, 4), NumberBytes(v, 4))
LowerFlatU64(v, c) ==
    IF v[1] # "bigint" THEN Throw(c) ELSE SetBytes(AlignPtr(c, 8), SubSeq(v[2], 1, 8))
LowerFlatFloat32(v, c) ==
    SetBytes(AlignPtr(c, 4), IF v[1] = "float" THEN v[2] ELSE <<0, 0, 192, 127>>)
LowerFlatFloat64(v, c) ==
    SetBytes(AlignPtr(c, 8), IF v[1] = "float" THEN v[2] ELSE <<0, 0, 0, 0, 0, 0, 248, 127>>)
(* i32ToChar refuses what is not a number, and a char is a string. *)
LowerFlatChar(v, c) == Throw(AlignPtr(c, 4))

(* external: the guest's cabi_realloc. *)
Realloc(c, align, size) ==
    [c EXCEPT !.top = AlignTo(@, align) + size]

LowerPair(c, ptr, len) ==
    LowerFlatU32(<<"number", Nat9(len)>>, LowerFlatU32(<<"number", Nat9(ptr)>>, c))

LowerFlatStringUtf8(v, c) ==
    LET data == c.top
        at == [SetBytes([c EXCEPT !.ptr = data], v[2]) EXCEPT !.ptr = c.ptr, !.top = data + Len(v[2])]
    IN  IF v[1] # "string" THEN Throw(c)
        ELSE SetBytes(SetBytes(at, SubSeq(Nat9(data), 1, 4)), SubSeq(Nat9(Len(v[2])), 1, 4))

(* Mutant: fields follow one another. *)
PackedField(c, f) == c
(* rem !== 0 -> storagePtr += align32 - rem *)
LowerFieldPtr(c, f) == AlignPtr(c, f.align)

LowerFlatRecord(meta, v, c) ==
    LET lower(d, i) ==
            LET f == LowerFieldPtr(d, meta.fields[i])
                e == LowerFlat(meta.fields[i].t, IF v[1] \in {"record", "tuple"} THEN v[2][i] ELSE Null, f)
            IN  [e EXCEPT !.ptr = Max2(@, f.ptr + meta.fields[i].size)]
        end == FoldLeft(lower, c, [i \in DOMAIN meta.fields |-> i])
    IN  AlignPtr([end EXCEPT !.ptr = Max2(@, c.ptr + meta.size)], meta.align)

(* The same with positions for names. *)
LowerFlatTuple(meta, v, c) == LowerFlatRecord(meta, v, c)

(* A tag no case has throws, and so does the alignment at the end, which     *)
(* names a variable that is not there, when there is something to align.     *)
LowerFlatVariant(meta, v, c) ==
    LET idx == SelectInSeq(meta.cases, LAMBDA m : m.tag = v[2])
        disc == <<"number", Nat9(idx - 1)>>
        n == Len(meta.cases)
        d == IF n < 256 THEN LowerFlatU8(disc, c) ELSE LowerFlatU16(disc, c)
        p == [d EXCEPT !.ptr = c.ptr + meta.offset]
        t == meta.cases[idx].t
        e == IF t = Unit THEN p ELSE LowerFlat(t, IF Len(v) = 3 THEN v[3] ELSE Null, p)
        end == [e EXCEPT !.ptr = Max2(@, c.ptr + meta.size)]
    IN  IF v[1] # "variant" \/ idx = 0 THEN Throw(c)
        ELSE IF end.ptr % meta.align # 0 THEN Throw(end) ELSE end

LowerFlatEnum(meta, v, c) ==
    LowerFlatVariant(meta, IF v[1] = "enum" THEN <<"variant", v[2]>> ELSE v, c)

(* Mutant: an object with a tag is taken for a payload. *)
NeverTagged(v, tags) == FALSE
(* An object with exactly a tag, one of the two, and a val. *)
IsTagged(v, tags) == v[1] = "variant" /\ Len(v) = 3 /\ v[2] \in tags

LowerFlatOption(meta, v, c) ==
    LET w == IF v = Null THEN <<"variant", "none">>
             ELSE IF IsTagged(v, {"some", "none"}) THEN v ELSE <<"variant", "some", v>>
    IN  LowerFlatVariant(meta, w, c)

LowerFlatResult(meta, v, c) ==
    LowerFlatVariant(meta, IF IsTagged(v, {"ok", "err"}) THEN v ELSE <<"variant", "ok", v>>, c)

LowerElems(elem, vs, at, c) ==
    LET lower(d, i) ==
            LET p == at + (i - 1) * elem.size
                e == LowerFlat(elem.t, vs[i], [d EXCEPT !.ptr = p])
            IN  [e EXCEPT !.ptr = Max2(@, p + elem.size)]
    IN  FoldLeft(lower, [c EXCEPT !.ptr = at], [i \in DOMAIN vs |-> i])

LowerFlatList(meta, v, c) ==
    LET vs == v[2]
        r == Realloc(c, meta.elem.align, meta.elem.size * Len(vs))
        data == AlignTo(c.top, meta.elem.align)
        pair == LowerPair(r, data, Len(vs))
    IN  IF v[1] # "list" THEN Throw(c)
        ELSE IF meta.known = NoCount
        THEN [LowerElems(meta.elem, vs, data, pair) EXCEPT !.ptr = pair.ptr]
        ELSE IF Len(vs) # meta.known THEN Throw(c)
        ELSE LowerElems(meta.elem, vs, c.ptr, c)

LowerFlatMap(meta, v, c) ==
    LET r == Realloc(c, meta.align, meta.size * Len(v[2]))
        data == AlignTo(c.top, meta.align)
        pair == LowerPair(r, data, Len(v[2]))
        entry(d, i) ==
            LET p == data + (i - 1) * meta.size
                k == LowerFlat(meta.key, v[2][i][1], [d EXCEPT !.ptr = p])
            IN  LowerFlat(meta.val, v[2][i][2], [k EXCEPT !.ptr = p + meta.offset])
    IN  IF v[1] # "map" THEN Throw(c)
        ELSE [FoldLeft(entry, pair, [i \in DOMAIN v[2] |-> i]) EXCEPT !.ptr = pair.ptr]

FlagByte(bits, j) ==
    FoldLeft(LAMBDA s, i : IF 8 * j + i + 1 \in DOMAIN bits /\ bits[8 * j + i + 1] THEN s + 2 ^ i ELSE s,
             0, [i \in 1 .. 8 |-> i - 1])
LowerFlatFlags(meta, v, c) ==
    LET bits == IF v[1] = "flags" THEN v[2] ELSE <<>>
    IN  IF v[1] \in {"number", "bigint", "float", "bool", "string", "enum"} THEN Throw(c)
        ELSE SetBytes(AlignPtr(c, meta.align), [j \in 1 .. meta.int |-> FlagByte(bits, j - 1)])

(* Only into the component whose table of resources the type names.  A       *)
(* resource stands for its handle: ResourceTables says how it is made.       *)
LowerFlatOwn(meta, v, c) ==
    IF c.component # meta.component \/ v[1] # "resource" THEN Throw(c)
    ELSE LowerFlatU32(<<"number", v[2]>>, c)

(* gen_flat_lower_fn_js_expr: which lower a type has. *)
LowerFlat(t, v, c) ==
    CASE t.k = "bool" -> LowerFlatBool(v, c)
      [] t.k \in {"u8", "s8"} -> LowerFlatU8(v, c)
      [] t.k \in {"u16", "s16"} -> LowerFlatU16(v, c)
      [] t.k \in {"u32", "s32"} -> LowerFlatU32(v, c)
      [] t.k \in {"u64", "s64"} -> LowerFlatU64(v, c)
      [] t.k = "f32" -> LowerFlatFloat32(v, c)
      [] t.k = "f64" -> LowerFlatFloat64(v, c)
      [] t.k = "char" -> LowerFlatChar(v, c)
      [] t.k = "string" -> LowerFlatStringUtf8(v, c)
      [] t.k = "own" -> LowerFlatOwn(OwnMeta(t), v, c)
      [] t.k = "record" -> LowerFlatRecord(LowerRecordMeta(t), v, c)
      [] t.k = "tuple" -> LowerFlatTuple(LowerTupleMeta(t), v, c)
      [] t.k = "variant" -> LowerFlatVariant(LowerVariantMeta(t), v, c)
      [] t.k = "enum" -> LowerFlatEnum(LowerEnumMeta(t), v, c)
      [] t.k = "option" -> LowerFlatOption(LowerOptionMeta(t), v, c)
      [] t.k = "result" -> LowerFlatResult(LowerResultMeta(t), v, c)
      [] t.k = "list" -> LowerFlatList(LowerListMeta(t), v, c)
      [] t.k = "fixed" -> LowerFlatList(LowerFixedMeta(t), v, c)
      [] t.k = "flags" -> LowerFlatFlags(LowerFlagsMeta(t), v, c)
      [] t.k = "map" -> LowerFlatMap(LowerMapMeta(t), v, c)

(* ManagedBuffer.write: bytes go into the memory at once. *)
WriteBuffer(component, meta, vs) ==
    LET c == LowerCtx(component, Fresh)
    IN  IF meta.isNone THEN IF Range(vs) = {Null} THEN c ELSE Throw(c)
        ELSE IF meta.isU8 THEN SetBytes(c, [i \in DOMAIN vs |-> NumberBytes(vs[i], 1)[1]])
        ELSE FoldLeft(LAMBDA d, v : LowerFlat(meta.t, v, d), c, vs)

-----------------------------------------------------------------------------
(* Lifting.  A context has the component, its memory, the pointer and the    *)
(* bytes left there (both may be undefined), or the parameters when they     *)
(* come directly.                                                            *)
RECURSIVE LiftFlat(_, _)

Undefined == -1

LiftCtx(component, mem) ==
    [component |-> component, mem |-> mem, ptr |-> Start, len |-> Undefined,
     direct |-> FALSE, params |-> <<>>, inVariant |-> FALSE, err |-> FALSE]
DirectCtx(component, mem, params) ==
    [LiftCtx(component, mem) EXCEPT !.ptr = Undefined, !.direct = TRUE, !.params = params]

Lifted(v, c) == [v |-> v, c |-> c]
LiftThrows(c) == Lifted(Null, Throw(c))

LiftAlign(c, a) == IF c.ptr = Undefined THEN c ELSE AlignPtr(c, a)
LiftMove(c, p) == IF c.ptr = Undefined THEN c ELSE [c EXCEPT !.ptr = p]

(* params[0] and params.slice(1) *)
Param(c) ==
    IF c.err \/ c.params = <<>> THEN LiftThrows(c)
    ELSE Lifted(Head(c.params), [c EXCEPT !.params = Tail(@)])

(* DataView.get*, after the check of what is left. *)
NotThere(c, w) == c.err \/ (c.len # Undefined /\ c.len < w) \/ c.ptr + w > MemSize
GetBytes(c, w) ==
    IF NotThere(c, w) THEN LiftThrows(c)
    ELSE Lifted(Bytes(c.mem, c.ptr, w),
                [c EXCEPT !.ptr = @ + w, !.len = IF @ = Undefined THEN @ ELSE @ - w])

LiftNumber(k, c) ==
    IF c.direct THEN Param(c)
    ELSE IF NotThere(c, Width[k]) THEN LiftThrows(c)
    ELSE [GetBytes(c, Width[k]) EXCEPT !.v = LoadScalar(k, @)]

LiftFlatBool(c) ==
    LET p == Param(c)
        g == GetBytes(c, 1)
    IN  IF c.direct THEN Lifted(<<"bool", p.v = <<"number", Nat9(1)>>>>, p.c)
        ELSE IF g.c.err THEN g ELSE Lifted(<<"bool", g.v = <<1>>>>, g.c)

LiftFlatU8(k, c) == LiftNumber(k, c)
LiftFlatU16(k, c) ==
    [LiftNumber(k, c) EXCEPT !.c = IF k = "u16" THEN LiftAlign(@, 2) ELSE @]
LiftFlatU32(k, c) == LiftNumber(k, c)
LiftFlatU64(k, c) ==
    IF c.direct /\ c.params # <<>> /\ Head(c.params)[1] # "bigint" THEN LiftThrows(c)
    ELSE LiftNumber(k, c)

(* In a variant a parameter is taken for the bits of the float: an integer   *)
(* has them, a float is cut to an integer first, which are other bits, and   *)
(* the other kind of integer throws.                                         *)
Reinterpret(p, w, sort) ==
    IF ~p.c.inVariant \/ p.c.err THEN p
    ELSE IF p.v[1] = sort THEN Lifted(<<"float", SubSeq(p.v[2], 1, w)>>, p.c)
    ELSE IF p.v[1] = "float" /\ sort = "number" THEN Lifted(<<"float", <<>>>>, p.c)
    ELSE LiftThrows(p.c)
LiftFlatFloat32(c) ==
    IF c.direct THEN Reinterpret(Param(c), 4, "number") ELSE LiftNumber("f32", c)
LiftFlatFloat64(c) ==
    IF c.direct THEN Reinterpret(Param(c), 8, "bigint") ELSE LiftNumber("f64", c)

LiftFlatStringUtf8(c) ==
    LET p == Param(c)
        q == Param(p.c)
        a == AlignPtr(c, 4)
        at == IF c.direct THEN IntOf(p.v[2]) ELSE IntOf(Bytes(c.mem, a.ptr, 4))
        len == IF c.direct THEN IntOf(q.v[2]) ELSE IntOf(Bytes(c.mem, a.ptr + 4, 4))
    IN  IF c.err \/ (IF c.direct THEN q.c.err \/ {p.v[1], q.v[1]} # {"number"}
                     ELSE a.ptr + 8 > MemSize)
        THEN LiftThrows(c)
        ELSE IF at + len > MemSize THEN LiftThrows(c)
        ELSE Lifted(<<"string", Bytes(c.mem, at, len)>>,
                    IF c.direct THEN q.c ELSE [a EXCEPT !.ptr = @ + 8])

(* ctx.storageLen = fieldLen - size32 *)
LenAfterField(left, before, size) == IF before = Undefined THEN left ELSE before - size

LiftFlatRecord(meta, c, sort) ==
    LET lift(acc, i) ==
            LET m == meta.fields[i]
                f == LiftAlign(acc.c, m.align)
                after(c1) == [LiftMove(c1, Max2(c1.ptr, f.ptr + m.size)) EXCEPT
                                 !.len = LenAfterField(@, f.len, m.size)]
            IN  [LiftFlat(m.t, f) EXCEPT !.v = Append(acc.v, @), !.c = after(@)]
        end == FoldLeft(lift, Lifted(<<>>, c), [i \in DOMAIN meta.fields |-> i])
        moved == LiftMove(end.c, Max2(end.c.ptr, c.ptr + meta.size))
    IN  Lifted(<<sort, end.v>>, LiftAlign(moved, meta.align))

(* The same with positions for names. *)
LiftFlatTuple(meta, c) == LiftFlatRecord(meta, c, "tuple")

(* Mutant: the discriminant is not among the flat values of a variant. *)
WithoutDisc(meta, m) == meta.count - m.count
(* variantFlatCount - caseFlatCount - (isEnum ? 0 : 1) *)
RemainingPayloadParams(meta, m) == meta.count - m.count - (IF meta.isEnum THEN 0 ELSE 1)

(* Mutant: a case without a payload stays behind its discriminant. *)
AtPayload(meta, p) == p + meta.offset
(* "here we need to move past the entire object in memory" *)
PastObject(meta, p) == p + meta.size

(* BigInt parameters up to 2^53 - 1 become numbers unless a float64 is next. *)
NarrowParam(t, c) ==
    IF ~c.direct \/ c.params = <<>> \/ t.k = "f64" THEN c
    ELSE LET h == Head(c.params)
         IN  IF h[1] # "bigint" THEN c
             ELSE IF h[2][9] = 0 /\ (h[2][8] > 0 \/ h[2][7] > 31) THEN Throw(c)
             ELSE [c EXCEPT !.params = <<<<"number", h[2]>>>> \o Tail(@)]

LiftDisc(meta, c) ==
    IF Len(meta.cases) < 256 THEN LiftFlatU8("u8", c) ELSE LiftFlatU16("u16", c)

(* The case m of the variant at address at, whose payload is next. *)
LiftCase(meta, m, at, c) ==
    IF m.t = Unit THEN Lifted(<<"variant", m.tag>>, LiftMove(c, PastObject(meta, at)))
    ELSE [LiftFlat(m.t, NarrowParam(m.t, c)) EXCEPT !.v = <<"variant", m.tag, @>>]

(* The parameters that pad the case to the longest are dropped. *)
DropPadding(meta, m, c) ==
    LET n == RemainingPayloadParams(meta, m)
    IN  IF ~c.direct THEN c
        ELSE IF NoCount \in {meta.count, m.count} \/ n < 0 \/ Len(c.params) < n THEN Throw(c)
        ELSE [c EXCEPT !.params = SubSeq(@, n + 1, Len(@))]

LiftFlatVariant(meta, c) ==
    LET d == LiftDisc(meta, [c EXCEPT !.inVariant = TRUE])
        idx == IntOf(d.v[2]) + 1
        m == meta.cases[idx]
    IN  IF d.c.err \/ d.v[1] # "number" THEN LiftThrows(c)
        ELSE IF idx > Len(meta.cases) THEN LiftThrows(c)
        ELSE [LiftCase(meta, m, c.ptr, LiftMove(d.c, c.ptr + meta.offset)) EXCEPT
                 !.c = [LiftAlign(DropPadding(meta, m, @), meta.align) EXCEPT
                           !.inVariant = c.inVariant]]

LiftFlatEnum(meta, c) ==
    [LiftFlatVariant(meta, c) EXCEPT !.v = IF @ = Null THEN @ ELSE <<"enum", @[2]>>]
LiftFlatOption(meta, c) == LiftFlatVariant(meta, c)
LiftFlatResult(meta, c) == LiftFlatVariant(meta, c)

(* readValuesAndReset, before it resets *)
LiftElems(elem, n, at, c) ==
    LET lift(acc, i) ==
            LET p == at + (i - 1) * elem.size
            IN  [LiftFlat(elem.t, [acc.c EXCEPT !.ptr = p]) EXCEPT
                    !.v = Append(acc.v, @), !.c.ptr = Max2(@, p + elem.size)]
    IN  FoldLeft(lift, Lifted(<<>>, [c EXCEPT !.ptr = at]), [i \in 1 .. n |-> i])

(* The pair of a pointer and a length, from the parameters or from memory,   *)
(* where only its eight bytes are left to read.                              *)
LiftPair(c) ==
    LET g == GetBytes([c EXCEPT !.len = 8], 8)
    IN  IF c.direct
        THEN IF Len(c.params) < 2 \/ {c.params[i][1] : i \in 1 .. 2} # {"number"}
             THEN [at |-> 0, n |-> 0, c |-> Throw(c)]
             ELSE [at |-> IntOf(c.params[1][2]), n |-> IntOf(c.params[2][2]),
                   c |-> [c EXCEPT !.params = SubSeq(@, 3, Len(@))]]
        ELSE IF g.c.err THEN [at |-> 0, n |-> 0, c |-> Throw(c)]
        ELSE [at |-> IntOf(g.v), n |-> IntOf(SubSeq(g.v, 5, 8)), c |-> g.c]

(* Elements are read from memory, and the bytes left are as before. *)
LiftFlatList(meta, c) ==
    LET known == meta.known # NoCount
        k == IF meta.known < Len(c.params) THEN meta.known ELSE Len(c.params)
        pair == IF known THEN [at |-> c.ptr, n |-> meta.known, c |-> c] ELSE LiftPair(c)
        from == [pair.c EXCEPT !.direct = FALSE, !.len = pair.n * meta.elem.size]
    IN  IF known /\ c.direct    \* takes the parameters as they are
        THEN Lifted(<<"list", SubSeq(c.params, 1, k)>>,
                    [c EXCEPT !.params = SubSeq(@, k + 1, Len(@))])
        ELSE IF pair.c.err THEN LiftThrows(c)
        ELSE [LiftElems(meta.elem, pair.n, pair.at, from) EXCEPT
                 !.v = <<"list", @>>, !.c.ptr = IF known THEN @ ELSE pair.c.ptr,
                 !.c.len = c.len, !.c.direct = c.direct]

LiftFlatMap(meta, c) ==
    LET pair == LiftPair(c)
        entry(acc, i) ==
            LET p == pair.at + (i - 1) * meta.size
                k == LiftFlat(meta.key, [acc.c EXCEPT !.ptr = p])
            IN  [LiftFlat(meta.val, [k.c EXCEPT !.ptr = p + meta.offset]) EXCEPT
                    !.v = Append(acc.v, <<k.v, @>>)]
        from == [pair.c EXCEPT !.direct = FALSE, !.len = pair.n * meta.size]
    IN  IF pair.c.err THEN LiftThrows(c)
        ELSE [FoldLeft(entry, Lifted(<<>>, from), [i \in 1 .. pair.n |-> i]) EXCEPT
                 !.v = <<"map", @>>, !.c.ptr = pair.c.ptr,
                 !.c.len = c.len, !.c.direct = c.direct]

LiftFlatFlags(meta, c) ==
    LET r == IF meta.int = 1 THEN LiftFlatU8("u8", c)
             ELSE IF meta.int = 2 THEN LiftFlatU16("u16", c) ELSE LiftFlatU32("u32", c)
    IN  IF r.c.err THEN r
        ELSE Lifted(<<"flags", [i \in 1 .. meta.n |-> Bit(r.v[2][(i - 1) \div 8 + 1], (i - 1) % 8)]>>,
                    LiftAlign(r.c, meta.align))

LiftFlatOwn(meta, c) ==
    LET r == LiftFlatU32("u32", c)
    IN  IF c.component # meta.component THEN LiftThrows(c)
        ELSE IF r.c.err THEN r ELSE Lifted(<<"resource", r.v[2]>>, r.c)

(* gen_flat_lift_fn_js_expr: which lift a type has. *)
LiftFlat(t, c) ==
    CASE t.k = "bool" -> LiftFlatBool(c)
      [] t.k \in {"u8", "s8"} -> LiftFlatU8(t.k, c)
      [] t.k \in {"u16", "s16"} -> LiftFlatU16(t.k, c)
      [] t.k \in {"u32", "s32"} -> LiftFlatU32(t.k, c)
      [] t.k \in {"u64", "s64"} -> LiftFlatU64(t.k, c)
      [] t.k = "f32" -> LiftFlatFloat32(c)
      [] t.k = "f64" -> LiftFlatFloat64(c)
      [] t.k = "string" -> LiftFlatStringUtf8(c)
      [] t.k = "own" -> LiftFlatOwn(OwnMeta(t), c)
      [] t.k = "record" -> LiftFlatRecord(LiftRecordMeta(t), c, "record")
      [] t.k = "tuple" -> LiftFlatTuple(LiftTupleMeta(t), c)
      [] t.k = "variant" -> LiftFlatVariant(LiftVariantMeta(t), c)
      [] t.k = "enum" -> LiftFlatEnum(LiftEnumMeta(t), c)
      [] t.k = "option" -> LiftFlatOption(LiftOptionMeta(t), c)
      [] t.k = "result" -> LiftFlatResult(LiftResultMeta(t), c)
      [] t.k = "list" -> LiftFlatList(LiftListMeta(t), c)
      [] t.k = "fixed" -> LiftFlatList(LiftFixedMeta(t), c)
      [] t.k = "flags" -> LiftFlatFlags(LiftFlagsMeta(t), c)
      [] t.k = "map" -> LiftFlatMap(LiftMapMeta(t), c)

(* ManagedBuffer.read: each lift begins where the one before it ended. *)
ReadBuffer(component, meta, n, mem) ==
    LET c == LiftCtx(component, mem)
        bytes == GetBytes(c, n)
        next(acc, i) == [LiftFlat(meta.t, acc.c) EXCEPT !.v = Append(acc.v, @)]
    IN  IF meta.isNone THEN Lifted([i \in 1 .. n |-> Null], c)
        ELSE IF meta.isU8
        THEN Lifted([i \in DOMAIN bytes.v |-> LoadScalar("u8", <<bytes.v[i]>>)], bytes.c)
        ELSE FoldLeft(next, Lifted(<<>>, c), [i \in 1 .. n |-> i])

-----------------------------------------------------------------------------
(* What the host passes for a value: undefined for none and the payload      *)
(* itself for some, unless that would be ambiguous, and a result always with *)
(* its val.                                                                  *)
RECURSIVE HostForm(_, _)
HostForm(t, v) ==
    LET inner(u, x) == IF u = Unit THEN Null ELSE HostForm(u, x)
        caseType == Cases(t)[SelectInSeq(Cases(t), LAMBDA m : m[1] = v[2])][2]
    IN  CASE IsFields(t) -> <<v[1], [i \in DOMAIN t.ts |-> HostForm(t.ts[i], v[2][i])]>>
          [] t.k \in {"list", "fixed"} -> <<v[1], [i \in DOMAIN v[2] |-> HostForm(t.t, v[2][i])]>>
          [] t.k = "map" -> <<v[1], [i \in DOMAIN v[2] |->
                                <<HostForm(t.key, v[2][i][1]), HostForm(t.val, v[2][i][2])>>]>>
          [] t.k = "option" ->
                IF Len(v) = 2 THEN Null
                ELSE IF t.t.k \in {"option", "result", "variant"}
                THEN <<"variant", "some", HostForm(t.t, v[3])>> ELSE HostForm(t.t, v[3])
          [] t.k = "result" -> <<"variant", v[2], inner(caseType, IF Len(v) = 3 THEN v[3] ELSE Null)>>
          [] t.k = "variant" ->
                IF Len(v) = 2 THEN v ELSE <<"variant", v[2], HostForm(caseType, v[3])>>
          [] OTHER -> v

Init ==
    /\ \E i \in DOMAIN Types :
          /\ ty = Types[i]
          /\ \E n \in 1 .. MaxVals : vals \in [1 .. n -> Samples(Types[i])]
    /\ stage = "host" /\ js = <<>> /\ rest = <<>>
    /\ memA = Fresh /\ memB = Fresh /\ topA = Heap

HostWrites(meta) ==
    LET c == WriteBuffer(GuestA, meta, [i \in DOMAIN vals |-> HostForm(ty, vals[i])])
    IN  /\ stage = "host"
        /\ memA' = c.mem /\ topA' = c.top
        /\ stage' = IF c.err THEN "notLowered" ELSE "lowered"
        /\ UNCHANGED <<ty, vals, js, rest, memB>>

(* A guest reads from a stream or a future that the host gave it. *)
HostWritesStream == HostWrites(LowerStreamMeta(ty))
HostWritesFuture == Len(vals) = 1 /\ HostWrites(LowerFutureMeta(ty))

(* The guest writes them to a stream or a future of its own, which is read. *)
GuestWrites ==
    LET meta == IF Len(vals) = 1 THEN FutureNewMeta(ty) ELSE StreamNewMeta(ty)
        r == ReadBuffer(GuestA, meta, Len(vals), memA)
    IN  /\ stage = "lowered"
        /\ js' = r.v
        /\ stage' = IF r.c.err THEN "notLifted" ELSE "lifted"
        /\ UNCHANGED <<ty, vals, memA, topA, rest, memB>>

(* The reader of that stream is a guest too.  The end it was given has the   *)
(* metadata that the guest which made the stream had for it.                 *)
GuestReads ==
    LET c == WriteBuffer(GuestB, StreamNewMeta(ty), js)
    IN  /\ stage = "lifted" /\ Copied(ty)
        /\ memB' = c.mem
        /\ stage' = IF c.err THEN "notCopied" ELSE "copied"
        /\ UNCHANGED <<ty, vals, memA, topA, js, rest>>

(* Trampoline::TaskReturn: a type without a flat count counts for nothing. *)
UseDirectParams(t) == (IF FlatCount(t) = NoCount THEN 0 ELSE FlatCount(t)) < MaxFlatParams

(* task.return of the first value.  Without direct parameters it throws,     *)
(* since the context it is bound to has no memory.                           *)
TaskReturn ==
    LET c == DirectCtx(GuestA, memA, Params(ty, memA, Start))
        r == IF UseDirectParams(ty) THEN LiftFlat(ty, c) ELSE LiftThrows(c)
    IN  /\ stage = "lowered" /\ Len(vals) = 1 /\ Returned(ty)
        /\ js' = <<r.v>> /\ rest' = r.c.params
        /\ stage' = IF r.c.err THEN "notReturned" ELSE "returned"
        /\ UNCHANGED <<ty, vals, memA, topA, memB>>

Next == HostWritesStream \/ HostWritesFuture \/ GuestWrites \/ GuestReads \/ TaskReturn

Spec == Init /\ [][Next]_vars

-----------------------------------------------------------------------------
Buffer == Start .. Start + Len(vals) * Size(ty) - 1

InMemory(mem) == [i \in DOMAIN vals |-> Load(ty, mem, Start + (i - 1) * Size(ty))]

RECURSIVE HoldsChar(_)
HoldsChar(t) ==
    \/ t.k = "char"
    \/ t.k \in {"list", "fixed"} /\ HoldsChar(t.t)
    \/ IsFields(t) /\ \E i \in DOMAIN t.ts : HoldsChar(t.ts[i])
    \/ IsVariant(t) /\ \E i \in DOMAIN Cases(t) : HoldsChar(Cases(t)[i][2])

(* What the host writes, the guest finds: every value is at its place of the *)
(* canonical ABI, lists and strings in what realloc gave out, nothing else   *)
(* of the memory is touched, and only a char throws, which no lower accepts. *)
GuestFindsValues ==
    /\ stage = "notLowered" => HoldsChar(ty)
    /\ stage = "lowered" =>
          /\ InMemory(memA) = vals
          /\ \A a \in DOMAIN memA \ (Buffer \cup (Heap .. topA - 1)) : memA[a] = Stale

(* What a guest writes, JavaScript reads: whatever list, string, variant or  *)
(* map comes before it in a record or a buffer, and however its lift uses    *)
(* the pointer and the bytes left, each value is read where it is.           *)
HostFindsValues ==
    /\ stage # "notLifted"
    /\ stage = "lifted" => js = vals

(* What one guest writes, another reads: the JavaScript form that a lift     *)
(* gives is one that the lower of the type takes for the same value.  Said   *)
(* of the types that are Copied; MCValues names the others and why.          *)
CopyFindsValues ==
    /\ stage # "notCopied"
    /\ stage = "copied" => InMemory(memB) = vals

(* task.return gives the caller the value, from exactly its parameters: the  *)
(* padding of shorter cases is dropped, and what was joined to a wider       *)
(* parameter is taken apart again.  Said of the types that are Returned;     *)
(* MCValues names the others and why.                                        *)
CallerFindsValue ==
    /\ stage # "notReturned"
    /\ stage = "returned" => js = vals /\ rest = <<>>
=============================================================================
