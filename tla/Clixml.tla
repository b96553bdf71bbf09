-------------------------------- MODULE Clixml --------------------------------
(***************************************************************************)
(* CLIXML values (src/clixml/mod.rs) and the events an XML reader makes of *)
(* a document.  A text is a string taken whole; every value carries its    *)
(* weight and its height, as `measure` of decode.rs computes them.         *)
(***************************************************************************)
EXTENDS Integers, SequencesExt

\* The widths are scaled: a number of 32 bits is below 64, one of 64 below 256.
Widths == [SB |-> -4..3, By |-> 0..7, I16 |-> -16..15, U16 |-> 0..31,
           I32 |-> -64..63, U32 |-> 0..127, I64 |-> -256..255, U64 |-> 0..511]
IntegerTags == DOMAIN Widths

TextTags   == {"S", "D", "DT", "TS", "Version", "URI", "XD", "SBK", "SCT", "SS"}
FloatTags  == {"Db", "Sg"}
ScalarTags == TextTags \cup IntegerTags \cup FloatTags \cup {"B", "C", "BA", "G"}
ListTags   == {"LST", "IE", "QUE", "STK"}

\* A text weighs its length, which is one here.
Size(text) == IF text = "" THEN 0 ELSE 1

\* An Option is a set of at most one element.
None == {}
Some(x) == {x}
UnwrapOr(option, default) == IF option = None THEN default ELSE CHOOSE x \in option : TRUE

-----------------------------------------------------------------------------
(* PsValue, with `measure`.                                                *)

Null == [t |-> "Null", w |-> 1, h |-> 0]

\* A scalar that is a text, or kept as one: SCT is read as the tag SBK.
Text(tag, s) == [t |-> IF tag = "SCT" THEN "SBK" ELSE tag, s |-> s, w |-> Size(s) + 1, h |-> 0]
Str(s) == Text("S", s)

Number(tag, n) == [t |-> tag, n |-> n, w |-> 1, h |-> 0]
I32(n) == Number("I32", n)
I64(n) == Number("I64", n)
Char(n) == Number("C", n)
Bool(b) == [t |-> "B", b |-> b, w |-> 1, h |-> 0]

Total(weights) == FoldLeft(LAMBDA sum, w : sum + w, 0, weights)
Tallest(heights) == FoldLeft(LAMBDA top, h : IF h > top THEN h ELSE top, 0, heights)

List(items) ==
  [t |-> "List", items |-> items,
   w |-> 1 + Total([i \in DOMAIN items |-> items[i].w]),
   h |-> 1 + Tallest([i \in DOMAIN items |-> items[i].h])]

\* Entries are pairs of a key and a value.
Dict(entries) ==
  [t |-> "Dict", entries |-> entries,
   w |-> 1 + Total([i \in DOMAIN entries |-> entries[i][1].w + entries[i][2].w]),
   h |-> 1 + Tallest([i \in DOMAIN entries |-> Tallest(<<entries[i][1].h, entries[i][2].h>>)])]

\* Properties are pairs of a name and a value, each name once.
Labelled(types, label, props) ==
  [t |-> "Object", props |-> props, types |-> types, label |-> label,
   w |-> 1 + Size(label) + Total([i \in DOMAIN types |-> Size(types[i]) + 1])
           + Total([i \in DOMAIN props |-> Size(props[i][1]) + 1 + props[i][2].w]),
   h |-> 1 + Tallest([i \in DOMAIN props |-> props[i][2].h])]

Typed(types, props) == Labelled(types, "", props)
Object(props)       == Typed(<<>>, props)

\* IndexMap::insert: a name keeps its place.
Insert(props, name, v) ==
  IF \E i \in DOMAIN props : props[i][1] = name
  THEN [i \in DOMAIN props |-> IF props[i][1] = name THEN <<name, v>> ELSE props[i]]
  ELSE Append(props, <<name, v>>)

-----------------------------------------------------------------------------
(* The views of a value, and of the values of an Option.                  *)

\* get, properties; of a value that is no object, nothing.
Get(v, name) ==
  IF v.t = "Object" THEN {p[2] : p \in {q \in ToSet(v.props) : q[1] = name}} ELSE None

\* and_then, for each of the views below
Then(option, View(_)) == UNION {View(x) : x \in option}

AsStr(v)  == IF v.t \in TextTags THEN Some(v.s) ELSE None
AsBool(v) == IF v.t = "B" THEN Some(v.b) ELSE None

\* as_i32 has no U64, and neither view has what its width does not hold.
AsI32(v) == IF v.t \in IntegerTags \ {"U64"} THEN {v.n} \cap Widths.I32 ELSE None
AsI64(v) == IF v.t \in IntegerTags THEN {v.n} \cap Widths.I64 ELSE None
=============================================================================
