---------------------------- MODULE ClixmlDecoder ----------------------------
(***************************************************************************)
(* parse_clixml (src/clixml/decode.rs): the decoder reads a document event *)
(* by event.  Its functions call each other as elements nest; the calls in *)
(* progress are a stack of frames, the innermost last, and the events are  *)
(* those the loop of that function matches.                                *)
(*                                                                         *)
(* A document is a sequence of events.  The reader has already unescaped   *)
(* names and texts (ClixmlText) and checked that end tags match.           *)
(***************************************************************************)
EXTENDS Clixml

CONSTANTS
  MaxDepth,   \* MAX_NESTING_DEPTH
  RefBudget   \* the budget of the document's references

ASSUME DecoderAssumption == {MaxDepth, RefBudget} \subseteq Nat

-----------------------------------------------------------------------------
(* Events.                                                                 *)

Absent == "(absent)"   \* an attribute that is not there

Event(k, tag, name, id, text) == [k |-> k, tag |-> tag, name |-> name, id |-> id, text |-> text]
Start(tag, name, id) == Event("Start", tag, name, id, "")
Empty(tag, name, id) == Event("Empty", tag, name, id, "")
Chars(text)          == Event("Text", "", Absent, Absent, text)
End(tag)             == Event("End", tag, Absent, Absent, "")
Eof                  == Event("Eof", "", Absent, Absent, "")
Malformed            == Event("Malformed", "", Absent, Absent, "")

\* name_attr, unwrap_or_default
NameOf(e) == IF e.name = Absent THEN "" ELSE e.name

\* referenced_ids
ReferencedIds(document) ==
  {e.id : e \in {d \in ToSet(document) : d.k \in {"Start", "Empty"} /\ d.tag = "Ref" /\ d.id # Absent}}

-----------------------------------------------------------------------------
(* DecoderState, the calls in progress, and the values read.               *)

Reading(referenced) ==
  [stack |-> <<>>, depth |-> 0, refs |-> [id \in {} |-> Null], referenced |-> referenced,
   expanded |-> 0, type_names |-> [id \in {} |-> <<>>], out |-> <<>>, status |-> "reading"]

Fail(d)      == [d EXCEPT !.status = "error"]
Top(d)       == d.stack[Len(d.stack)]
Inside(d)    == IF d.stack = <<>> THEN "document" ELSE Top(d).f
Push(d, f)   == [d EXCEPT !.stack = Append(@, f)]
Pop(d)       == [d EXCEPT !.stack = SubSeq(@, 1, Len(@) - 1)]
SetTop(d, f) == [d EXCEPT !.stack[Len(d.stack)] = f]

\* What the loop of the innermost call does with a value of its element.
Deliver(d, name, v) ==
  LET f == Top(d)
  IN  CASE Inside(d) = "document" -> [d EXCEPT !.out = Append(@, v)]
        [] Inside(d) = "Obj"      -> SetTop(d, [f EXCEPT !.value = IF @ = None THEN Some(v) ELSE @])
        [] Inside(d) = "Members"  -> SetTop(d, [f EXCEPT !.props = Insert(@, name, v)])
        [] Inside(d) = "List"     -> SetTop(d, [f EXCEPT !.items = Append(@, v)])
        [] Inside(d) = "Entry"    -> SetTop(d, IF name = "Key" THEN [f EXCEPT !.key = v]
                                               ELSE IF name = "Value" THEN [f EXCEPT !.val = v]
                                               ELSE f)

DeliverAny(d, name, option) ==
  IF option = None THEN d ELSE Deliver(d, name, UnwrapOr(option, Null))

\* parse_element returns: its frame goes, its level too.
Return(d, option) == DeliverAny([Pop(d) EXCEPT !.depth = @ - 1], Top(d).name, option)

-----------------------------------------------------------------------------
(* References.                                                             *)

\* Variant: nothing is ever charged.
ChargeNothing(d, weight) == d

Charge(d, weight) ==
  IF d.expanded + weight > RefBudget THEN Fail(d) ELSE [d EXCEPT !.expanded = @ + weight]

\* Variant: what is planted is not measured.
TooDeepHere(d, level, target) == d.depth + level > MaxDepth

TooDeep(d, level, target) == d.depth + level + target.h > MaxDepth

\* resolve_ref, `level` containers below the element: the value, and what is
\* left of the budget.
ResolveRef(d, e, level) ==
  LET target == d.refs[e.id]
  IN  CASE e.id \notin DOMAIN d.refs   -> <<d, Null>>
        [] e.id \in DOMAIN d.refs /\ TooDeep(d, level, target) -> <<Fail(d), Null>>
        [] OTHER                       -> <<Charge(d, target.w), target>>

\* The object is kept when a Ref of the document points to it.
Keep(d, id, v) ==
  IF id \in d.referenced
  THEN LET charged == Charge(d, v.w)
       IN  IF charged.status = "error" THEN charged
           ELSE [charged EXCEPT !.refs = (id :> v) @@ @]
  ELSE d

-----------------------------------------------------------------------------
(* Scalars: the value of a text, if it parses.                             *)

\* The numbers of a set that a text is the decimal form of: one, or none.
Decimal(text, numbers) == {n \in numbers : ToString(n) = text}

\* A unit is below 16 and a scalar value below 32 here; 8 and 9 are surrogates.
Replacement == 15
CharOf(code) == IF code \in {8, 9} \/ code > 31 THEN Replacement ELSE code

\* parse_element_inner, its scalar elements.
ScalarOf(tag, text) ==
  CASE tag \in TextTags \cup FloatTags \cup {"BA", "G"} ->
         IF tag \notin TextTags /\ text = "malformed" THEN None ELSE Some(Text(tag, text))
    [] tag \in IntegerTags -> {Number(tag, n) : n \in Decimal(text, Widths[tag])}
    [] tag = "C"           -> {Char(CharOf(n)) : n \in Decimal(text, Widths.U16)}
    [] tag = "B" ->
         CASE text \in {"true", "1"}  -> Some(Bool(TRUE))
           [] text \in {"false", "0"} -> Some(Bool(FALSE))
           [] OTHER                   -> None

-----------------------------------------------------------------------------
(* Elements.                                                               *)

Skip(name, option) == [f |-> "Skip", level |-> 1, name |-> name, value |-> option, element |-> TRUE]

\* parse_element: the frame of an element that starts, or an error.
ParseElement(d, e) ==
  LET deeper == [d EXCEPT !.depth = @ + 1]
  IN  CASE d.depth >= MaxDepth  -> Fail(d)
        [] d.depth < MaxDepth /\ e.tag \in ScalarTags ->
             Push(deeper, [f |-> "Text", tag |-> e.tag, name |-> NameOf(e), text |-> ""])
        [] d.depth < MaxDepth /\ e.tag = "Obj" ->
             Push(deeper, [f |-> "Obj", name |-> NameOf(e), id |-> e.id,
                           props |-> <<>>, types |-> <<>>, value |-> None])
        [] d.depth < MaxDepth /\ e.tag = "Ref" ->
             LET found == ResolveRef(deeper, e, 0)
             IN  Push(found[1], Skip(NameOf(e), Some(found[2])))
        [] OTHER -> Push(deeper, Skip(NameOf(e), None))

\* parse_empty, and what the loop around does with its value: a member needs a
\* name only to be Nil.
ParseEmpty(d, e) ==
  LET found == ResolveRef(d, e, 1)
  IN  CASE e.tag = "Nil" ->
             IF Inside(d) = "Members" /\ e.name = Absent THEN d ELSE Deliver(d, NameOf(e), Null)
        [] e.tag = "Ref"            -> Deliver(found[1], NameOf(e), found[2])
        [] e.tag = "S"              -> Deliver(d, NameOf(e), Str(""))
        [] e.tag \in {"SBK", "SCT"} -> Deliver(d, NameOf(e), Text("SBK", ""))
        [] OTHER                    -> d

\* TNRef, with the names of an earlier TN.
TakeTypeNames(d, id) ==
  IF id \in DOMAIN d.type_names THEN SetTop(d, [Top(d) EXCEPT !.types = d.type_names[id]]) ELSE d

-----------------------------------------------------------------------------
(* One event, in the loop of the innermost call.                           *)

\* parse_obj_body, parse_member_set, parse_list, parse_dict, parse_dict_entry,
\* parse_type_names and skip_to_end, at a start tag.
AtStart(d, e) ==
  LET f == Top(d)
  IN  CASE Inside(d) \in {"document", "Members", "List", "Entry"} -> ParseElement(d, e)
        [] Inside(d) = "Obj" ->
             (CASE e.tag \in {"MS", "Props"} -> Push(SetTop(d, [f EXCEPT !.props = <<>>]),
                                                [f |-> "Members", tag |-> e.tag, props |-> f.props])
                [] e.tag = "TN"              -> Push(d, [f |-> "Types", id |-> e.id, names |-> <<>>])
                [] e.tag = "TNRef"           -> Push(d, [Skip("", None) EXCEPT !.element = FALSE, !.name = e.id])
                [] e.tag \in ListTags        -> Push(d, [f |-> "List", tag |-> e.tag, items |-> <<>>])
                [] e.tag = "DCT"             -> Push(d, [f |-> "Dict", entries |-> <<>>])
                [] OTHER                     -> ParseElement(d, e))
        [] Inside(d) = "Dict" ->
             IF e.tag = "En" THEN Push(d, [f |-> "Entry", key |-> Null, val |-> Null]) ELSE d
        [] Inside(d) = "Types" -> IF e.tag = "T" THEN Push(d, [f |-> "T", text |-> ""]) ELSE d
        [] Inside(d) = "Skip"  -> SetTop(d, [f EXCEPT !.level = @ + 1])
        [] Inside(d) \in {"Text", "T"} -> d

AtEmpty(d, e) ==
  CASE Inside(d) \in {"document", "Members", "List", "Entry"} -> ParseEmpty(d, e)
    [] Inside(d) = "Obj" /\ e.tag = "TNRef"                   -> TakeTypeNames(d, e.id)
    [] OTHER                                                  -> d

AtText(d, e) ==
  IF Inside(d) \in {"Text", "T"} THEN SetTop(d, [Top(d) EXCEPT !.text = @ \o e.text]) ELSE d

\* The object once its element ends; what it holds beside members is a member
\* itself when it has no other.
ObjectOf(f) ==
  Typed(f.types, IF f.value # None /\ f.props = <<>>
                 THEN << <<"_value", UnwrapOr(f.value, Null)>> >> ELSE f.props)

\* skip_to_end ends.
LeaveSkip(d) ==
  LET f == Top(d) IN IF f.element THEN Return(d, f.value) ELSE TakeTypeNames(Pop(d), f.name)

\* The element of the innermost call ends, and so does the call.
Leave(d) ==
  LET f == Top(d)
      below == Top(Pop(d))
  IN  CASE f.f = "Text" ->
             LET v == ScalarOf(f.tag, f.text) IN IF v = None THEN Fail(d) ELSE Return(d, v)
        [] f.f = "Obj" ->
             LET v == ObjectOf(f) IN Return(Keep(d, f.id, v), Some(v))
        [] f.f = "Members" -> SetTop(Pop(d), [below EXCEPT !.props = f.props])
        [] f.f = "List"    -> SetTop(Pop(d), [below EXCEPT !.value = Some(List(f.items))])
        [] f.f = "Dict"    -> SetTop(Pop(d), [below EXCEPT !.value = Some(Dict(f.entries))])
        [] f.f = "Entry"   -> SetTop(Pop(d), [below EXCEPT !.entries = Append(@, <<f.key, f.val>>)])
        [] f.f = "T"       -> SetTop(Pop(d), [below EXCEPT !.names = Append(@, f.text)])
        [] f.f = "Types"   ->
             SetTop([Pop(d) EXCEPT !.type_names = IF f.id = Absent THEN @ ELSE (f.id :> f.names) @@ @],
                    [below EXCEPT !.types = f.names])

\* The end tag each loop waits for; a skipped element counts its own.
Closing(f) ==
  CASE f.f = "Obj"   -> "Obj"
    [] f.f = "Dict"  -> "DCT"
    [] f.f = "Entry" -> "En"
    [] f.f = "T"     -> "T"
    [] f.f = "Types" -> "TN"
    [] OTHER         -> f.tag

AtEnd(d, e) ==
  LET f == Top(d)
  IN  CASE Inside(d) = "document" -> d
        [] Inside(d) = "Skip"     ->
             IF f.level = 1 THEN LeaveSkip(d) ELSE SetTop(d, [f EXCEPT !.level = @ - 1])
        [] OTHER                  -> IF e.tag = Closing(f) THEN Leave(d) ELSE d

\* Only the document, and what is skipped, may end unfinished.
AtEof(d) ==
  LET rest == IF Inside(d) = "Skip" THEN LeaveSkip(d) ELSE d
  IN  IF Inside(rest) = "document" THEN [rest EXCEPT !.status = "done"] ELSE Fail(rest)

\* One turn of the innermost loop; nothing more after an error.
Read(d, e) ==
  CASE d.status # "reading"                             -> d
    [] d.status = "reading" /\ e.k = "Start"            -> AtStart(d, e)
    [] d.status = "reading" /\ e.k = "Empty"            -> AtEmpty(d, e)
    [] d.status = "reading" /\ e.k = "Text"             -> AtText(d, e)
    [] d.status = "reading" /\ e.k = "End"              -> AtEnd(d, e)
    [] d.status = "reading" /\ e.k = "Eof"              -> AtEof(d)
    [] d.status = "reading" /\ e.k = "Malformed"        -> Fail(d)

\* All events of a document, half of them after the other half.
RECURSIVE ReadAll(_, _)
ReadAll(d, document) ==
  LET half == Len(document) \div 2
  IN  IF d.status # "reading" \/ document = <<>> THEN d
      ELSE IF half = 0 THEN Read(d, Head(document))
      ELSE ReadAll(ReadAll(d, SubSeq(document, 1, half)), SubSeq(document, half + 1, Len(document)))

\* parse_clixml: an Option of the values of a document.
ParseClixml(document) ==
  LET d == ReadAll(Reading(ReferencedIds(document)), Append(document, Eof))
  IN  IF d.status = "done" THEN Some(d.out) ELSE None
=============================================================================
