------------------------------ MODULE ClixmlText ------------------------------
(***************************************************************************)
(* The text of CLIXML elements and attributes: the escapes and base64 of   *)
(* src/clixml/encode.rs, their inverses in decode.rs and encode.rs, and    *)
(* what an XML reader does to the text on its way.                         *)
(*                                                                         *)
(* A string is a sequence of characters; "0041" stands for the four hex    *)
(* digits of the character A, and "&lt;" for those of an entity.           *)
(***************************************************************************)
EXTENDS Integers, SequencesExt

\* The code units of the model by their four hex digits.
Hex == [TAB |-> "0009", LF |-> "000A", CR |-> "000D", CTRL |-> "001F",
        A |-> "0041", UND |-> "005F", HI |-> "D83D", LO |-> "DE00"]
Digits == {Hex[u] : u \in DOMAIN Hex}
Units  == [d \in Digits |-> CHOOSE u \in DOMAIN Hex : Hex[u] = d]
Entity == ("<" :> "&lt;") @@ ("&" :> "&amp;")
Escape(u) == <<"_", "x", Hex[u], "_">>

-----------------------------------------------------------------------------
(* escape, escape_attr.                                                    *)

\* Variant: a whole escape is looked for, not its start.
EscapeOneWhole(s, i, attribute) ==
  CASE i + 3 <= Len(s) /\ s[i] = "_" /\ s[i + 1] = "x" /\ s[i + 3] = "_"
                                                             -> Escape("UND")
    [] s[i] \in DOMAIN Entity                                -> <<Entity[s[i]]>>
    [] s[i] \in {"TAB", "LF"} /\ attribute                   -> Escape(s[i])
    [] s[i] \in {"CR", "CTRL"}                               -> Escape(s[i])
    [] OTHER                                                 -> <<s[i]>>

\* One turn of escape_inner's loop, with a look at the next character.
EscapeOne(s, i, attribute) ==
  CASE s[i] \in DOMAIN Entity                                -> <<Entity[s[i]]>>
    [] s[i] = "_" /\ i < Len(s) /\ s[i + 1] \in {"x", "X"}   -> Escape("UND")
    [] s[i] \in {"TAB", "LF"} /\ attribute                   -> Escape(s[i])
    [] s[i] \in {"CR", "CTRL"}                               -> Escape(s[i])
    [] OTHER                                                 -> <<s[i]>>

EscapeInner(s, attribute) ==
  FlattenSeq([i \in DOMAIN s |-> EscapeOne(s, i, attribute)])

-----------------------------------------------------------------------------
(* The reader, read_text and name_attr.                                    *)

\* Ends of lines become LF (XML 1.0, 2.11), and in an attribute white space
\* becomes a space (3.3.3); then the entities are resolved.
Normalize(s, attribute) ==
  LET lines == SelectSeq([i \in DOMAIN s |->
                            CASE s[i] = "CR" -> "LF"
                              [] s[i] = "LF" /\ i > 1 /\ s[i - 1] = "CR" -> ""
                              [] OTHER -> s[i]],
                         LAMBDA c : c # "")
  IN  [i \in DOMAIN lines |->
         CASE attribute /\ lines[i] \in {"TAB", "LF"}         -> " "
           [] \E c \in DOMAIN Entity : Entity[c] = lines[i]   ->
                CHOOSE c \in DOMAIN Entity : Entity[c] = lines[i]
           [] OTHER                                           -> lines[i]]

\* A run of code units is decoded as UTF-16; a lone surrogate is U+FFFD.
Utf16(units) ==
  LET Pair(i) == units[i] = "HI" /\ i < Len(units) /\ units[i + 1] = "LO"
      Char(i) == CASE Pair(i)                                      -> <<"EMOJI">>
                   [] i > 1 /\ Pair(i - 1)                         -> <<>>
                   [] units[i] \in {"HI", "LO"} /\ ~Pair(i)
                        /\ ~(i > 1 /\ Pair(i - 1))                 -> <<"FFFD">>
                   [] OTHER                                        ->
                        <<IF units[i] = "UND" THEN "_" ELSE units[i]>>
  IN  FlattenSeq([i \in DOMAIN units |-> Char(i)])

\* split_pwsh_escape, at place i.
IsEscape(s, i) ==
  /\ i + 3 <= Len(s)
  /\ s[i] = "_" /\ s[i + 1] = "x" /\ s[i + 2] \in Digits /\ s[i + 3] = "_"

\* One character of decode_pwsh_escapes: the units of the run of escapes before
\* it, the text out so far, and how much of an escape is left to skip.
Unescape1(s, state, i) ==
  CASE state.skip > 0 -> [state EXCEPT !.skip = @ - 1]
    [] state.skip = 0 /\ IsEscape(s, i) ->
         [state EXCEPT !.units = Append(@, Units[s[i + 2]]), !.skip = 3]
    [] OTHER -> [out |-> Append(state.out \o Utf16(state.units), s[i]), units |-> <<>>, skip |-> 0]

DecodePwshEscapes(s) ==
  LET end == FoldLeft(LAMBDA state, i : Unescape1(s, state, i),
                      [out |-> <<>>, units |-> <<>>, skip |-> 0], [i \in DOMAIN s |-> i])
  IN  end.out \o Utf16(end.units)

\* EncodeString of the server: every control character is escaped, and what is
\* beyond the plane by its two units.
PwshEncodeString(s) ==
  FlattenSeq([i \in DOMAIN s |->
    CASE s[i] = "EMOJI"                         -> Escape("HI") \o Escape("LO")
      [] s[i] = "_" /\ i < Len(s) /\ s[i + 1] \in {"x", "X"} -> Escape("UND")
      [] s[i] \in {"TAB", "LF", "CR", "CTRL"}   -> Escape(s[i])
      [] s[i] \in DOMAIN Entity                 -> <<Entity[s[i]]>>
      [] OTHER                                  -> <<s[i]>>])

-----------------------------------------------------------------------------
(* base64_encode, base64_decode: a symbol is its number, the padding Pad,  *)
(* white space Space, any other character Junk.                            *)

Pad   == 64
Space == 65
Junk  == 66

\* The four symbols of a group of one to three bytes.
Base64Group(group) ==
  LET b == [i \in 1..3 |-> IF i <= Len(group) THEN group[i] ELSE 0]
      sextets == <<b[1] \div 4, (b[1] % 4) * 16 + b[2] \div 16,
                   (b[2] % 16) * 4 + b[3] \div 64, b[3] % 64>>
  IN  [i \in 1..4 |-> IF i <= Len(group) + 1 THEN sextets[i] ELSE Pad]

Base64Encode(bytes) ==
  FlattenSeq([g \in 1..((Len(bytes) + 2) \div 3) |->
                Base64Group(SubSeq(bytes, 3 * g - 2, IF 3 * g < Len(bytes) THEN 3 * g ELSE Len(bytes)))])

\* The byte whose bits start at bit 8 * j of the sextets.
ByteAt(sextets, j) ==
  LET left  == sextets[(8 * j) \div 6 + 1]
      right == sextets[(8 * j) \div 6 + 2]
  IN  CASE (8 * j) % 6 = 0 -> left * 4 + right \div 16
        [] (8 * j) % 6 = 2 -> (left % 16) * 16 + right \div 4
        [] (8 * j) % 6 = 4 -> (left % 4) * 64 + right

\* A set of at most one sequence of bytes.
Base64Decode(text) ==
  LET symbols == SelectSeq(text, LAMBDA c : c # Space)
      ends    == {k \in 0..Len(symbols) : \A i \in k + 1..Len(symbols) : symbols[i] = Pad}
      data    == SubSeq(symbols, 1, CHOOSE k \in ends : \A other \in ends : k <= other)
  IN  IF /\ Len(symbols) % 4 = 0
         /\ Len(symbols) - Len(data) <= 2
         /\ ToSet(data) \subseteq 0..63
      THEN {[j \in 1..((6 * Len(data)) \div 8) |-> ByteAt(data, j - 1)]}
      ELSE {}
=============================================================================
