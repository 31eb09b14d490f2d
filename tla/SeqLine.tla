------------------------------ MODULE SeqLine ------------------------------
(***************************************************************************)
(* One line of a sequence file: SeqParser::ParseLine                       *)
(* (src/src/SeqParser.cpp) with the scanners RemoveComment and             *)
(* RemoveSpaces (src/src/SeqParser.h), which read the line character by    *)
(* character.                                                              *)
(*                                                                         *)
(* A line is a sequence of characters; a keyword, and the name of a basic  *)
(* type, counts as one of them.  Positions start at 1, not at 0.  White    *)
(* stands for a blank or a tab.                                            *)
(***************************************************************************)
EXTENDS Integers, Sequences, FiniteSets

CONSTANTS Characters,  \* that a line may contain
          Lines   \* records [text, meant]: a line, and what ParseLine is
                  \* meant to store for it, Anything if nobody knows

ASSUME LinesAssumption ==
  /\ {"/", " "} \subseteq Characters
  /\ \A l \in Lines : l.text \in Seq(Characters)

VARIABLES line, meant, pos,
          comment,   \* the variables of RemoveComment
          spaces,    \* the variables of RemoveSpaces
          stored, pc

vars == <<line, meant, pos, comment, spaces, stored, pc>>

Quote == "\""
White == " "
(* Of the characters in filter, and of the types in BASIC_TYPES, those     *)
(* that the lines checked contain.                                         *)
Special == {"(", ")", "-", ">", "/", ",", ";", "=", "."}
BasicTypes == {"bool", "int"}

If(condition, s) == IF condition THEN s ELSE <<>>

-----------------------------------------------------------------------------
CommentStart == [out |-> <<>>, text |-> FALSE, slashes |-> 0]

(* Variant: the slashes are counted without a limit.                       *)
CommentStepUncapped(s, ch) ==
  LET text == IF ch = Quote THEN ~s.text ELSE s.text
      code == ~text /\ ch # Quote
      slashes == IF code /\ ch = "/" THEN s.slashes + 1
                 ELSE IF code /\ s.slashes = 1 THEN 0 ELSE s.slashes
  IN  [text |-> text,
       slashes |-> slashes,
       out |-> s.out \o If(code /\ ch # "/" /\ s.slashes = 1, <<"/">>)
                     \o If(slashes < 1, <<ch>>)]

(* Variant: a slash that does not begin a comment is not restored.         *)
CommentStepLossy(s, ch) ==
  LET text == IF ch = Quote THEN ~s.text ELSE s.text
      code == ~text /\ ch # Quote
      slashes == IF code /\ ch = "/"
                 THEN IF s.slashes < 2 THEN s.slashes + 1 ELSE 2
                 ELSE IF code /\ s.slashes = 1 THEN 0 ELSE s.slashes
  IN  [text |-> text, slashes |-> slashes, out |-> s.out \o If(slashes < 1, <<ch>>)]

(* A slash is held back until the next character outside of a text tells   *)
(* whether it begins a comment.                                            *)
CommentStep(s, ch) ==
  LET text == IF ch = Quote THEN ~s.text ELSE s.text
      code == ~text /\ ch # Quote
      slashes == IF code /\ ch = "/"
                 THEN IF s.slashes < 2 THEN s.slashes + 1 ELSE 2
                 ELSE IF code /\ s.slashes = 1 THEN 0 ELSE s.slashes
  IN  [text |-> text,
       slashes |-> slashes,
       out |-> s.out \o If(code /\ ch # "/" /\ s.slashes = 1, <<"/">>)
                     \o If(slashes < 1, <<ch>>)]

SpacesStart ==
  [out |-> <<>>, text |-> FALSE, white |-> FALSE, special |-> FALSE, start |-> FALSE]

(* Variant: a special character does not swallow the blank after it.       *)
SpacesStepLeft(s, ch) ==
  LET text == IF ch = Quote THEN ~s.text ELSE s.text
      plain == text \/ ch = Quote
  IN  IF ~plain /\ ch = White
      THEN [s EXCEPT !.white = s.start]
      ELSE [text |-> text,
            white |-> FALSE,
            special |-> IF plain THEN s.special ELSE ch \in Special,
            start |-> TRUE,
            out |-> s.out \o If(s.white /\ (plain \/ ch \notin Special), <<White>>)
                          \o <<ch>>]

(* white and special are what is left of _white and _special after a turn: *)
(* a blank has not been written yet, and the last character outside of a   *)
(* text that was no blank was special.  A text leaves special as it was.   *)
SpacesStep(s, ch) ==
  LET text == IF ch = Quote THEN ~s.text ELSE s.text
      plain == text \/ ch = Quote
  IN  IF ~plain /\ ch = White
      THEN [s EXCEPT !.white = s.start /\ ~s.special]
      ELSE [text |-> text,
            white |-> FALSE,
            special |-> IF plain THEN s.special ELSE ch \in Special,
            start |-> TRUE,
            out |-> s.out \o If(s.white /\ (plain \/ ch \notin Special), <<White>>)
                          \o <<ch>>]

-----------------------------------------------------------------------------
(* std::string::find and substr.  A negative count turns into one beyond   *)
(* the end of any line; a position behind the end throws.                  *)
Matches(s, pattern, from) ==
  {i \in from .. Len(s) - Len(pattern) + 1 :
     SubSeq(s, i, i + Len(pattern) - 1) = pattern}

Find(s, pattern, from) ==
  CHOOSE i \in Matches(s, pattern, from) :
    \A j \in Matches(s, pattern, from) : i <= j

Rest(s, from) == SubSeq(s, from, Len(s))

Cut(s, from, count) ==
  IF count < 0 \/ from + count > Len(s) THEN Rest(s, from)
  ELSE SubSeq(s, from, from + count - 1)

Nothing == [kind |-> "nothing"]
Throws == [kind |-> "throws"]
Anything == [kind |-> "anything"]

Object(name, class) == [kind |-> "object", name |-> name, class |-> class]

(* using "path" as name                                                    *)
ParseUsing(s) ==
  LET offset == Find(s, <<"using", White>>, 1) + 3
      as == <<White, "as", White>>
  IN  IF Matches(s, as, offset) = {} THEN Nothing
      ELSE LET found == Find(s, as, offset)
           IN  Object(Rest(s, found + 3),
                      <<"SOURCE">> \o Cut(s, offset, found - offset - 1))

(* Variant: the offset counts the quote in, as that of "using" does.       *)
ParseIncludeFarther(s) ==
  LET a == Rest(s, Find(s, <<"#include", White>>, 1) + 3)
      path == Cut(a, 2, Len(a) - 2)
  IN  IF a = <<>> THEN Throws ELSE Object(path, <<"SEQUENCES">> \o path)

(* #include "path"                                                         *)
ParseInclude(s) ==
  LET a == Rest(s, Find(s, <<"#include", White>>, 1) + 2)
      path == Cut(a, 2, Len(a) - 2)
  IN  IF a = <<>> THEN Throws ELSE Object(path, <<"SEQUENCES">> \o path)

(* Variant: the parameters are cut off at the arrow itself.                *)
ParseFunctionBracket(s) ==
  LET offset == Find(s, <<"function", White>>, 1) + 2
      arrows == Matches(s, <<"-", ">">>, offset)
      c == IF arrows = {} THEN Len(s) - 1 ELSE Find(s, <<"-", ">">>, offset)
      b == Find(s, <<"(">>, offset)
  IN  IF Matches(s, <<"(">>, offset) = {} THEN Nothing
      ELSE [kind |-> "function",
            name |-> Cut(s, offset, b - offset),
            params |-> Cut(s, b + 1, c - b - 1),
            returns |-> If(arrows # {}, Rest(s, c + 2))]

(* function name(params)->returns                                          *)
ParseFunction(s) ==
  LET offset == Find(s, <<"function", White>>, 1) + 2
      arrows == Matches(s, <<"-", ">">>, offset)
      c == IF arrows = {} THEN Len(s) - 1 ELSE Find(s, <<"-", ">">>, offset)
      b == Find(s, <<"(">>, offset)
  IN  IF Matches(s, <<"(">>, offset) = {} THEN Nothing
      ELSE [kind |-> "function",
            name |-> Cut(s, offset, b - offset),
            params |-> Cut(s, b + 1, c - b - 2),
            returns |-> If(arrows # {}, Rest(s, c + 2))]

(* type name=value;                                                        *)
ParseVariable(s) ==
  LET ends == IF Matches(s, <<"=">>, 3) # {} THEN {Find(s, <<"=">>, 3)}
              ELSE IF Matches(s, <<";">>, 3) # {} THEN {Find(s, <<";">>, 3)}
              ELSE {Len(s) + 1}
  IN  IF Len(s) >= 2 /\ s[1] \in BasicTypes /\ s[2] = White
      THEN Object(SubSeq(s, 3, (CHOOSE e \in ends : TRUE) - 1), <<s[1]>>)
      ELSE Nothing

Parsed(s) ==
  IF Matches(s, <<"using", White>>, 1) # {} THEN ParseUsing(s)
  ELSE IF Matches(s, <<"#include", White>>, 1) # {} THEN ParseInclude(s)
  ELSE IF Matches(s, <<"function", White>>, 1) # {} THEN ParseFunction(s)
  ELSE ParseVariable(s)

-----------------------------------------------------------------------------
Init ==
  /\ \E l \in Lines : line = l.text /\ meant = l.meant
  /\ pos = 1
  /\ comment = CommentStart
  /\ spaces = SpacesStart
  /\ stored = Nothing
  /\ pc = "RemoveComment"

RemoveComment ==
  /\ pc = "RemoveComment"
  /\ pos <= Len(line)
  /\ comment' = CommentStep(comment, line[pos])
  /\ pos' = pos + 1
  /\ UNCHANGED <<line, meant, spaces, stored, pc>>

(* What is left of the line is the input of the next scanner.              *)
CommentRemoved ==
  /\ pc = "RemoveComment"
  /\ pos > Len(line)
  /\ pos' = 1
  /\ pc' = "RemoveSpaces"
  /\ UNCHANGED <<line, meant, comment, spaces, stored>>

RemoveSpaces ==
  /\ pc = "RemoveSpaces"
  /\ pos <= Len(comment.out)
  /\ spaces' = SpacesStep(spaces, comment.out[pos])
  /\ pos' = pos + 1
  /\ UNCHANGED <<line, meant, comment, stored, pc>>

ParseLine ==
  /\ pc = "RemoveSpaces"
  /\ pos > Len(comment.out)
  /\ stored' = Parsed(spaces.out)
  /\ pc' = "Parsed"
  /\ UNCHANGED <<line, meant, pos, comment, spaces>>

Next == RemoveComment \/ CommentRemoved \/ RemoveSpaces \/ ParseLine

Spec == Init /\ [][Next]_vars

-----------------------------------------------------------------------------
(* The counters of the scanners keep to the few values that their tests    *)
(* tell apart, and the scanners write nothing they have not read but a     *)
(* slash that was held back and one blank.                                 *)
TypeOK ==
  /\ pc \in {"RemoveComment", "RemoveSpaces", "Parsed"}
  /\ pos \in 1 .. Len(line) + 1
  /\ comment.text \in BOOLEAN /\ comment.slashes \in 0 .. 2
  /\ Len(comment.out) <= Len(line)
  /\ \A flag \in {"text", "white", "special", "start"} : spaces[flag] \in BOOLEAN
  /\ Len(spaces.out) <= Len(comment.out)

(* After i characters, a text has begun that has not ended yet.            *)
Open(s, i) == Cardinality({j \in 1 .. i : s[j] = Quote}) % 2 = 1

InText(s, i) == s[i] = Quote \/ Open(s, i)

CommentAt(s) ==
  {i \in 1 .. Len(s) - 1 : s[i] = "/" /\ s[i + 1] = "/" /\ ~InText(s, i)}

(* The line up to the first two slashes that are not in a text.            *)
WithoutComment(s) ==
  IF CommentAt(s) = {} THEN s
  ELSE SubSeq(s, 1, (CHOOSE i \in CommentAt(s) : \A j \in CommentAt(s) : i <= j) - 1)

(* A slash that neither the next character nor a comment follows.          *)
Dangling(s) ==
  \E i \in DOMAIN s : /\ s[i] = "/" /\ ~InText(s, i)
                      /\ i = Len(s) \/ s[i + 1] = Quote

(* SeqParser.h: RemoveComment removes comments, at the end of the line,    *)
(* and nothing else, slashes in texts and single slashes included; but for *)
(* a single slash right before a text or at the end.                       *)
CommentsRemoved ==
  pc # "RemoveComment" /\ ~Dangling(WithoutComment(line)) =>
    comment.out = WithoutComment(line)

(* A blank outside of texts is unnecessary, SeqParser.h says, if it is     *)
(* double, or before or after a special character.  So one is needed after *)
(* a character that is neither blank nor special, if the next one that is  *)
(* no blank is there and not special.                                      *)
Solid(s, j) == InText(s, j) \/ s[j] # White

IsSpecial(s, j) == ~InText(s, j) /\ s[j] \in Special

PlainNext(s, i) ==
  \E j \in i + 1 .. Len(s) : /\ Solid(s, j) /\ ~IsSpecial(s, j)
                             /\ \A k \in i + 1 .. j - 1 : ~Solid(s, k)

Needed(s, i) ==
  i > 1 /\ Solid(s, i - 1) /\ ~IsSpecial(s, i - 1) /\ PlainNext(s, i)

Picked(s, positions) ==
  LET nth[n \in 0 .. Len(s)] ==
        IF n = 0 THEN <<>> ELSE nth[n - 1] \o If(n \in positions, <<s[n]>>)
  IN  nth[Len(s)]

Compact(s) == Picked(s, {i \in DOMAIN s : Solid(s, i) \/ Needed(s, i)})

(* Such a blank that follows a text, and before the text a special         *)
(* character: the scanner forgets the special one only when it meets       *)
(* another character outside of texts.                                     *)
LastSpecial(s, n) ==
  \E j \in 1 .. n : /\ IsSpecial(s, j)
                    /\ \A k \in j + 1 .. n : InText(s, k) \/ s[k] = White

Swallows(s) ==
  \E i \in DOMAIN s : /\ ~Solid(s, i) /\ Needed(s, i)
                      /\ InText(s, i - 1) /\ LastSpecial(s, i - 1)

(* SeqParser.h: RemoveSpaces removes unnecessary blanks and leaves every   *)
(* other character, and the texts, alone; but on lines with a blank behind *)
(* a text that follows a special character, which it removes although it   *)
(* is neither double nor next to a special character.                      *)
SpacesRemoved ==
  pc = "Parsed" /\ ~Swallows(comment.out) => spaces.out = Compact(comment.out)

(* The compact forms of the declarations.  None may hold the keyword of a  *)
(* form that ParseLine looks for before; a path may not hold what ends it, *)
(* nor may a name or a parameter.                                          *)
Without(s, patterns) == \A p \in patterns : Matches(s, p, 1) = {}

IsUsing(s, path, name) ==
  /\ s = <<"using", White, Quote>> \o path \o <<Quote, White, "as", White>> \o name
  /\ Without(path, {<<White, "as", White>>})

IsInclude(s, path) ==
  /\ s = <<"#include", White, Quote>> \o path \o <<Quote>>
  /\ Without(s, {<<"using", White>>})

IsFunction(s, name, params, returns) ==
  /\ s = <<"function", White>> \o name \o <<"(">> \o params \o <<")", "-", ">">> \o returns
  /\ Without(s, {<<"using", White>>, <<"#include", White>>})
  /\ Without(name, {<<"(">>, <<"-", ">">>})
  /\ Without(params, {<<"-", ">">>})

IsVariable(s, type, name) ==
  LET rest == Rest(s, Len(name) + 3)
  IN  /\ s = <<type>> \o <<White>> \o name \o rest
      /\ Without(s, {<<"using", White>>, <<"#include", White>>, <<"function", White>>})
      /\ Without(name, {<<"=">>, <<";">>})
      /\ rest = <<>> \/ rest[1] = "=" \/ (rest[1] = ";" /\ Without(rest, {<<"=">>}))

Texts == Seq(Characters)

Declares(s, what) ==
  \/ /\ what.kind = "object"
     /\ {what.name, Tail(what.class)} \subseteq Texts
     /\ \/ /\ IsUsing(s, Tail(what.class), what.name)
           /\ what = Object(what.name, <<"SOURCE">> \o Tail(what.class))
        \/ /\ IsInclude(s, what.name)
           /\ what = Object(what.name, <<"SEQUENCES">> \o what.name)
        \/ \E t \in BasicTypes :
             IsVariable(s, t, what.name) /\ what = Object(what.name, <<t>>)
  \/ /\ what.kind = "function"
     /\ {what.name, what.params, what.returns} \subseteq Texts
     /\ IsFunction(s, what.name, what.params, what.returns)
     /\ what = [kind |-> "function", name |-> what.name, params |-> what.params,
                returns |-> what.returns]

(* A declaration, however it is spaced and commented.                      *)
IsDeclaration(l) ==
  /\ ~Dangling(WithoutComment(l.text)) /\ ~Swallows(WithoutComment(l.text))
  /\ Declares(Compact(WithoutComment(l.text)), l.meant)

(* However it is spaced and commented, a line that declares an object, a   *)
(* variable, an include or a function is stored as what it says.           *)
ParsedAsMeant == pc = "Parsed" /\ meant # Anything => stored = meant

(* Only a line that ends inside a text makes ParseLine, and with it the    *)
(* whole Rebuild, throw.                                                   *)
ThrowsInTextOnly ==
  stored = Throws => Open(line, Len(line))
=============================================================================
