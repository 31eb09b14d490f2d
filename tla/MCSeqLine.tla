----------------------------- MODULE MCSeqLine -----------------------------
(***************************************************************************)
(* All short lines over few characters, and declarations written with      *)
(* and without additional blanks and a comment.                            *)
(***************************************************************************)
EXTENDS SeqLine

CONSTANT MaxLength   \* of the lines over FewCharacters

MCCharacters ==
  {"a", "b", "f", White, Quote, "using", "as", "#include", "function"}
    \cup Special \cup BasicTypes

FewCharacters == {"a", ".", White, Quote, "/", "#include"}

AnyLines ==
  {[text |-> t, meant |-> Anything] :
     t \in UNION {[1 .. n -> FewCharacters] : n \in 0 .. MaxLength}}

(* Blanks around every special character outside of texts, and in front.   *)
Wide(text) ==
  LET wide[n \in 0 .. Len(text)] ==
        IF n = 0 THEN <<White>>
        ELSE wide[n - 1] \o IF InText(text, n) THEN <<text[n]>>
                            ELSE IF text[n] = White THEN <<White, White>>
                            ELSE IF text[n] \in Special THEN <<White, text[n], White>>
                            ELSE <<text[n]>>
  IN  wide[Len(text)]

Written(text, what) ==
  {[text |-> t \o remark, meant |-> what] :
     t \in {text, Wide(text)},
     remark \in {<<>>, <<White, "/", "/", Quote, "function", White, "b", "(", ")">>}}

Path == <<Quote, "a", "/", "/", White, "b", Quote>>
PathText == SubSeq(Path, 2, 6)

Params == {<<>>, <<"int", White, "a">>, <<"int", White, "a", ",", "bool", White, "b">>}
Returns == {<<>>, <<"bool", White, "a">>}

Signature(p) == <<"function", White, "f", "(">> \o p \o <<")">>
Declared(p, r) == [kind |-> "function", name |-> <<"f">>, params |-> p, returns |-> r]

ObjectLines ==
  Written(<<"using", White>> \o Path \o <<White, "as", White, "b">>,
          Object(<<"b">>, <<"SOURCE">> \o PathText))
  \cup Written(<<"#include", White>> \o Path,
               Object(PathText, <<"SEQUENCES">> \o PathText))
  \cup UNION {Written(<<"int", White, "a">> \o v, Object(<<"a">>, <<"int">>)) :
              v \in {<<>>, <<";">>, <<"=", "b", ";">>, <<"=", Quote, "/", "/", Quote>>}}

ArrowLines ==
  UNION {Written(Signature(p) \o <<"-", ">">> \o r, Declared(p, r)) :
         p \in Params, r \in Returns}

PlainLines == UNION {Written(Signature(p), Declared(p, <<>>)) : p \in Params}

(* What the theorem about ParsedAsMeant assumes of its lines.              *)
ASSUME DeclarationsDeclare == \A l \in ObjectLines \cup ArrowLines : IsDeclaration(l)

GoodLines == AnyLines \cup ObjectLines \cup ArrowLines
=============================================================================
