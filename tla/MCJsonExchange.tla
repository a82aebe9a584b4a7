--------------------------- MODULE MCJsonExchange ---------------------------
(* Small instances of JsonExchange: strings of up to three bytes, values   *)
(* up to two levels deep, and every short text of the parser's symbols.    *)
EXTENDS JsonExchange, SequencesExt

MCBytes == {"a", "q", "b", "nl", "nul", "C3", "80", "FF"}

Str(s) == Value("string", s, <<>>)
One    == Value("number", <<"1">>, <<>>)
Minus  == Value("number", <<"-", "1">>, <<>>)
Null   == Value("null", <<>>, <<>>)
True   == Value("true", <<>>, <<>>)
Arr(s) == Value("array", <<>>, s)
Obj(s) == Value("object", <<>>, s)
Member(key, v) == [v EXCEPT !.keyed = TRUE, !.key = key]

MCStrings == SeqOf(MCBytes, 2) \cup
             {<<"E2", "80", "80">>, <<"E2", "80", "a">>, <<"a", "E2", "80">>,
              <<"C3", "80", "80">>, <<"a", "b", "q">>}
MCLeaves  == {One, Null, Str(<<>>), Str(<<"q">>)}
MCKeys    == {<<>>, <<"a">>, <<"C3">>}

MCFlat == {Arr(s) : s \in SeqOf({One, Null, Str(<<"b">>)}, 2)}
          \cup {Obj(<<>>)}
          \cup {Obj(<<Member(k, v)>>) : k \in MCKeys, v \in MCLeaves}
          \cup {Obj(<<Member(k1, v), Member(k2, w)>>) :
                  k1, k2 \in MCKeys, v \in {True, Str(<<>>)}, w \in {Minus, Str(<<"q">>)}}

MCValues == {Str(s) : s \in MCStrings} \cup MCLeaves \cup MCFlat
            \cup {Obj(<<Member(<<"a">>, v), Member(<<>>, Arr(<<v, True>>))>>) :
                    v \in MCFlat}

MCJunk == SeqOf({"{", "}", "[", "]", ",", ":", "q", "b", "u", "Xhigh", "1", "_"}, 3)
          \cup {<<"q", "b", "u", "Xhigh", "b", "u", "Xlow", "q">>,
                <<"q", "b", "u", "Xhigh", "b", "u", "Xnul", "q">>,
                <<"q", "b", "u", "Xlow", "q">>,
                <<"1", "1", "1", "1">>,
                <<"[", "1", ",", "]">>,
                <<"{", "q", "a", "q", ":", "1", ",", "}">>}
=============================================================================
