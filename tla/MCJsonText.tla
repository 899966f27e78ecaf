------------------------------ MODULE MCJsonText ------------------------------
(***************************************************************************)
(* Objects of up to two pairs, one of them holding an object at most, or   *)
(* one and another in it, with every kind of value and the strings that    *)
(* need care, some with characters that a client writes as \t or \u; and   *)
(* texts like those of test_anti_parsing.                                  *)
(***************************************************************************)
EXTENDS JsonText

ThreeDigits == <<"0", "1", "2">>

EscapedLetter == [c \in {"tab", "unicode"} |-> IF c = "tab" THEN "t" ELSE "u"]

Strings == {<<>>, <<"a">>, <<Escape>>, <<Escape, Quote>>, <<"}">>, <<" ", ",">>,
            <<"tab", Escape>>, <<"unicode", "0">>}

Leaves == {String(s) : s \in Strings} \cup {Number(n) : n \in {0, 3, 15}}
            \cup {Boolean(b) : b \in BOOLEAN}

Behind == {Quote, Escape, "}", "a"}

Keys == {<<"a">>, <<Quote, ":">>, <<"tab">>}

Nodes(depth, keys, items) == [depth : {depth}, key : keys, item : items]

Singles(depth, keys, items) == {<<n>> : n \in Nodes(depth, keys, items)}

Concatenated(S, T) == {s \o t : s \in S, t \in T}

Inner == Concatenated(Singles(1, Keys, {Object}),
                      {<<>>} \cup Singles(2, Keys, {String(<<Escape, Quote>>),
                                                    Number(3)}))

Deep == Concatenated(Singles(1, Keys, {Object}),
                     Concatenated(Singles(2, {<<"a">>}, {Object}),
                                  Singles(3, {<<>>}, {Object, Number(3)})))

MCValues ==
  Concatenated(
    {<<[depth |-> 0, key |-> <<>>, item |-> Object]>>},
    {<<>>} \cup Singles(1, Keys, Leaves) \cup Inner
      \cup Concatenated(Singles(1, Keys, Leaves) \cup Inner \cup Deep,
                        Singles(1, {<<"a">>}, {String(<<"}">>), Number(0), Object})))

Texts == {<<"{", Quote, "a", Quote, "}">>,
          <<"{", Quote, "a", Quote, ":", "0", ",", "}">>,
          <<"{", "{", Quote, "a", Quote, ":", "0", "}", "}">>,
          <<"{", Quote, "a", Quote, ":", "{", Quote, "a", Quote, ":",
            Quote, "a", Quote, Quote, ":", "1", "}", "}">>}
=============================================================================
