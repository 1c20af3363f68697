------------------------------- MODULE MCText -------------------------------
(* The texts for the run of Text. *)
EXTENDS Text

MCMarkupTexts == BoundedSeq({"]", ">", Open}, 6)
MCBodyTexts == BoundedSeq({"&", "amp;", "lt;", "<", "'", "NUL"}, 3)

MCURLs ==
    LET optional(set) == set \cup {Absent}
    IN  [protocol : optional({<<"a">>}),
         login : optional(BoundedSeq({"a", ":", "%", "stray"}, 1)),
         password : BoundedSeq({"@", ":", "+", "stray"}, 2) \cup {<<"/", "/">>},
         host : {<<"h">>, <<>>},
         port : optional({<<>>, <<"0">>, <<"1">>, <<"6", "5", "5", "3", "5">>,
                          <<"6", "5", "5", "3", "6">>, <<"0", "0", "0", "0", "0", "1">>, <<"+", "1">>}),
         path : optional({<<>>, <<"a">>, <<":">>, <<"@">>, <<"a", "/">>, <<"stray", "a">>,
                          <<"stray", "4", "h">>, <<" ", "a">>, <<":", "6">>,
                          <<"@", "h">>, <<":", "@">>, <<"a", ":", "/", "/">>})]
=============================================================================
