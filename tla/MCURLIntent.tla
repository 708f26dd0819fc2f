------------------------------ MODULE MCURLIntent ------------------------------
(***************************************************************************)
(* Short names over the characters that matter, and URLs with every short  *)
(* ending.                                                                 *)
(***************************************************************************)
EXTENDS URLIntent

Strings(chars, n) == UNION {[1 .. k -> chars] : k \in 0 .. n}

MCIntents ==
  {MakeIntent(act, user, coll, name, option) :
    act \in {"view", "api", "upload"}, user \in Strings({"g", "/", "%"}, 2), coll \in Strings({"2", "/", "?"}, 3),
    name \in Strings({"2", "g", "/"}, 2) \cup {<<"g", "/", "2">>}, option \in {<<>>, <<"g", "?">>}}
  \cup {MakeIntent("lib", <<>>, <<>>, name, <<>>) : name \in Strings({"g", "/", "#"}, 3)}
  \cup {MakeAction(act) : act \in {"login", "logout", "home"}}
  \cup {MakeQuery(target, option) : target \in QueryTargets, option \in {<<>>, <<"g">>}}

Beginnings ==
  {<<>>, <<"/">>, <<"/", "login">>, <<"/", "lib", "/">>, <<"/", "query", "/", "blob">>, <<"/", "api">>,
   <<"/", "view", "/", "g">>, <<"/", "view", "/", "g", "/">>, <<"/", "upload", "/", "g", "/">>}

MCTargets == {beginning \o ending : beginning \in Beginnings, ending \in Strings({"g", "/", "%", "2", "3", "F", "?"}, 4)} \ {<<>>}
=============================================================================
