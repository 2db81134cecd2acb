----------------------------- MODULE MCExtension -----------------------------
(***************************************************************************)
(* Small instances of the parts of Extension: values of every kind, nested *)
(* up to and beyond the depth allowed; numbers of nine and ten characters; *)
(* URLs with and without a scheme, brackets, a port and a path; replies of *)
(* up to three bytes in up to two chunks.  The accounts and the wireless   *)
(* interfaces are those of MCStore.  The cache has room for two or three.  *)
(***************************************************************************)
EXTENDS Extension, MCStore

CONSTANTS t1, t2, t3, f1, f2, o1, o2, k0, k1, k2, k3

\* Values, made from their parts.
One(n) == Leaf(n)
N(h) == Leaf(JsNumber(h))
S(s) == Leaf(JsString(s))
A(items) == Built(JsArray(Len(items)), Items(items))
O(members) == Built(JsObject(DOMAIN members), Fields(members))

MCValues ==
    {One(Js(t)) : t \in {"undefined", "true", "NaN", "function", "buffer"}}
        \cup {N(h) : h \in {3, 246913578, 2000000000, -246913578}}
        \cup {S(<<"k", "astral", "control", "nul", "k">>), S(<<"astral", "astral">>),
              A(<<>>),
              A(<<N(2), S(<<"separator">>)>>),
              A(<<A(<<A(<<One(Js("false"))>>)>>)>>),
              A(<<A(<<A(<<A(<<>>)>>)>>)>>),
              O(<<>>),
              O(<<"k">> :> N(2)),
              O((<<>> :> N(4)) @@ (<<"astral">> :> A(<<One(Js("null"))>>))),
              O((<<"k", "nul">> :> N(2)) @@ (<<"k">> :> O(<<"nul">> :> S(<<"nul">>)))),
              O(<<"control">> :> O(<<"k">> :> A(<<>>)))}

MCUrls ==
    {u \in [scheme : {<<>>, <<"http://">>, <<"https://">>}, brackets : BOOLEAN,
            host : {<<>>, <<"portal">>, <<":", ":", "1">>},
            port : {<<>>, <<"8080">>}, path : {<<>>, <<"/">>, <<"/", "a", ":", "b", "/">>}] :
        (u.host = <<":", ":", "1">>) = u.brackets}

MCShapes ==
    {s \in [blank : {"crlf", "lf"}, reason : BOOLEAN, frame : {"length", "chunked", "close"},
            ends : {<<>>, <<2>>, <<2, 3>>}, inBody : 0..1,
            to : {<<>>, <<"quote", "control", "backslash", "letter">>}] :
        s.inBody <= Len(s.ends) /\ (s.to # <<>>) = (s.frame = "close")}

\* One entry is as large as two others, and one is never cached.
MCSizes == (k0 :> 0) @@ (k1 :> 1) @@ (k2 :> 2) @@ (k3 :> 1)

MCLimits == {-1, 2, 3}

Symmetric == Permutations({t1, t2, t3}) \cup Permutations({f1, f2}) \cup Permutations({o1, o2})
=============================================================================
