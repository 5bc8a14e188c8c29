----------------------------- MODULE MCRegistry -----------------------------
(***************************************************************************)
(* A registry and two clients.  s is a symbol in CBOR, x an index of it in *)
(* JSON.  The first client reads, asks and posts, the second keeps a local *)
(* store and pushes from it.                                               *)
(***************************************************************************)
EXTENDS Registry, TLC

CONSTANTS s, x, c1, c2, stray

MCImports  == (s :> {} @@ x :> {s})
MCForm     == (s :> "cbor" @@ x :> "json")
MCCbor     == (s :> s @@ x :> Foreign)
MCEnvelope == (s :> s @@ x :> NoId)
MCCalls    == (c1 :> {<<"get", s>>, <<"getBytes", x>>, <<"has", s>>, <<"run", s>>,
                      <<"imports", x>>, <<"post", s>>}
                @@ c2 :> {<<"push", s>>, <<"push", x>>, <<"put", s>>, <<"index", x>>})
MCModules  == {<<s, s>>, <<s, x>>}
=============================================================================
