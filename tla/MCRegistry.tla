----------------------------- MODULE MCRegistry -----------------------------
(***************************************************************************)
(* A small instance of Registry, with slashes in names: two namespaces     *)
(* that share an entry, as "a" with "b/c" and "a/b" with "c" do, and one   *)
(* apart from both.                                                        *)
(***************************************************************************)
EXTENDS Registry

SlashedNamespace == {<<"a">>, <<"a", "b">>, <<"b">>}
SlashedService == {<<"c">>, <<"b", "c">>}

=============================================================================
