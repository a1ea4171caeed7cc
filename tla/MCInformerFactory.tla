------------------------- MODULE MCInformerFactory -------------------------
(***************************************************************************)
(* The informer factory for TLC: two namespaces with an object each, and a *)
(* factory for all namespaces or, with the last option given, for one.     *)
(***************************************************************************)
EXTENDS InformerFactory

CONSTANTS c1, c2

MCKeys == {<<"one", "a">>, <<"two", "a">>}
MCChanging == {<<"networkservices", <<"one", "a">> >>,
               <<"networkserviceendpoints", <<"two", "a">> >>}
MCUses == {[options |-> <<"two", "one">>,
            wants |-> (c1 :> {"networkservices"}) @@ (c2 :> Types)],
           [options |-> << >>, wants |-> [c \in {c1, c2} |-> {"networkservices"}]]}
=============================================================================
