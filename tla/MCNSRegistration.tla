-------------------------- MODULE MCNSRegistration --------------------------
(***************************************************************************)
(* An instance of NSRegistration for TLC: two clients whose replicas share *)
(* a namespace or not, a third one that authorize refuses.  The client c2  *)
(* also asks for a service of another domain.                              *)
(***************************************************************************)
EXTENDS NSRegistration

CONSTANTS c1, c2, c3, f1, n1, remoteName, A, B

Placements == {[x \in Clients |-> A], [x \in Clients |-> IF x = c1 THEN A ELSE B]}
RequestsOf == [x \in Clients |-> IF x = c2 THEN {n1, remoteName} ELSE {n1}]

\* The last option for an authorize element is the one that counts.
OptionList == <<WithAuthorizeNSRegistryServer({c3}),
                WithAuthorizeNSRegistryServer({c1, c2}),
                WithAuthorizeNSRegistryClient({c2}),
                WithAuthorizeNSERegistryServer({c3})>>
=============================================================================
