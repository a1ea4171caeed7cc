--------------------------- MODULE RegistryChain ---------------------------
(***************************************************************************)
(* The chains of NewServer in pkg/registry/chains/registryk8s: the options *)
(* it is given, the elements a call passes, and the branch it takes.       *)
(***************************************************************************)
EXTENDS Naturals, Sequences, SequencesExt

CONSTANTS Interdomain,  \* the names that carry a domain: interdomain.Is
          Everyone           \* who registryauthorize.Any() lets through: every client

\* An option sets one field of serverOptions to the clients it admits.
WithAuthorizeNSRegistryServer(admits) == [field |-> "nsServer", admits |-> admits]
WithAuthorizeNSERegistryServer(admits) == [field |-> "nseServer", admits |-> admits]
WithAuthorizeNSRegistryClient(admits) == [field |-> "nsClient", admits |-> admits]
WithAuthorizeNSERegistryClient(admits) == [field |-> "nseClient", admits |-> admits]

DefaultOptions ==
    [nsServer |-> Everyone, nseServer |-> Everyone,
     nsClient |-> Everyone, nseClient |-> Everyone]

Option == [field : DOMAIN DefaultOptions, admits : SUBSET Everyone]

Apply(opts, option) == [opts EXCEPT ![option.field] = option.admits]

\* Mutant of ServerOptions: the options are applied in the wrong order.
ServerOptionsReversed(options) ==
    FoldRight(LAMBDA option, opts : Apply(opts, option), options, DefaultOptions)

ServerOptions(options) == FoldLeft(Apply, DefaultOptions, options)

\* An endpoint goes to the proxy when its name, or one of its services, does.
NSEElements(name, services) ==
    <<"grpcmetadata", "updatepath", "authorize", "begin", "metadata">>
        \o (IF name \in Interdomain \/ services \cap Interdomain # {}
            THEN <<"connect">>
            ELSE <<"setregistrationtime", "etcd", "expire">>)

NSElements(name) ==
    <<"grpcmetadata", "updatepath", "authorize", "metadata", "setpayload">>
        \o (IF name \in Interdomain THEN <<"connect">> ELSE <<"etcd">>)

Precedes(a, b, path) ==
    \E i, j \in DOMAIN path : path[i] = a /\ path[j] = b /\ i < j
=============================================================================
