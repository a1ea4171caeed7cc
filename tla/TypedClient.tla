---------------------------- MODULE TypedClient ----------------------------
(***************************************************************************)
(* The generated clients of the two resources (pkg/tools/k8s/client/       *)
(* clientset/versioned/typed/networkservicemesh.io/v1): the request each   *)
(* call turns into, what it returns, and what the API server, which is     *)
(* external, makes of the request.                                         *)
(*                                                                         *)
(* A store maps a key <<namespace, name>> to an object with a version, the *)
(* resourceVersion, or to NoObject.  A request carries the version it is   *)
(* conditional on, 0 if none, and its timeoutSeconds, 0 if none.           *)
(***************************************************************************)
EXTENDS Naturals

CONSTANT NoObject  \* what a store holds under a free key

AllNamespaces == ""
NoName == ""

Request(verb, resource, namespace, name) ==
    [verb |-> verb, resource |-> resource, namespace |-> namespace, name |-> name,
     version |-> 0, timeout |-> 0]

ServiceRequest(verb, ns, name) == Request(verb, "networkservices", ns, name)
EndpointRequest(verb, ns, name) == Request(verb, "networkserviceendpoints", ns, name)
-----------------------------------------------------------------------------
ServiceCreate(ns, name) == ServiceRequest("POST", ns, name)
ServiceGet(ns, name) == ServiceRequest("GET", ns, name)
\* The name in the path is the name of the object that is sent.
ServiceUpdate(ns, object) ==
    [ServiceRequest("PUT", ns, object.name) EXCEPT !.version = object.version]
ServiceDelete(ns, name, version) ==
    [ServiceRequest("DELETE", ns, name) EXCEPT !.version = version]
ServiceList(ns) == ServiceRequest("LIST", ns, NoName)
ServiceWatch(ns, seconds) ==
    [ServiceRequest("WATCH", ns, NoName) EXCEPT !.timeout = seconds]

EndpointCreate(ns, name) == EndpointRequest("POST", ns, name)
EndpointGet(ns, name) == EndpointRequest("GET", ns, name)
EndpointUpdate(ns, object) ==
    [EndpointRequest("PUT", ns, object.name) EXCEPT !.version = object.version]
EndpointDelete(ns, name, version) ==
    [EndpointRequest("DELETE", ns, name) EXCEPT !.version = version]
EndpointList(ns) == EndpointRequest("LIST", ns, NoName)
EndpointWatch(ns, seconds) ==
    [EndpointRequest("WATCH", ns, NoName) EXCEPT !.timeout = seconds]

\* What the caller is given beside an error: an object nothing was read into.
\* It is never nil.
Empty == [name |-> NoName, version |-> 0]
-----------------------------------------------------------------------------
(***************************************************************************)
(* The API server.                                                         *)
(***************************************************************************)
KeyIn(q) == <<q.namespace, q.name>>

Stored(store) == {k \in DOMAIN store : store[k] # NoObject}

\* A custom resource is only updated by its current version, and is deleted
\* whatever its version if the request names none.  The client itself refuses
\* a path without a name.
Accepted(q, store) ==
    /\ q.name # NoName
    /\ IF q.verb = "POST"
       THEN store[KeyIn(q)] = NoObject
       ELSE /\ store[KeyIn(q)] # NoObject
            /\ q.verb = "PUT" => q.version = store[KeyIn(q)].version
            /\ q.verb = "DELETE" => q.version \in {0, store[KeyIn(q)].version}

\* The keys a List answers with, and a Watch reports on.
Selected(q, store) ==
    {k \in Stored(store) : q.namespace \in {AllNamespaces, k[1]}}
=============================================================================
