----------------------------- MODULE EnrollEdge -----------------------------
(***************************************************************************)
(* The edge of the enrollment listener: the PROXY header names the client  *)
(* of a connection, uvicorn passes that address to the application, and    *)
(* the rate limiter keys its buckets by it.                                *)
(***************************************************************************)
EXTENDS ProxyProtocol, RateLimit

VARIABLES
    asked,   \* ghost: enroll requests each client has sent
    failed   \* ghost: those answered 401 or 422

edgevars == <<connvars, limitvars, asked, failed>>

\* A connection carries one request at a time; a header may name the balancer.
ASSUME OneRequestPerConnection == Slot = Conn /\ Key = Caller \cup {Balancer}

EdgeInit ==
    /\ ConnInit /\ LimitInit
    /\ asked = [a \in Caller |-> 0] /\ failed = asked

\* A request on an established connection: request.client.host is the header's.
Request(c) ==
    /\ phase[c] = "tls"
    /\ Dispatch(c, client[c])
    /\ asked' = [asked EXCEPT ![caller[c]] = @ + 1]
    /\ UNCHANGED <<connvars, failed>>

\* A step of the middleware; a client that hangs up does not stop it.
Handle(c) ==
    /\ Middleware(c)
    /\ failed' = IF req[c].at = "serve" /\ req'[c].at = "record"
                 THEN [failed EXCEPT ![caller[c]] = @ + 1] ELSE failed
    /\ UNCHANGED <<connvars, asked>>

EdgeNext ==
    \/ ConnNext /\ UNCHANGED <<limitvars, asked, failed>>
    \/ \E c \in Conn : Request(c) \/ Handle(c)
    \/ Pass /\ UNCHANGED <<connvars, asked, failed>>

EdgeSpec == EdgeInit /\ [][EdgeNext]_edgevars

\* Callers behind one balancer have buckets of their own: what stands against a
\* connection that named its client was done by that client, however the header
\* was cut and whatever the others do.
BlamedForOwn ==
    \A c \in Conn :
        phase[c] = "tls" /\ ParseHeader(wire[c]).client \in Caller =>
            /\ requests[client[c]].count <= asked[caller[c]]
            /\ failures[client[c]].count <= failed[caller[c]]
=============================================================================
