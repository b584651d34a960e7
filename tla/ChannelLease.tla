---------------------------- MODULE ChannelLease ----------------------------
(***************************************************************************)
(* What the client pool of the hosted MCP server promises its requests     *)
(* (cloud-mcp/kumiho_cloud_mcp/clients.py): a channel is opened for one     *)
(* request, may be shared by others, is closed when nobody uses it, and is *)
(* closed once.  How the pool chooses what to share or close is left open. *)
(***************************************************************************)
CONSTANTS
    Request,   \* requests
    Client,    \* gRPC clients, each with its channel
    None       \* no client

VARIABLES
    life,      \* "none", "open" or "closed", for each client
    user       \* the client each request has borrowed

vars == <<life, user>>

Unused(c) == \A r \in Request : user[r] # c

Init ==
    /\ life = [c \in Client |-> "none"]
    /\ user = [r \in Request |-> None]

Open(r, c) ==
    /\ user[r] = None
    /\ life[c] = "none"
    /\ life' = [life EXCEPT ![c] = "open"]
    /\ user' = [user EXCEPT ![r] = c]

Borrow(r, c) ==
    /\ user[r] = None
    /\ life[c] = "open"
    /\ user' = [user EXCEPT ![r] = c]
    /\ UNCHANGED life

Return(r) ==
    /\ user[r] # None
    /\ user' = [user EXCEPT ![r] = None]
    /\ UNCHANGED life

Close(c) ==
    /\ life[c] = "open"
    /\ Unused(c)
    /\ life' = [life EXCEPT ![c] = "closed"]
    /\ UNCHANGED user

Next ==
    \/ \E r \in Request, c \in Client : Open(r, c) \/ Borrow(r, c)
    \/ \E r \in Request : Return(r)
    \/ \E c \in Client : Close(c)

Spec == Init /\ [][Next]_vars

=============================================================================
