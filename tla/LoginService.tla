---------------------------- MODULE LoginService -----------------------------
(***************************************************************************)
(* What the login path promises its host, with none of how it does it: no  *)
(* pointers, clock, nonce table or steps. A login is started for one       *)
(* client; the provider signs codes for started logins; a call is        *)
(* granted a login once, on a signed code that no other call was granted,  *)
(* for the login it presents, and learns about no subject but the signed   *)
(* one. AuthFlow implements this specification.                            *)
(***************************************************************************)
CONSTANTS
    Flows, Codes, Calls,
    None  \* not started, not signed, not granted

VARIABLES
    started,  \* the client, with its issuer, each login was started for
    signed,   \* the login, the client and the subject each code stands for
    granted   \* what each call was granted

service == <<started, signed, granted>>

ServiceInit ==
    /\ started = [f \in Flows |-> None]
    /\ signed = [k \in Codes |-> None]
    /\ granted = [c \in Calls |-> None]

Begin(f, client) ==
    /\ started[f] = None
    /\ started' = [started EXCEPT ![f] = client]
    /\ UNCHANGED <<signed, granted>>

Sign(k, f, subject) ==
    /\ started[f] # None
    /\ signed[k] = None
    /\ signed' = [signed EXCEPT ![k] = [flow |-> f, client |-> started[f],
                                        subject |-> subject]]
    /\ UNCHANGED <<started, granted>>

Unused(k) == \A d \in Calls : granted[d] # None => granted[d].code # k

Grant(c, k) ==
    /\ granted[c] = None
    /\ signed[k] # None
    /\ Unused(k)
    /\ \E subject \in {"", signed[k].subject} :
          granted' = [granted EXCEPT ![c] = [code |-> k, flow |-> signed[k].flow,
                                             client |-> signed[k].client,
                                             subject |-> subject]]
    /\ UNCHANGED <<started, signed>>

\* Most steps of an implementation change none of this.
ServiceNext ==
    \/ UNCHANGED service
    \/ \E f \in Flows : Begin(f, started'[f])
    \/ \E k \in Codes, f \in Flows : signed'[k] # None /\ Sign(k, f, signed'[k].subject)
    \/ \E c \in Calls, k \in Codes : Grant(c, k)

ServiceSpec == ServiceInit /\ [][ServiceNext]_service

=============================================================================
