-------------------------- MODULE MCMemoryRecords --------------------------
(***************************************************************************)
(* Model checking of MemoryRecords on small instances.                      *)
(***************************************************************************)
EXTENDS MemoryRecords

CONSTANTS t1, t2, secret, wrong

\* A secret, with and without the opt-out; an empty one with the opt-out;
\* nothing at all.
AllEnvironments ==
    {[secret |-> secret, insecure |-> FALSE], [secret |-> secret, insecure |-> TRUE],
     [secret |-> Empty, insecure |-> TRUE], [secret |-> None, insecure |-> FALSE]}

\* Both tenants' genuine headers, the secret without a tenant, a wrong secret,
\* nothing.
SomeHeaders ==
    {[auth |-> secret, org |-> t1], [auth |-> secret, org |-> t2],
     [auth |-> secret, org |-> None], [auth |-> wrong, org |-> t1],
     [auth |-> None, org |-> None]}
=============================================================================
