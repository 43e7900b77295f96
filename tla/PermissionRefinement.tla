------------------------ MODULE PermissionRefinement ------------------------
(* The permission engine implements PermissionService: a thread between an *)
(* expiry and the end of its clears is an agent that owes those clears.    *)
EXTENDS PermissionEngine

Owes(t) == CASE pc[t] = "clear_pending"  -> "both"
             [] pc[t] = "clear_approved" -> "approved"
             [] OTHER                    -> "nothing"

Service == INSTANCE PermissionService
             WITH Agents <- Threads, owes <- [t \in Threads |-> Owes(t)]

\* Every critical section of the engine is a step the service allows, or none
\* at all: in particular an approval is granted only while its confirmation
\* stands, although the lookup and the insertion are two critical sections.
ImplementsService == Service!Spec
=============================================================================
