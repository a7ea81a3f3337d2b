------------------------------ MODULE OutboundCall ------------------------------
(***************************************************************************)
(* What the portal's HTTP client promises the code that makes a call, with  *)
(* no timers, retries or backoff in sight: a request goes out again only    *)
(* if it may be repeated, at most Limit times, never after the caller has   *)
(* cancelled, never while an earlier response still holds a connection and  *)
(* never after the call has settled; a call settles once, on an outcome     *)
(* that can be true of it, and lets its connection go when it does.         *)
(***************************************************************************)
EXTENDS Naturals

CONSTANTS
    Limit,      \* how often a repeatable request may be sent
    Outcomes    \* how a call can end; "aborted" is the caller's doing

VARIABLES
    repeatable,  \* sending the request twice is harmless
    cancelled,   \* the caller has given up
    sends,       \* requests sent
    holds,       \* a response holds a connection
    outcome      \* "none" until the call settles

vars == <<repeatable, cancelled, sends, holds, outcome>>

Init ==
    /\ repeatable \in BOOLEAN
    /\ cancelled \in BOOLEAN
    /\ sends = 0
    /\ holds = FALSE
    /\ outcome = "none"

Send ==
    /\ outcome = "none" /\ ~cancelled /\ ~holds
    /\ sends < (IF repeatable THEN Limit ELSE 1)
    /\ sends' = sends + 1
    /\ UNCHANGED <<repeatable, cancelled, holds, outcome>>

Receive ==
    /\ outcome = "none" /\ sends > 0 /\ ~holds
    /\ holds' = TRUE
    /\ UNCHANGED <<repeatable, cancelled, sends, outcome>>

Release ==
    /\ outcome = "none" /\ holds
    /\ holds' = FALSE
    /\ UNCHANGED <<repeatable, cancelled, sends, outcome>>

Settle ==
    /\ outcome = "none"
    /\ outcome' \in Outcomes \ {"none"}
    /\ IF outcome' = "aborted" THEN cancelled ELSE sends > 0
    /\ holds' = FALSE
    /\ UNCHANGED <<repeatable, cancelled, sends>>

Cancel ==
    /\ outcome = "none" /\ ~cancelled
    /\ cancelled' = TRUE
    /\ UNCHANGED <<repeatable, sends, holds, outcome>>

Next == Send \/ Receive \/ Release \/ Settle \/ Cancel

Spec == Init /\ [][Next]_vars
===============================================================================
