--------------------------- MODULE WanLinkSession ---------------------------
(***************************************************************************)
(* What RdkXdslManager promises the WAN manager about Wan.LinkStatus of a  *)
(* line: it is only reported while a state machine runs, and the service   *)
(* never ends with Up as its last word.                                    *)
(***************************************************************************)
VARIABLES
    running, \* a state machine thread exists
    link     \* the last status reported: "none", "Up" or "Down"

sessionVars == <<running, link>>

Init == running = FALSE /\ link = "none"

Start == running' = TRUE /\ UNCHANGED link

Report(v) == running /\ link' = v /\ UNCHANGED running

Stop == running /\ link # "Up" /\ running' = FALSE /\ UNCHANGED link

Next == Start \/ Stop \/ \E v \in {"Up", "Down"} : Report(v)

Spec == Init /\ [][Next]_sessionVars
=============================================================================
