--------------------------- MODULE PromptDelivery ---------------------------
(***************************************************************************)
(* What the Node promises a Hub about a prompt it holds (held_input.rs,    *)
(* protocol.md 7.2): exactly one of a withdrawal and a delivery wins; a    *)
(* prompt is written at most once, with the text of the last edit that was *)
(* acknowledged; a claim whose write did not happen leaves the prompt open *)
(* again; a prompt that was given up is never written afterwards.          *)
(***************************************************************************)
CONSTANTS Prompts, Texts, Original, NoText

VARIABLES
    fate,    \* "open", "claimed", "withdrawn", "written" or "dropped"
    text,    \* the text the Hub believes the prompt has
    output   \* the text the harness received

vars == <<fate, text, output>>

Init ==
    /\ fate = [p \in Prompts |-> "open"]
    /\ text = [p \in Prompts |-> Original]
    /\ output = [p \in Prompts |-> NoText]

Withdraw(p) ==
    /\ fate[p] = "open"
    /\ fate' = [fate EXCEPT ![p] = "withdrawn"]
    /\ UNCHANGED <<text, output>>

Edit(p, t) ==
    /\ fate[p] = "open"
    /\ text' = [text EXCEPT ![p] = t]
    /\ UNCHANGED <<fate, output>>

Claim(p) ==
    /\ fate[p] = "open"
    /\ fate' = [fate EXCEPT ![p] = "claimed"]
    /\ UNCHANGED <<text, output>>

Unclaim(p) ==
    /\ fate[p] = "claimed"
    /\ fate' = [fate EXCEPT ![p] = "open"]
    /\ UNCHANGED <<text, output>>

Write(p) ==
    /\ fate[p] = "claimed"
    /\ fate' = [fate EXCEPT ![p] = "written"]
    /\ output' = [output EXCEPT ![p] = text[p]]
    /\ UNCHANGED text

(* A failure, a fence, an interrupt or a restart gives up any number of    *)
(* prompts that are still undecided.                                       *)
Drop(S) ==
    /\ \A p \in S : fate[p] \in {"open", "claimed"}
    /\ fate' = [p \in Prompts |-> IF p \in S THEN "dropped" ELSE fate[p]]
    /\ UNCHANGED <<text, output>>

Next ==
    \/ \E p \in Prompts : Withdraw(p) \/ Claim(p) \/ Unclaim(p) \/ Write(p)
    \/ \E p \in Prompts, t \in Texts : Edit(p, t)
    \/ \E S \in SUBSET Prompts : Drop(S)

Spec == Init /\ [][Next]_vars
=============================================================================
