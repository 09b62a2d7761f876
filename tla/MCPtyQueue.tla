----------------------------- MODULE MCPtyQueue -----------------------------
(* Small instances of PtyQueue: who initiated the commands.                *)
EXTENDS PtyQueue

(* Nothing was initiated by an agent: no fence reaches these commands.     *)
NoInitiator == [c \in Cmd |-> 0]

(* Every command but the fence's own closes comes from generation 1.       *)
FirstGeneration == [c \in Cmd |-> IF c \in FenceCloses THEN 0 ELSE 1]
=============================================================================
