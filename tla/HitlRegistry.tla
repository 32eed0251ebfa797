---------------------------- MODULE HitlRegistry ----------------------------
(***************************************************************************)
(* HitlRegistry (src/server/hitl/hitl-registry.ts): the prompts that wait  *)
(* for a person. A registry is the set of its entries (a Map by tool call);*)
(* every method is synchronous and becomes an operator from registry to    *)
(* registry. One agent and one session are modelled, so every entry is of  *)
(* the same session.                                                       *)
(***************************************************************************)
EXTENDS Naturals

\* id: the tool call, numbered in the order of registration (createdAt, then seq);
\* inst: the agent instance whose run waits; kind: what counts as an answer.
Entries(Ids, Insts) == [id : Ids, inst : Insts, kind : {"text", "confirm"}]

Ids(reg) == {e.id : e \in reg}

Registered(reg, entry) == reg \cup {entry}

\* finalize(): the first answer, cancellation or timeout takes the entry out; a later one finds nothing.
Finalized(reg, id) == {e \in reg : e.id # id}

\* The tools of one runtime hear its abort signal and resolve their own prompts.
SignalAborted(reg, inst) == {e \in reg : e.inst # inst}

\* cancelAllForSession: whatever run registered them.
AllCancelled(reg) == {}

\* selectForSession without a tool call id: the oldest entry.
Oldest(reg) == CHOOSE e \in reg : \A d \in reg : e.id <= d.id

\* parseConfirm: free text answers a text prompt; a confirm prompt takes exactly yes or no.
Answers(entry, yesOrNo) == entry.kind = "text" \/ yesOrNo
=============================================================================
