----------------------------- MODULE FactTable ------------------------------
(***************************************************************************)
(* What the long-term memory promises whoever uses it alone: a table of    *)
(* facts, one active fact for each topic, in which every operation is one  *)
(* step.  MemoryStore implements it.                                       *)
(***************************************************************************)
EXTENDS Naturals

CONSTANTS Topics, Texts, Ids

VARIABLE facts   \* facts[m]: nothing yet, nothing any more, or what was learned

Nothing == [state |-> "unused"]
Gone == [state |-> "deleted"]
Learned(topic, text) == [state |-> "active", topic |-> topic, text |-> text, recalled |-> 0]

Active(m) == facts[m].state = "active"
Known(m) == facts[m].state \in {"active", "forgotten"}

\* What is believed about the topic.
Current(topic) == {m \in Ids : Active(m) /\ facts[m].topic = topic}

Init == facts = [m \in Ids |-> Nothing]

\* A new fact takes the place of the one on its topic, which is kept as a record.
Learn(topic, text) ==
    \E m \in Ids :
        /\ facts[m] = Nothing
        /\ facts' = [n \in Ids |-> IF n = m THEN Learned(topic, text)
                                   ELSE IF n \in Current(topic)
                                     THEN [facts[n] EXCEPT !.state = "forgotten"]
                                   ELSE facts[n]]

\* A fact is revised in place, unless another one is active on the topic.
Revise(m, topic, text) ==
    /\ Active(m) /\ Current(topic) \subseteq {m}
    /\ facts' = [facts EXCEPT ![m].topic = topic, ![m].text = text]

\* Each fact found is counted once; a forgotten one is found only by its id.
Recall(found) ==
    /\ \A m \in found : Known(m) /\ (Active(m) \/ found = {m})
    /\ facts' = [m \in Ids |-> IF m \in found THEN [facts[m] EXCEPT !.recalled = @ + 1]
                               ELSE facts[m]]

Forget(m) == Active(m) /\ facts' = [facts EXCEPT ![m].state = "forgotten"]

Remove(m) == Known(m) /\ facts' = [facts EXCEPT ![m] = Gone]

Next ==
    \/ \E topic \in Topics, text \in Texts :
         Learn(topic, text) \/ \E m \in Ids : Revise(m, topic, text)
    \/ \E found \in SUBSET Ids : Recall(found)
    \/ \E m \in Ids : Forget(m) \/ Remove(m)

Spec == Init /\ [][Next]_facts
=============================================================================
