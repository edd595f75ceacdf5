------------------------------ MODULE RuleSubject ------------------------------
(* The rules of pkg/hpa are functions of what was read from the cluster: they keep
   no state.  Each is checked on a subject, the data one command looks at, which
   grows step by step: one more override, sample, event, metric or rule.  A subject
   is a record with a topic, which names the rules it is for; it starts as a topic
   of which nothing was read yet.                                              *)
EXTENDS Integers, Sequences, FiniteSets

CONSTANTS MaxReplicas32, Unset

ASSUME WidthAssumption == MaxReplicas32 \in Nat \ {0}

VARIABLE subject

About(topic) == subject.topic = topic
Opened(topic) == [topic |-> "opened", of |-> topic]
Opens(topic) == subject = Opened(topic)
=============================================================================
