------------------------------- MODULE MCBilling -------------------------------
\* Instances of Billing for TLC: card payments buy the small plan, transfers the
\* large one.
EXTENDS Billing, TLC

CONSTANTS p1, i1, s1, s2, r1, r2

SmallOrLarge == [x \in Causes |-> IF x \in Submissions THEN "large" ELSE "small"]
Piasters == [n \in Plans |-> IF n = "large" THEN 20 ELSE 10]
Gigabytes == [n \in Plans |-> IF n = "large" THEN 200 ELSE 100]

\* Slots are alike, and so are the ids of subscriptions.
Alike == Permutations(Slots) \cup Permutations(Subs)

=============================================================================
