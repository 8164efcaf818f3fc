---------------------------- MODULE MCSessionLog ----------------------------
EXTENDS SessionLog

CONSTANTS m1, c1, t1, t2, g1, main, helper, guard

MCRequests   == {m1, c1, t1, t2, g1}
MCSessions   == {main, helper, guard}
MCKind       == [r \in MCRequests |->
                   CASE r = m1 -> "main" [] r = c1 -> "compaction" [] r = g1 -> "guardian" [] OTHER -> "title"]
MCKey        == [r \in MCRequests |->
                   CASE r \in {m1, c1} -> main [] r = g1 -> guard [] OTHER -> helper]
MCCanonical  == [s \in MCSessions |-> IF s = guard THEN main ELSE s]
MCSamePrompt == {<<t1, m1>>, <<t2, m1>>}
MCHistories  == {{g1}, {m1, t1}, MCRequests}
\* The compaction is within the span of t2 and not of t1.
MCCreatedAt  == [r \in MCRequests |->
                   CASE r = m1 -> 3 [] r = t1 -> 4 [] r = t2 -> 5 [] r = c1 -> 9 [] r = g1 -> 1]
MCTitleOrder == <<t1, t2>>
=============================================================================
