\* Three listing requests and two plain ones share three connections: all
\* listing ones may come to wait for each other, or two of them with a plain
\* request still at work.
SPECIFICATION FairSpec
CONSTANTS
    l1 = l1  l2 = l2  l3 = l3  q1 = q1  q2 = q2
    Callers = {l1, l2, l3, q1, q2}
    Listers = {l1, l2, l3}
    MaxConns = 3
    MaxRows = 2
INVARIANTS TypeOK NothingLeaks OnlyListersStall
PROPERTIES ServedOrStalled
