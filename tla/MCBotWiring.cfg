\* Contexts cloned by with_logger keep their own extras, and a bot keeps its
\* own config and secrets.
CONSTANTS
    k1 = k1
    v1 = v1
    v2 = v2
    l1 = l1
    l2 = l2
    Absent = Absent
SPECIFICATION Spec
PROPERTY ExtrasIsolated
INVARIANT ConfigIsolated
\* The embedding process may stop using its contexts and its bot at any point.
CHECK_DEADLOCK FALSE
