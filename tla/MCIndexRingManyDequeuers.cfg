\* Three times as many dequeuers as indices, preempted before they lower the threshold.
SPECIFICATION LateDecrements
CONSTANTS
    Enqueuers = {e1}
    Dequeuers = {d1, d2, d3, d4, d5, d6}
    Capacity = 2
    Initials = {FALSE}
    MaxCalls = 10
SYMMETRY Symmetry
INVARIANT HonestEmpty
