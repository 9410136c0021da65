SPECIFICATION Spec
CONSTANTS
    q1 = q1
    q2 = q2
    Reader = {q1}
INVARIANT TripStandsUntilReview
