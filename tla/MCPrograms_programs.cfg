SPECIFICATION Spec
CONSTANT None = None
INVARIANTS Served Resolved FleetSound AnswersTrue
PROPERTY WorkEnds
