SPECIFICATION Spec
INVARIANTS SuccessMeansDone RefusalMeansUntouched
PROPERTIES NothingOverwritten CallsReturn
