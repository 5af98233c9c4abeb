\* The Net is reshaped between iterations (a new input size): the bottom
\* keeps its kind of data and its MKL layout, only its shape changes.
SPECIFICATION Spec
CONSTANTS
    Shapes = {"s1", "s2"}
    IntLayouts = {"mkl1"}
    Varying = {"shape"}
    MaxIters = 2
INVARIANT ExecutionsConsistent
CHECK_DEADLOCK FALSE
